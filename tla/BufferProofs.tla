---------------------------- MODULE BufferProofs ----------------------------
(* Theorems about Buffer, for every capacity, policy, number of fibers,      *)
(* owners and events.                                                        *)
EXTENDS Buffer, FiniteSetTheorems, TLAPS

-----------------------------------------------------------------------------
(* Type correctness.                                                         *)

\* A goroutine that moves from a legal place to a legal place stays legal.
LEMMA GotoType ==
    ASSUME NEW S, NEW P, NEW x \in S, NEW v \in P, NEW g \in [S -> P]
    PROVE  [g EXCEPT ![x] = v] \in [S -> P]
  OBVIOUS

\* Sending one event keeps the queue a sequence of events.
LEMMA AppendType ==
    ASSUME NEW S, NEW s \in Seq(S), NEW e \in S
    PROVE  Append(s, e) \in Seq(S) /\ Len(Append(s, e)) = Len(s) + 1
  OBVIOUS

\* Receiving one event takes the head off a sequence of events.
LEMMA TailType ==
    ASSUME NEW S, NEW s \in Seq(S), s # <<>>
    PROVE  Head(s) \in S /\ Tail(s) \in Seq(S) /\ Len(Tail(s)) = Len(s) - 1
  OBVIOUS

\* What a fiber has in hand inside Observe is an event.
LEMMA ItemType ==
    ASSUME TypeOK, NEW f \in Fibers, pc[f] # "idle"
    PROVE  Item(f) \in Event
<1>1. emitted[f] \in 0..MaxEvents /\ emitted[f] > 0
  BY DEF TypeOK
<1>2. emitted[f] \in 1..MaxEvents
  BY <1>1, BufferAssumption
<1> QED
  BY <1>2 DEF Event, Item

\* A buffer just made is well typed.
LEMMA InitType == Init => TypeOK
<1> SUFFICES ASSUME Init PROVE TypeOK
  OBVIOUS
<1>1. queue \in Seq(Event) /\ Len(queue) <= Capacity
  BY BufferAssumption DEF Init
<1>2. delivered \in Seq(Event) /\ inlined \in SUBSET Event
  BY DEF Init
<1>3. /\ pc \in [Fibers -> {"idle", "entering", "inline"} \cup Sending]
      /\ emitted \in [Fibers -> 0..MaxEvents]
      /\ opc \in [Owners -> {"idle", "locking", "waiting", "again", "drained", "expired"}]
      /\ \A f \in Fibers : pc[f] = "idle"
  BY BufferAssumption DEF Init
<1>4. overflow \in Overflows /\ stopped \in BOOLEAN /\ drops \in Nat /\ worker \in {"ranging", "delivering", "exited"}
  BY DEF Init
<1> QED
  BY <1>1, <1>2, <1>3, <1>4 DEF TypeOK

\* Every step of a fiber, of the worker or of a Flush keeps the types.
LEMMA StepType == TypeOK /\ [Next]_vars => TypeOK'
<1> SUFFICES ASSUME TypeOK, [Next]_vars PROVE TypeOK'
  OBVIOUS
<1> USE BufferAssumption DEF TypeOK
<1>1. ASSUME NEW f \in Fibers, Observe(f) PROVE TypeOK'
  BY <1>1, GotoType DEF Observe, Goto
<1>2. ASSUME NEW f \in Fibers, Admit(f) PROVE TypeOK'
  BY <1>2 DEF Admit, Goto, Sending
<1>3. ASSUME NEW f \in Fibers, AdmitInline(f) PROVE TypeOK'
  <2>1. Item(f) \in Event
    BY <1>3, ItemType DEF AdmitInline
  <2> QED
    BY <1>3, <2>1 DEF AdmitInline, Goto
<1>4. ASSUME NEW f \in Fibers, InlineReturn(f) PROVE TypeOK'
  BY <1>4 DEF InlineReturn, Goto
<1>5. ASSUME NEW f \in Fibers, Send(f) PROVE TypeOK'
  <2>1. Item(f) \in Event
    BY <1>5, ItemType DEF Send
  <2>2. queue' \in Seq(Event) /\ Len(queue') <= Capacity
    BY <1>5, <2>1, AppendType DEF Send, Full
  <2> QED
    BY <1>5, <2>2 DEF Send, Goto
<1>6. ASSUME NEW f \in Fibers, MakeRoom(f) PROVE TypeOK'
  BY <1>6 DEF MakeRoom, Goto, Sending
<1>7. ASSUME NEW f \in Fibers, Evict(f) PROVE TypeOK'
  <2>1. queue' \in Seq(Event) /\ Len(queue') <= Capacity
    BY <1>7, TailType DEF Evict
  <2> QED
    BY <1>7, <2>1 DEF Evict, Goto, Sending
<1>8. ASSUME NEW f \in Fibers, EvictNothing(f) PROVE TypeOK'
  BY <1>8 DEF EvictNothing, Goto, Sending
<1>9. ASSUME NEW f \in Fibers, CountEviction(f) PROVE TypeOK'
  BY <1>9 DEF CountEviction, Goto, Sending
<1>10. ASSUME NEW f \in Fibers, Refuse(f) PROVE TypeOK'
  BY <1>10 DEF Refuse, Goto
<1>11. ASSUME WorkerReceive PROVE TypeOK'
  <2>1. queue' \in Seq(Event) /\ Len(queue') <= Capacity
    BY <1>11, TailType DEF WorkerReceive
  <2>2. delivered' \in Seq(Event)
    BY <1>11, TailType, AppendType DEF WorkerReceive
  <2> QED
    BY <1>11, <2>1, <2>2 DEF WorkerReceive
<1>12. ASSUME WorkerReturn PROVE TypeOK'
  BY <1>12 DEF WorkerReturn
<1>13. ASSUME WorkerExit PROVE TypeOK'
  BY <1>13 DEF WorkerExit
<1>14. ASSUME NEW o \in Owners, FlushLock(o) PROVE TypeOK'
  BY <1>14 DEF FlushLock, FlushGoto
<1>15. ASSUME NEW o \in Owners, FlushStep(o) \/ FlushExpire(o) PROVE TypeOK'
  BY <1>15 DEF FlushStep, FlushStop, FlushAgain, FlushDrained, FlushExpire, FlushGoto
<1>16. ASSUME UNCHANGED vars PROVE TypeOK'
  BY <1>16 DEF vars
<1> QED
  BY <1>1, <1>2, <1>3, <1>4, <1>5, <1>6, <1>7, <1>8, <1>9, <1>10, <1>11,
     <1>12, <1>13, <1>14, <1>15, <1>16
  DEF Next, FiberStep, Offer, WorkerStep, Terminated

\* Every reachable state is well typed, and the queue never exceeds the capacity
\* the channel was made with.
THEOREM TypeCorrect == Spec => []TypeOK
  BY InitType, StepType, PTL DEF Spec

-----------------------------------------------------------------------------
(* The read-write lock keeps channel operations and close apart.             *)

\* The step that closes the queue waits for those inside the lock, and none enters after.
LEMMA LockStep == TypeOK /\ NoSendOnClosed /\ [Next]_vars => NoSendOnClosed'
<1> SUFFICES ASSUME TypeOK, NoSendOnClosed, [Next]_vars PROVE NoSendOnClosed'
  OBVIOUS
<1> USE DEF NoSendOnClosed, Sending
<1>1. ASSUME NEW f \in Fibers, Observe(f) \/ InlineReturn(f) PROVE NoSendOnClosed'
  BY <1>1 DEF TypeOK, Observe, InlineReturn, Goto
<1>2. ASSUME NEW f \in Fibers, Admit(f) PROVE NoSendOnClosed'
  BY <1>2 DEF Admit
<1>3. ASSUME NEW f \in Fibers, AdmitInline(f) PROVE NoSendOnClosed'
  BY <1>3 DEF TypeOK, AdmitInline, Goto
<1>4. ASSUME NEW f \in Fibers, Offer(f) PROVE NoSendOnClosed'
  <2>1. ~stopped /\ stopped' = stopped
    BY <1>4 DEF Offer, Send, MakeRoom, Evict, EvictNothing, CountEviction, Refuse, LastAttempt
  <2> QED
    BY <2>1
<1>5. ASSUME WorkerStep PROVE NoSendOnClosed'
  BY <1>5 DEF WorkerStep, WorkerReceive, WorkerReturn, WorkerExit
<1>6. ASSUME NEW o \in Owners, FlushStop(o) PROVE NoSendOnClosed'
  BY <1>6 DEF FlushStop, Reading
<1>7. ASSUME NEW o \in Owners,
             FlushLock(o) \/ FlushAgain(o) \/ FlushDrained(o) \/ FlushExpire(o)
      PROVE NoSendOnClosed'
  BY <1>7 DEF FlushLock, FlushAgain, FlushDrained, FlushExpire
<1>8. ASSUME UNCHANGED vars PROVE NoSendOnClosed'
  BY <1>8 DEF vars
<1> QED
  BY <1>1, <1>2, <1>3, <1>4, <1>5, <1>6, <1>7, <1>8 DEF Next, FiberStep, FlushStep, Terminated

\* No fiber sends into or receives from a channel Flush has closed.
THEOREM NeverSendsOnClosed == Spec => []NoSendOnClosed
<1>1. Init => NoSendOnClosed
  BY DEF Init, NoSendOnClosed
<1> QED
  BY <1>1, LockStep, TypeCorrect, PTL DEF Spec

-----------------------------------------------------------------------------
(* Sequences that grow at one end and shrink at the other.                   *)

\* One event more, or one less, in the range of a sequence.
LEMMA RangeAppend ==
    ASSUME NEW S, NEW s \in Seq(S), NEW e \in S
    PROVE  Range(Append(s, e)) = Range(s) \cup {e}
<1>1. DOMAIN Append(s, e) = 1..(Len(s) + 1) /\ DOMAIN s = 1..Len(s) /\ Len(s) \in Nat
  OBVIOUS
<1>2. (\A i \in DOMAIN s : Append(s, e)[i] = s[i]) /\ Append(s, e)[Len(s) + 1] = e
  OBVIOUS
<1>3. Range(Append(s, e)) \subseteq Range(s) \cup {e}
  BY <1>1, <1>2 DEF Range
<1>4. Range(s) \subseteq Range(Append(s, e)) /\ e \in Range(Append(s, e))
  BY <1>1, <1>2 DEF Range
<1> QED
  BY <1>3, <1>4

\* Taking the head off a sequence takes that one element off.
LEMMA RangeTail ==
    ASSUME NEW S, NEW s \in Seq(S), s # <<>>
    PROVE  Range(s) = Range(Tail(s)) \cup {Head(s)}
<1>1. /\ DOMAIN s = 1..Len(s) /\ Len(s) \in Nat \ {0} /\ Head(s) = s[1]
      /\ DOMAIN Tail(s) = 1..(Len(s) - 1)
      /\ \A i \in 1..(Len(s) - 1) : Tail(s)[i] = s[i + 1]
  OBVIOUS
<1>2. Range(Tail(s)) \subseteq Range(s) /\ Head(s) \in Range(s)
  BY <1>1 DEF Range
<1>3. ASSUME NEW i \in DOMAIN s PROVE s[i] \in Range(Tail(s)) \cup {Head(s)}
  <2>1. CASE i = 1
    BY <1>1, <2>1
  <2>2. CASE i # 1
    <3>1. i - 1 \in DOMAIN Tail(s) /\ Tail(s)[i - 1] = s[i]
      BY <1>1, <2>2
    <3> QED
      BY <3>1 DEF Range
  <2> QED
    BY <2>1, <2>2
<1>4. Range(s) \subseteq Range(Tail(s)) \cup {Head(s)}
  BY <1>3 DEF Range
<1> QED
  BY <1>2, <1>4

\* What two sequences hold when they are put one behind the other.
LEMMA Behind ==
    ASSUME NEW S, NEW s \in Seq(S), NEW t \in Seq(S)
    PROVE  /\ s \o t \in Seq(S) /\ Len(s \o t) = Len(s) + Len(t)
           /\ DOMAIN (s \o t) = 1..(Len(s) + Len(t))
           /\ \A i \in 1..Len(s) : (s \o t)[i] = s[i]
           /\ \A i \in 1..Len(t) : (s \o t)[Len(s) + i] = t[i]
  OBVIOUS

\* One sequence behind another has the elements of both.
LEMMA RangeBehind ==
    ASSUME NEW S, NEW s \in Seq(S), NEW t \in Seq(S)
    PROVE  Range(s \o t) = Range(s) \cup Range(t)
<1>1. DOMAIN s = 1..Len(s) /\ DOMAIN t = 1..Len(t) /\ Len(s) \in Nat /\ Len(t) \in Nat
  OBVIOUS
<1>2. Range(s) \subseteq Range(s \o t)
  BY <1>1, Behind DEF Range
<1>3. ASSUME NEW i \in DOMAIN t PROVE t[i] \in Range(s \o t)
  <2>1. Len(s) + i \in DOMAIN (s \o t) /\ (s \o t)[Len(s) + i] = t[i]
    BY <1>1, Behind
  <2> QED
    BY <2>1 DEF Range
<1>4. ASSUME NEW i \in DOMAIN (s \o t) PROVE (s \o t)[i] \in Range(s) \cup Range(t)
  <2>1. CASE i <= Len(s)
    BY <1>1, <2>1, Behind DEF Range
  <2>2. CASE i > Len(s)
    <3>1. i - Len(s) \in DOMAIN t /\ i = Len(s) + (i - Len(s))
      BY <1>1, <2>2, Behind
    <3>2. (s \o t)[i] = t[i - Len(s)]
      BY <1>1, <3>1, Behind
    <3> QED
      BY <3>1, <3>2 DEF Range
  <2>3. i \in Nat
    BY Behind
  <2> QED
    BY <1>1, <2>1, <2>2, <2>3
<1> QED
  BY <1>2, <1>3, <1>4 DEF Range

\* Moving the head of the one to the end of the other changes nothing.
LEMMA MoveAcross ==
    ASSUME NEW S, NEW s \in Seq(S), NEW t \in Seq(S), t # <<>>
    PROVE  Append(s, Head(t)) \o Tail(t) = s \o t
  OBVIOUS

\* Appending to what is behind is appending to the whole.
LEMMA AppendBehind ==
    ASSUME NEW S, NEW s \in Seq(S), NEW t \in Seq(S), NEW e \in S
    PROVE  s \o Append(t, e) = Append(s \o t, e)
  OBVIOUS

\* Taking the head out of the middle brings what was behind it one place forward.
LEMMA SkipMiddle ==
    ASSUME NEW S, NEW s \in Seq(S), NEW t \in Seq(S), t # <<>>
    PROVE  /\ DOMAIN (s \o Tail(t)) = 1..(Len(s) + Len(t) - 1)
           /\ \A i \in DOMAIN (s \o Tail(t)) :
                (s \o Tail(t))[i] = IF i <= Len(s) THEN (s \o t)[i] ELSE (s \o t)[i + 1]
  OBVIOUS

-----------------------------------------------------------------------------
(* What a step does to the events in the fibers' hands.                      *)

Holding(f) == pc[f] \notin {"idle", "inline"}

\* Two fibers never have the same event in hand.
LEMMA ItemIsOwn ==
    ASSUME NEW f, NEW g, Item(f) = Item(g) PROVE f = g
  BY DEF Item

\* What a fiber has in hand it has emitted.
LEMMA InHandIsEmitted == TypeOK => InHand \subseteq Emitted
<1> SUFFICES ASSUME TypeOK, NEW f \in Fibers, Holding(f) PROVE Item(f) \in Emitted
  BY DEF InHand, Holding
<1>1. Item(f) \in Event
  BY ItemType DEF Holding
<1> QED
  BY <1>1 DEF Emitted, Item, TypeOK

\* The fiber begins with an event nobody has seen.
LEMMA ObserveTakes ==
    ASSUME TypeOK, NEW f \in Fibers, Observe(f)
    PROVE  /\ Item(f)' \notin Emitted
           /\ Emitted' = Emitted \cup {Item(f)'}
           /\ InHand' = InHand \cup {Item(f)'}
<1> DEFINE e == <<f, emitted[f] + 1>>
<1>1. /\ emitted' = [emitted EXCEPT ![f] = emitted[f] + 1]
      /\ pc' = [pc EXCEPT ![f] = "entering"]
      /\ emitted \in [Fibers -> 0..MaxEvents] /\ DOMAIN pc = Fibers
      /\ emitted[f] < MaxEvents /\ pc[f] = "idle"
  BY DEF Observe, Goto, TypeOK
<1>2. Item(f)' = e /\ e \in Event
  BY <1>1, BufferAssumption DEF Item, Event
<1>3. e \notin Emitted
  BY <1>1 DEF Emitted
<1>4. ASSUME NEW d \in Event PROVE d \in Emitted' <=> d \in Emitted \cup {e}
  <2>1. d = <<d[1], d[2]>> /\ d[1] \in Fibers /\ d[2] \in 1..MaxEvents
    BY DEF Event
  <2>2. CASE d[1] = f
    <3>1. d[2] <= emitted[f] + 1 <=> d[2] <= emitted[f] \/ d[2] = emitted[f] + 1
      BY <1>1, <2>1, BufferAssumption
    <3> QED
      BY <1>1, <2>1, <2>2, <3>1 DEF Emitted
  <2>3. CASE d[1] # f
    BY <1>1, <2>1, <2>3 DEF Emitted
  <2> QED
    BY <2>2, <2>3
<1>5. Emitted' = Emitted \cup {e}
  BY <1>2, <1>4 DEF Emitted
<1>6. \A g \in Fibers : g # f => (Item(g)' = Item(g) /\ (Holding(g)' <=> Holding(g)))
  BY <1>1 DEF Item, Holding
<1>7. Holding(f)' /\ ~Holding(f)
  BY <1>1 DEF Holding
<1>8. InHand = {Item(g) : g \in {h \in Fibers : Holding(h)}}
  BY DEF InHand, Holding
<1>9. InHand' = {Item(g)' : g \in {h \in Fibers : Holding(h)'}}
  BY DEF InHand, Holding
<1>10. InHand' = InHand \cup {e}
  BY <1>2, <1>6, <1>7, <1>8, <1>9
<1> QED
  BY <1>2, <1>3, <1>5, <1>10

\* A fiber that goes on with its event keeps it; one that is done lets go of it.
LEMMA GotoHand ==
    ASSUME TypeOK, NEW f \in Fibers, NEW where, Goto(f, where), emitted' = emitted
    PROVE  /\ Emitted' = Emitted
           /\ (where \notin {"idle", "inline"} <=> Holding(f)) => InHand' = InHand
           /\ Holding(f) /\ where \in {"idle", "inline"}
                => Item(f) \in InHand /\ InHand' = InHand \ {Item(f)}
<1>1. pc' = [pc EXCEPT ![f] = where] /\ DOMAIN pc = Fibers
  BY DEF Goto, TypeOK
<1>2. \A g \in Fibers : Item(g)' = Item(g) /\ (g # f => (Holding(g)' <=> Holding(g)))
  BY <1>1 DEF Item, Holding
<1>3. Holding(f)' <=> where \notin {"idle", "inline"}
  BY <1>1 DEF Holding
<1>4. InHand = {Item(g) : g \in {h \in Fibers : Holding(h)}}
  BY DEF InHand, Holding
<1>5. InHand' = {Item(g)' : g \in {h \in Fibers : Holding(h)'}}
  BY DEF InHand, Holding
<1>6. Emitted' = Emitted
  BY DEF Emitted
<1>7. ASSUME where \notin {"idle", "inline"} <=> Holding(f) PROVE InHand' = InHand
  BY <1>2, <1>3, <1>4, <1>5, <1>7
<1>8. ASSUME Holding(f), where \in {"idle", "inline"}
      PROVE  Item(f) \in InHand /\ InHand' = InHand \ {Item(f)}
  BY <1>2, <1>3, <1>4, <1>5, <1>8, ItemIsOwn
<1> QED
  BY <1>6, <1>7, <1>8

-----------------------------------------------------------------------------
(* Every event is in one place, and each fiber's are in order.               *)

Placed == Range(queue) \cup Range(delivered) \cup inlined

InOrder(s) == \A i, j \in DOMAIN s : i < j /\ s[i][1] = s[j][1] => s[i][2] < s[j][2]

\* FiberOrder is about events already on their way.  That it stays true when the next
\* one is sent needs that those are events emitted and no longer in hand, so that the
\* next one of a fiber has a higher number than all of them.
OrderInv == /\ TypeOK
            /\ FiberOrder
            /\ Placed \subseteq Emitted
            /\ InHand \cap Placed = {}

\* The arrivals are what was delivered by the worker and what is still queued.
LEMMA PlacedIs == TypeOK => /\ Arrivals \in Seq(Event)
                            /\ Range(Arrivals) = Range(delivered) \cup Range(queue)
                            /\ Range(Arrivals) \subseteq Placed
  BY RangeBehind, Behind DEF TypeOK, Arrivals, Placed

\* In order implies that nothing arrives twice.
LEMMA NoRepeats ==
    ASSUME NEW s \in Seq(Event), InOrder(s), NEW i \in DOMAIN s, NEW j \in DOMAIN s, s[i] = s[j]
    PROVE  i = j
<1>1. DOMAIN s = 1..Len(s) /\ Len(s) \in Nat /\ s[i] \in Event /\ s[i][2] \in Int
  BY BufferAssumption DEF Event
<1>2. ~(i < j) /\ ~(j < i)
  BY <1>1 DEF InOrder
<1> QED
  BY <1>1, <1>2

\* The event at the head of the queue is nowhere else.
LEMMA HeadIsAlone ==
    ASSUME OrderInv, queue # <<>>
    PROVE  /\ Head(queue) \in Range(queue) /\ Head(queue) \notin Range(Tail(queue))
           /\ Head(queue) \notin Range(delivered) /\ Head(queue) \notin inlined
           /\ Head(queue) \notin InHand
<1> DEFINE n == Len(delivered)
<1>1. /\ queue \in Seq(Event) /\ delivered \in Seq(Event) /\ inlined \subseteq Event
      /\ Arrivals \in Seq(Event) /\ InOrder(Arrivals) /\ n \in Nat
      /\ Len(queue) \in Nat \ {0} /\ Head(queue) = queue[1]
  BY PlacedIs DEF OrderInv, TypeOK, FiberOrder, InOrder
<1>2. /\ DOMAIN Arrivals = 1..(n + Len(queue))
      /\ \A i \in 1..n : Arrivals[i] = delivered[i]
      /\ \A i \in 1..Len(queue) : Arrivals[n + i] = queue[i]
  BY <1>1, Behind DEF Arrivals
<1>3. n + 1 \in DOMAIN Arrivals /\ Arrivals[n + 1] = Head(queue)
  BY <1>1, <1>2
<1>4. Head(queue) \in Range(queue)
  BY <1>1, RangeTail
<1>5. ASSUME Head(queue) \in Range(delivered) PROVE FALSE
  <2>1. PICK i \in 1..n : delivered[i] = Head(queue)
    BY <1>1, <1>5 DEF Range
  <2> QED
    BY <1>1, <1>2, <1>3, <2>1, NoRepeats, SMTT(40)
<1>6. ASSUME Head(queue) \in Range(Tail(queue)) PROVE FALSE
  <2>1. PICK i \in DOMAIN Tail(queue) : Tail(queue)[i] = Head(queue)
    BY <1>6 DEF Range
  <2>2. i \in 1..(Len(queue) - 1) /\ queue[i + 1] = Head(queue)
    BY <1>1, <2>1
  <2>3. n + (i + 1) \in DOMAIN Arrivals /\ Arrivals[n + (i + 1)] = Head(queue)
    <3>1. i + 1 \in 1..Len(queue)
      BY <1>1, <2>2
    <3> QED
      BY <1>1, <1>2, <2>2, <3>1
  <2> QED
    BY <1>1, <1>3, <2>2, <2>3, NoRepeats
<1>7. Head(queue) \notin inlined /\ Head(queue) \notin InHand
  BY <1>4, PlacedIs DEF OrderInv, FiberOrder
<1> QED
  BY <1>4, <1>5, <1>6, <1>7

\* Where every event is after a step that moves one.
LEMMA ReceiveKeepsPlaces ==
    ASSUME TypeOK, queue # <<>>, queue' = Tail(queue), delivered' = Append(delivered, Head(queue))
    PROVE  Arrivals' = Arrivals /\ Range(queue') \cup Range(delivered') = Range(queue) \cup Range(delivered)
<1>1. queue \in Seq(Event) /\ delivered \in Seq(Event) /\ Head(queue) \in Event
  BY TailType DEF TypeOK
<1>2. Arrivals' = Arrivals
  BY <1>1, MoveAcross DEF Arrivals
<1>3. /\ Range(queue) = Range(queue') \cup {Head(queue)}
      /\ Range(delivered') = Range(delivered) \cup {Head(queue)}
  BY <1>1, RangeAppend, RangeTail
<1> QED
  BY <1>2, <1>3

\* In the beginning nothing has arrived.
LEMMA OrderInit == Init => OrderInv
<1> SUFFICES ASSUME Init PROVE OrderInv
  OBVIOUS
<1>1. TypeOK
  BY InitType
<1>2. Range(queue) = {} /\ Range(delivered) = {} /\ inlined = {} /\ Len(Arrivals) = 0
  BY DEF Init, Range, Arrivals
<1>3. Placed = {}
  BY <1>2 DEF Placed
<1>4. DOMAIN Arrivals = {} /\ Range(Arrivals) = {}
  BY <1>1, <1>2, PlacedIs DEF Placed
<1> QED
  BY <1>1, <1>3, <1>4 DEF OrderInv, FiberOrder

\* A step after which everything is where it was, or in fewer hands.
LEMMA OrderStays ==
    ASSUME OrderInv, TypeOK', Emitted \subseteq Emitted', InHand' \subseteq InHand,
           UNCHANGED <<queue, delivered, inlined>>
    PROVE  OrderInv'
<1>1. Arrivals' = Arrivals /\ Placed' = Placed
  BY DEF Arrivals, Placed
<1> QED
  BY <1>1 DEF OrderInv, FiberOrder

\* Every step keeps what arrived in order.
LEMMA OrderStep == OrderInv /\ [Next]_vars => OrderInv'
<1> SUFFICES ASSUME OrderInv, [Next]_vars PROVE OrderInv'
  OBVIOUS
<1>1. TypeOK /\ TypeOK'
  BY StepType DEF OrderInv
<1>2. ASSUME NEW f \in Fibers, Observe(f) PROVE OrderInv'
  <2>1. /\ Item(f)' \notin Emitted /\ Emitted' = Emitted \cup {Item(f)'}
        /\ InHand' = InHand \cup {Item(f)'}
    BY <1>1, <1>2, ObserveTakes
  <2>2. Arrivals' = Arrivals /\ Placed' = Placed /\ inlined' = inlined
    BY <1>2 DEF Observe, Arrivals, Placed
  <2>3. Item(f)' \notin Placed /\ Item(f)' \notin Range(Arrivals)
    BY <1>1, <2>1, PlacedIs DEF OrderInv
  <2> QED
    BY <1>1, <2>1, <2>2, <2>3 DEF OrderInv, FiberOrder
<1>3. ASSUME NEW f \in Fibers,
             Admit(f) \/ InlineReturn(f) \/ MakeRoom(f) \/ EvictNothing(f) \/ CountEviction(f)
      PROVE  OrderInv'
  <2>1. PICK where : Goto(f, where) /\ (where \notin {"idle", "inline"} <=> Holding(f))
    BY <1>3 DEF Admit, InlineReturn, MakeRoom, EvictNothing, CountEviction, Holding
  <2>2. UNCHANGED <<queue, delivered, inlined, emitted>>
    BY <1>3 DEF Admit, InlineReturn, MakeRoom, EvictNothing, CountEviction
  <2> QED
    BY <1>1, <2>1, <2>2, GotoHand, OrderStays
<1>4. ASSUME NEW f \in Fibers, Refuse(f) PROVE OrderInv'
  <2>1. Goto(f, "idle") /\ UNCHANGED <<queue, delivered, inlined, emitted>>
    BY <1>4 DEF Refuse
  <2>2. Holding(f)
    BY <1>4 DEF Refuse, LastAttempt, Holding
  <2> QED
    BY <1>1, <2>1, <2>2, GotoHand, OrderStays
<1>5. ASSUME NEW f \in Fibers, AdmitInline(f) PROVE OrderInv'
  <2>1. /\ Goto(f, "inline") /\ UNCHANGED <<queue, delivered, emitted>> /\ Holding(f)
        /\ inlined' = inlined \cup {Item(f)}
    BY <1>5 DEF AdmitInline, Holding
  <2>2. Emitted' = Emitted /\ Item(f) \in InHand /\ InHand' = InHand \ {Item(f)}
    BY <1>1, <2>1, GotoHand
  <2>3. Arrivals' = Arrivals /\ Placed' = Placed \cup {Item(f)}
    BY <2>1 DEF Arrivals, Placed
  <2> QED
    BY <1>1, <2>1, <2>2, <2>3, InHandIsEmitted DEF OrderInv, FiberOrder
<1>6. ASSUME NEW f \in Fibers, Send(f) PROVE OrderInv'
  <2>1. /\ Goto(f, "idle") /\ UNCHANGED <<delivered, inlined, emitted>> /\ Holding(f)
        /\ queue' = Append(queue, Item(f)) /\ pc[f] # "idle"
    BY <1>6 DEF Send, Holding
  <2>2. Emitted' = Emitted /\ Item(f) \in InHand /\ InHand' = InHand \ {Item(f)}
    BY <1>1, <2>1, GotoHand
  <2>3. /\ Item(f) \in Event /\ queue \in Seq(Event) /\ delivered \in Seq(Event)
        /\ Arrivals \in Seq(Event)
    BY <1>1, <2>1, ItemType, PlacedIs DEF TypeOK
  <2>4. Arrivals' = Append(Arrivals, Item(f))
    BY <2>1, <2>3, AppendBehind DEF Arrivals
  <2>5. Range(Arrivals') = Range(Arrivals) \cup {Item(f)} /\ Placed' = Placed \cup {Item(f)}
    BY <2>1, <2>3, <2>4, RangeAppend DEF Placed
  <2>6. ASSUME NEW i \in DOMAIN Arrivals, Arrivals[i][1] = f PROVE Arrivals[i][2] < emitted[f]
    <3>1. Arrivals[i] \in Range(Arrivals) /\ Arrivals[i] \in Event
      BY <2>3 DEF Range
    <3>2. Arrivals[i] \in Emitted /\ Arrivals[i] # Item(f)
      BY <1>1, <2>2, <3>1, PlacedIs DEF OrderInv
    <3>3. Arrivals[i] = <<f, Arrivals[i][2]>> /\ Arrivals[i][2] \in Int
      BY <2>6, <3>1, BufferAssumption DEF Event
    <3>4. Arrivals[i][2] <= emitted[f] /\ Arrivals[i][2] # emitted[f] /\ emitted[f] \in Int
      BY <1>1, <2>6, <3>2, <3>3, BufferAssumption DEF Emitted, Item, TypeOK
    <3> QED
      BY <3>3, <3>4
  <2>7. InOrder(Arrivals')
    <3>1. /\ DOMAIN Arrivals = 1..Len(Arrivals) /\ Len(Arrivals) \in Nat
          /\ DOMAIN Arrivals' = 1..(Len(Arrivals) + 1)
          /\ \A i \in DOMAIN Arrivals : Arrivals'[i] = Arrivals[i]
          /\ Arrivals'[Len(Arrivals) + 1] = <<f, emitted[f]>>
      BY <2>3, <2>4 DEF Item
    <3>2. ASSUME NEW i \in DOMAIN Arrivals', NEW j \in DOMAIN Arrivals', i < j,
                 Arrivals'[i][1] = Arrivals'[j][1]
          PROVE  Arrivals'[i][2] < Arrivals'[j][2]
      <4>1. i \in DOMAIN Arrivals
        BY <3>1, <3>2
      <4>2. CASE j \in DOMAIN Arrivals
        BY <3>1, <3>2, <4>1, <4>2 DEF OrderInv, FiberOrder
      <4>3. CASE j = Len(Arrivals) + 1
        BY <2>6, <3>1, <3>2, <4>1, <4>3
      <4> QED
        BY <3>1, <4>2, <4>3
    <3> QED
      BY <3>2 DEF InOrder
  <2>8. FiberOrder'
    <3>1. Item(f) \notin inlined
      BY <2>2 DEF OrderInv, Placed
    <3>2. Range(Arrivals') \cap (inlined' \cup InHand') = {}
      BY <2>1, <2>2, <2>5, <3>1 DEF OrderInv, FiberOrder
    <3> QED
      BY <2>7, <3>2 DEF FiberOrder, InOrder
  <2>9. Placed' \subseteq Emitted' /\ InHand' \cap Placed' = {}
    BY <1>1, <2>2, <2>5, InHandIsEmitted DEF OrderInv
  <2> QED
    BY <1>1, <2>8, <2>9 DEF OrderInv
<1>7. ASSUME NEW f \in Fibers, Evict(f) PROVE OrderInv'
  <2>1. /\ Goto(f, "counting") /\ UNCHANGED <<delivered, inlined, emitted>> /\ Holding(f)
        /\ queue # <<>> /\ queue' = Tail(queue)
    BY <1>7 DEF Evict, Holding
  <2>2. Emitted' = Emitted /\ InHand' = InHand
    BY <1>1, <2>1, GotoHand
  <2>3. queue \in Seq(Event) /\ delivered \in Seq(Event) /\ Len(queue) \in Nat \ {0}
    BY <1>1, <2>1 DEF TypeOK
  <2>4. Range(queue') \subseteq Range(queue)
    BY <2>1, <2>3, RangeTail
  <2>5. Range(Arrivals') \subseteq Range(Arrivals) /\ Placed' \subseteq Placed
    <3>1. Range(Arrivals') = Range(delivered) \cup Range(queue')
      <4>1. Arrivals' = delivered \o Tail(queue) /\ Tail(queue) \in Seq(Event)
        BY <2>1, <2>3, TailType DEF Arrivals
      <4> QED
        BY <2>1, <2>3, <4>1, RangeBehind, ZenonT(40)
    <3> QED
      BY <1>1, <2>1, <2>4, <3>1, PlacedIs DEF Placed
  <2>6. /\ DOMAIN Arrivals' = 1..(Len(delivered) + Len(queue) - 1)
        /\ DOMAIN Arrivals = 1..(Len(delivered) + Len(queue))
        /\ \A i \in DOMAIN Arrivals' :
              Arrivals'[i] = IF i <= Len(delivered) THEN Arrivals[i] ELSE Arrivals[i + 1]
        /\ Len(delivered) \in Nat
    BY <2>1, <2>3, SkipMiddle, Behind DEF Arrivals
  <2>7. ASSUME NEW i \in DOMAIN Arrivals', NEW j \in DOMAIN Arrivals', i < j,
               Arrivals'[i][1] = Arrivals'[j][1]
        PROVE  Arrivals'[i][2] < Arrivals'[j][2]
    <3> DEFINE was(k) == IF k <= Len(delivered) THEN k ELSE k + 1
    <3>1. /\ was(i) \in DOMAIN Arrivals /\ was(j) \in DOMAIN Arrivals /\ was(i) < was(j)
          /\ Arrivals'[i] = Arrivals[was(i)] /\ Arrivals'[j] = Arrivals[was(j)]
      BY <2>3, <2>6, <2>7
    <3> QED
      BY <2>7, <3>1 DEF OrderInv, FiberOrder
  <2> QED
    BY <1>1, <2>1, <2>2, <2>5, <2>7 DEF OrderInv, FiberOrder
<1>8. ASSUME WorkerReceive PROVE OrderInv'
  <2>1. /\ queue # <<>> /\ queue' = Tail(queue) /\ delivered' = Append(delivered, Head(queue))
        /\ UNCHANGED <<inlined, emitted, pc>>
    BY <1>8 DEF WorkerReceive
  <2>2. Arrivals' = Arrivals /\ Placed' = Placed
    BY <1>1, <2>1, ReceiveKeepsPlaces DEF Placed
  <2>3. Emitted' = Emitted /\ InHand' = InHand
    BY <2>1 DEF Emitted, InHand, Item
  <2> QED
    BY <1>1, <2>1, <2>2, <2>3 DEF OrderInv, FiberOrder
<1>9. ASSUME UNCHANGED <<queue, delivered, inlined, emitted, pc>> PROVE OrderInv'
  <2>1. Emitted' = Emitted /\ InHand' = InHand
    BY <1>9 DEF Emitted, InHand, Item
  <2> QED
    BY <1>1, <1>9, <2>1, OrderStays
<1>10. ASSUME NEW o \in Owners, FlushLock(o) \/ FlushStep(o) \/ FlushExpire(o) PROVE OrderInv'
  BY <1>9, <1>10 DEF FlushLock, FlushStep, FlushStop, FlushAgain, FlushDrained, FlushExpire
<1>11. ASSUME WorkerReturn \/ WorkerExit \/ UNCHANGED vars PROVE OrderInv'
  BY <1>9, <1>11 DEF WorkerReturn, WorkerExit, vars
<1> QED
  BY <1>2, <1>3, <1>4, <1>5, <1>6, <1>7, <1>8, <1>10, <1>11
  DEF Next, FiberStep, Offer, WorkerStep, Terminated

\* So it is in order always.
LEMMA OrderAlways == Spec => []OrderInv
  BY OrderInit, OrderStep, PTL DEF Spec

\* What the worker delivers keeps each fiber's own order and repeats nothing, through
\* evictions, refusals and shutdown, for every number of fibers, capacity and policy.
THEOREM DeliversInOrder == Spec => []FiberOrder
<1>1. OrderInv => FiberOrder
  BY DEF OrderInv
<1> QED
  BY <1>1, OrderAlways, PTL

-----------------------------------------------------------------------------
(* What a fiber delivers itself, after the stop.                             *)

\* It comes after all that the fiber ever queued, because nothing is queued any more.
InlineInv == /\ NoSendOnClosed
             /\ inlined # {} => stopped
             /\ \A e \in Range(queue) \cup Range(delivered), d \in inlined :
                   e[1] = d[1] => e[2] < d[2]

\* Nothing is delivered inline in the beginning.
LEMMA InlineInit == Init => InlineInv
  BY DEF Init, NoSendOnClosed, InlineInv

\* A step that queues and delivers nothing new keeps it so.
LEMMA InlineStays ==
    ASSUME InlineInv, NoSendOnClosed', stopped' = stopped \/ stopped', inlined' = inlined,
           Range(queue)' \cup Range(delivered)' \subseteq Range(queue) \cup Range(delivered)
    PROVE  InlineInv'
  BY DEF InlineInv

\* Every step keeps it so.
LEMMA InlineStep == OrderInv /\ InlineInv /\ [Next]_vars => InlineInv'
<1> SUFFICES ASSUME OrderInv, InlineInv, [Next]_vars PROVE InlineInv'
  OBVIOUS
<1>1. TypeOK /\ NoSendOnClosed
  BY DEF OrderInv, InlineInv
<1>2. NoSendOnClosed'
  BY <1>1, LockStep
<1>3. queue \in Seq(Event) /\ delivered \in Seq(Event)
  BY <1>1 DEF TypeOK
<1>4. ASSUME UNCHANGED <<queue, delivered, inlined>>, stopped' = stopped \/ stopped' PROVE InlineInv'
  BY <1>2, <1>4, InlineStays
<1>5. ASSUME NEW f \in Fibers,
             \/ Observe(f) \/ Admit(f) \/ InlineReturn(f)
             \/ MakeRoom(f) \/ EvictNothing(f) \/ CountEviction(f) \/ Refuse(f)
      PROVE  InlineInv'
  BY <1>4, <1>5 DEF Observe, Admit, InlineReturn, MakeRoom, EvictNothing, CountEviction, Refuse
<1>6. ASSUME NEW f \in Fibers, AdmitInline(f) PROVE InlineInv'
  <2>1. /\ stopped /\ UNCHANGED <<stopped, queue, delivered>> /\ Item(f) \in InHand
        /\ inlined' = inlined \cup {Item(f)}
    BY <1>6 DEF AdmitInline, InHand
  <2>2. ASSUME NEW e \in Range(queue) \cup Range(delivered), e[1] = f PROVE e[2] < emitted[f]
    <3>1. e \in Emitted /\ e # Item(f) /\ e \in Event
      BY <2>1 DEF OrderInv, Placed, Emitted
    <3>2. e = <<f, e[2]>> /\ e[2] \in Int
      BY <2>2, <3>1, BufferAssumption DEF Event
    <3>3. e[2] <= emitted[f] /\ e[2] # emitted[f] /\ emitted[f] \in Int
      BY <1>1, <2>2, <3>1, <3>2, BufferAssumption DEF Emitted, Item, TypeOK
    <3> QED
      BY <3>2, <3>3
  <2>3. \A d \in inlined' : d \in inlined \/ d = <<f, emitted[f]>>
    BY <2>1 DEF Item
  <2> QED
    BY <1>2, <2>1, <2>2, <2>3 DEF InlineInv
<1>7. ASSUME NEW f \in Fibers, Send(f) PROVE InlineInv'
  <2>1. ~stopped /\ inlined = {}
    BY <1>1, <1>7 DEF NoSendOnClosed, Send, Sending, InlineInv
  <2> QED
    BY <1>2, <1>7, <2>1 DEF Send, InlineInv
<1>8. ASSUME NEW f \in Fibers, Evict(f) PROVE InlineInv'
  <2>1. Range(queue') \subseteq Range(queue) /\ UNCHANGED <<stopped, delivered, inlined>>
    BY <1>3, <1>8, RangeTail DEF Evict
  <2> QED
    BY <1>2, <2>1, InlineStays
<1>9. CASE WorkerReceive
  <2>1. Range(queue') \cup Range(delivered') = Range(queue) \cup Range(delivered)
    BY <1>1, <1>9, ReceiveKeepsPlaces DEF WorkerReceive
  <2>2. UNCHANGED <<stopped, inlined>>
    BY <1>9 DEF WorkerReceive
  <2> QED
    BY <1>2, <2>1, <2>2, InlineStays
<1>10. ASSUME NEW o \in Owners, FlushLock(o) \/ FlushStep(o) \/ FlushExpire(o) PROVE InlineInv'
  BY <1>4, <1>10 DEF FlushLock, FlushStep, FlushStop, FlushAgain, FlushDrained, FlushExpire
<1>11. ASSUME WorkerReturn \/ WorkerExit \/ UNCHANGED vars PROVE InlineInv'
  BY <1>4, <1>11 DEF WorkerReturn, WorkerExit, vars
<1> QED
  BY <1>5, <1>6, <1>7, <1>8, <1>9, <1>10, <1>11
  DEF Next, FiberStep, Offer, WorkerStep, Terminated

-----------------------------------------------------------------------------
(* What is lost, and when.                                                   *)

\* A step that neither evicts nor refuses.
Harmless == \/ \E f \in Fibers : \/ Observe(f) \/ Admit(f) \/ AdmitInline(f) \/ InlineReturn(f)
                                 \/ Send(f) \/ MakeRoom(f) \/ EvictNothing(f) \/ CountEviction(f)
            \/ WorkerStep
            \/ \E o \in Owners : FlushLock(o) \/ FlushStep(o) \/ FlushExpire(o)
            \/ UNCHANGED vars

\* Every step is harmless, an eviction or a refusal.
LEMMA NextIs ==
    ASSUME [Next]_vars
    PROVE  Harmless \/ (\E f \in Fibers : Evict(f)) \/ (\E f \in Fibers : Refuse(f))
  BY DEF Next, FiberStep, Offer, Terminated, Harmless

\* An event that changes hands is not lost by that.
LEMMA HarmlessLosesNothing == OrderInv /\ Harmless => Missing' = Missing
<1> SUFFICES ASSUME OrderInv, Harmless PROVE Missing' = Missing
  OBVIOUS
<1> USE DEF Missing
<1>1. TypeOK /\ InHand \cap Placed = {} /\ Placed \subseteq Emitted
  BY DEF OrderInv
<1>2. ASSUME NEW f \in Fibers, Observe(f) PROVE Missing' = Missing
  <2>1. UNCHANGED <<queue, delivered, inlined>>
    BY <1>2 DEF Observe
  <2> QED
    BY <1>1, <1>2, <2>1, ObserveTakes DEF Placed
<1>3. ASSUME NEW f \in Fibers,
             Admit(f) \/ InlineReturn(f) \/ MakeRoom(f) \/ EvictNothing(f) \/ CountEviction(f)
      PROVE  Missing' = Missing
  <2>1. PICK where : Goto(f, where) /\ (where \notin {"idle", "inline"} <=> Holding(f))
    BY <1>3 DEF Admit, InlineReturn, MakeRoom, EvictNothing, CountEviction, Holding
  <2>2. UNCHANGED <<queue, delivered, inlined, emitted>>
    BY <1>3 DEF Admit, InlineReturn, MakeRoom, EvictNothing, CountEviction
  <2> QED
    BY <1>1, <2>1, <2>2, GotoHand
<1>4. ASSUME NEW f \in Fibers, AdmitInline(f) PROVE Missing' = Missing
  <2>1. /\ Goto(f, "inline") /\ UNCHANGED <<queue, delivered, emitted>> /\ Holding(f)
        /\ inlined' = inlined \cup {Item(f)}
    BY <1>4 DEF AdmitInline, Holding
  <2> QED
    BY <1>1, <2>1, GotoHand
<1>5. ASSUME NEW f \in Fibers, Send(f) PROVE Missing' = Missing
  <2>1. /\ Goto(f, "idle") /\ UNCHANGED <<delivered, inlined, emitted>> /\ Holding(f)
        /\ queue' = Append(queue, Item(f))
    BY <1>5 DEF Send, Holding
  <2>2. Range(queue') = Range(queue) \cup {Item(f)}
    BY <1>1, <2>1, ItemType, RangeAppend DEF Holding, TypeOK
  <2> QED
    BY <1>1, <2>1, <2>2, GotoHand
<1>6. ASSUME UNCHANGED <<emitted, pc, inlined>>,
             Range(queue') \cup Range(delivered') = Range(queue) \cup Range(delivered)
      PROVE  Missing' = Missing
  <2>1. Emitted' = Emitted /\ InHand' = InHand
    BY <1>6 DEF Emitted, InHand, Item
  <2> QED
    BY <1>6, <2>1
<1>7. ASSUME WorkerStep PROVE Missing' = Missing
  <2>1. CASE WorkerReceive
    BY <1>1, <1>6, <2>1, ReceiveKeepsPlaces DEF WorkerReceive
  <2>2. CASE WorkerReturn \/ WorkerExit
    BY <1>6, <2>2 DEF WorkerReturn, WorkerExit
  <2> QED
    BY <1>7, <2>1, <2>2 DEF WorkerStep
<1>8. ASSUME NEW o \in Owners, FlushLock(o) \/ FlushStep(o) \/ FlushExpire(o) PROVE Missing' = Missing
  BY <1>6, <1>8 DEF FlushLock, FlushStep, FlushStop, FlushAgain, FlushDrained, FlushExpire
<1>9. ASSUME UNCHANGED vars PROVE Missing' = Missing
  BY <1>6, <1>9 DEF vars
<1> QED
  BY <1>2, <1>3, <1>4, <1>5, <1>7, <1>8, <1>9 DEF Harmless

\* An eviction loses the event at the head of the queue, which was not lost before.
LEMMA EvictLoses ==
    ASSUME OrderInv, NEW f \in Fibers, Evict(f)
    PROVE  Missing' = Missing \cup {Head(queue)} /\ Head(queue) \notin Missing
<1>1. /\ Goto(f, "counting") /\ UNCHANGED <<delivered, inlined, emitted>> /\ Holding(f)
      /\ queue # <<>> /\ queue' = Tail(queue)
  BY DEF Evict, Holding
<1>2. Emitted' = Emitted /\ InHand' = InHand
  BY <1>1, GotoHand DEF OrderInv
<1>3. Range(queue) = Range(queue') \cup {Head(queue)}
  BY <1>1, RangeTail DEF OrderInv, TypeOK
<1>4. Head(queue) \in Emitted
  BY <1>3 DEF OrderInv, Placed
<1> QED
  BY <1>1, <1>2, <1>3, <1>4, HeadIsAlone DEF Missing

\* A refusal loses the event in the fiber's hand, which was not lost before.
LEMMA RefuseLoses ==
    ASSUME OrderInv, NEW f \in Fibers, Refuse(f)
    PROVE  Missing' = Missing \cup {Item(f)} /\ Item(f) \notin Missing
<1>1. /\ Goto(f, "idle") /\ UNCHANGED <<queue, delivered, inlined, emitted>> /\ Holding(f)
  BY DEF Refuse, LastAttempt, Holding
<1>2. Emitted' = Emitted /\ Item(f) \in InHand /\ InHand' = InHand \ {Item(f)}
  BY <1>1, GotoHand DEF OrderInv
<1>3. Item(f) \in Emitted /\ Item(f) \notin Placed
  BY <1>2, InHandIsEmitted DEF OrderInv
<1> QED
  BY <1>1, <1>2, <1>3 DEF Missing, Placed

-----------------------------------------------------------------------------
(* Drops is an honest account.                                               *)

Counting == {f \in Fibers : pc[f] = "counting"}

LossInv == OrderInv /\ DropsAccountForLosses

\* Finitely many events can be lost and finitely many evictions be uncounted.
LEMMA LossesAreFinite == IsFiniteSet(Missing) /\ IsFiniteSet(Counting)
<1>1. IsFiniteSet(1..MaxEvents)
  BY BufferAssumption, FS_Interval
<1>2. IsFiniteSet(Event)
  BY <1>1, BufferAssumption, FS_Product DEF Event
<1>3. Missing \subseteq Event /\ Counting \subseteq Fibers
  BY DEF Missing, Emitted, Counting
<1> QED
  BY <1>2, <1>3, BufferAssumption, FS_Subset

\* In the beginning nothing is lost and nothing counted.
LEMMA LossInit == Init => LossInv
<1> SUFFICES ASSUME Init PROVE LossInv
  OBVIOUS
<1>1. OrderInv
  BY OrderInit
<1>2. Emitted = {} /\ Counting = {} /\ drops = 0
  BY DEF Init, Emitted, Event, Counting
<1>3. Missing = {}
  BY <1>2 DEF Missing
<1> QED
  BY <1>1, <1>2, <1>3, FS_EmptySet DEF LossInv, DropsAccountForLosses, Counting

\* Every step keeps the account of losses honest.
LEMMA LossStep == LossInv /\ [Next]_vars => LossInv'
<1> SUFFICES ASSUME LossInv, [Next]_vars PROVE LossInv'
  OBVIOUS
<1>1. OrderInv /\ OrderInv' /\ TypeOK
  BY OrderStep DEF LossInv, OrderInv
<1>2. /\ Cardinality(Missing) = drops + Cardinality(Counting)
      /\ Cardinality(Missing) \in Nat /\ Cardinality(Counting) \in Nat /\ drops \in Nat
      /\ IsFiniteSet(Missing) /\ IsFiniteSet(Counting)
  BY <1>1, LossesAreFinite, FS_CardinalityType DEF LossInv, DropsAccountForLosses, Counting, TypeOK
<1> SUFFICES Cardinality(Missing') = drops' + Cardinality(Counting')
  BY <1>1 DEF LossInv, DropsAccountForLosses, Counting
<1>3. ASSUME NEW f \in Fibers, Evict(f) PROVE Cardinality(Missing') = drops' + Cardinality(Counting')
  <2>1. Counting' = Counting \cup {f} /\ f \notin Counting /\ drops' = drops
    BY <1>1, <1>3 DEF Evict, Goto, Counting, TypeOK
  <2>2. Cardinality(Counting') = Cardinality(Counting) + 1
    BY <1>2, <2>1, FS_AddElement
  <2>3. Cardinality(Missing') = Cardinality(Missing) + 1
    BY <1>1, <1>2, <1>3, EvictLoses, FS_AddElement
  <2> QED
    BY <1>2, <2>1, <2>2, <2>3
<1>4. ASSUME NEW f \in Fibers, Refuse(f) PROVE Cardinality(Missing') = drops' + Cardinality(Counting')
  <2>1. Counting' = Counting /\ drops' = drops + 1
    BY <1>1, <1>4 DEF Refuse, LastAttempt, Goto, Counting, TypeOK
  <2>2. Cardinality(Missing') = Cardinality(Missing) + 1
    BY <1>1, <1>2, <1>4, RefuseLoses, FS_AddElement
  <2> QED
    BY <1>2, <2>1, <2>2
<1>5. ASSUME NEW f \in Fibers, CountEviction(f)
      PROVE  Cardinality(Missing') = drops' + Cardinality(Counting')
  <2>1. Counting' = Counting \ {f} /\ f \in Counting /\ drops' = drops + 1
    BY <1>1, <1>5 DEF CountEviction, Goto, Counting, TypeOK
  <2>2. Cardinality(Counting') = Cardinality(Counting) - 1
    BY <1>2, <2>1, FS_RemoveElement
  <2>3. Missing' = Missing
    BY <1>1, <1>5, HarmlessLosesNothing DEF Harmless
  <2> QED
    BY <1>2, <2>1, <2>2, <2>3
<1>6. ASSUME Harmless, \A f \in Fibers : ~CountEviction(f)
      PROVE  Cardinality(Missing') = drops' + Cardinality(Counting')
  <2>1. Missing' = Missing
    BY <1>1, <1>6, HarmlessLosesNothing
  <2>2. Counting' = Counting /\ drops' = drops
    <3>1. ASSUME NEW f \in Fibers,
                 \/ Observe(f) \/ Admit(f) \/ AdmitInline(f) \/ InlineReturn(f)
                 \/ Send(f) \/ MakeRoom(f) \/ EvictNothing(f)
          PROVE  Counting' = Counting /\ drops' = drops
      BY <1>1, <3>1 DEF Observe, Admit, AdmitInline, InlineReturn, Send, MakeRoom, EvictNothing,
                        Goto, Counting, TypeOK
    <3>2. ASSUME WorkerStep PROVE UNCHANGED <<pc, drops>>
      BY <3>2 DEF WorkerStep, WorkerReceive, WorkerReturn, WorkerExit
    <3>3. ASSUME NEW o \in Owners, FlushLock(o) \/ FlushStep(o) \/ FlushExpire(o)
          PROVE  UNCHANGED <<pc, drops>>
      BY <3>3 DEF FlushLock, FlushStep, FlushStop, FlushAgain, FlushDrained, FlushExpire
    <3>4. ASSUME UNCHANGED <<pc, drops>> PROVE Counting' = Counting /\ drops' = drops
      BY <3>4 DEF Counting
    <3> QED
      BY <1>6, <3>1, <3>2, <3>3, <3>4 DEF Harmless, vars
  <2> QED
    BY <1>2, <2>1, <2>2
<1> QED
  BY <1>3, <1>4, <1>5, <1>6, NextIs

\* Drops is the number of events that were emitted and are nowhere any more, short
\* only of the evictions still to be counted, for every number of fibers, owners,
\* capacity and policy.
THEOREM DropsIsHonest == Spec => []DropsAccountForLosses
<1>1. LossInv => DropsAccountForLosses
  BY DEF LossInv
<1> QED
  BY <1>1, LossInit, LossStep, PTL DEF Spec

\* Once Flush has stopped the buffer nothing is lost any more: neither an eviction nor
\* a refusal is possible, and the account stands still.
THEOREM NothingLostAfterStop == Spec => StopEndsLoss
<1>1. OrderInv /\ NoSendOnClosed /\ [Next]_vars
        => [stopped => Missing' = Missing /\ drops' = drops]_vars
  <2> SUFFICES ASSUME OrderInv, NoSendOnClosed, [Next]_vars, stopped
               PROVE  Missing' = Missing /\ drops' = drops
    OBVIOUS
  <2>1. \A f \in Fibers : pc[f] \notin Sending
    BY DEF NoSendOnClosed
  <2>2. \A f \in Fibers : ~Evict(f) /\ ~Refuse(f) /\ ~CountEviction(f)
    BY <2>1 DEF Evict, Refuse, LastAttempt, CountEviction, Sending
  <2>3. Harmless
    BY <2>2, NextIs
  <2>4. drops' = drops
    BY <2>2, <2>3
    DEF Harmless, Observe, Admit, AdmitInline, InlineReturn, Send, MakeRoom, EvictNothing,
        WorkerStep, WorkerReceive, WorkerReturn, WorkerExit, FlushLock, FlushStep, FlushStop,
        FlushAgain, FlushDrained, FlushExpire, vars
  <2> QED
    BY <2>3, <2>4, HarmlessLosesNothing
<1> QED
  BY <1>1, OrderAlways, NeverSendsOnClosed, PTL DEF Spec, StopEndsLoss

-----------------------------------------------------------------------------
(* Whoever is refused a second time was overtaken.                           *)

\* Only DropOldest makes room.  A fiber that has made room leaves a queue that is not
\* full, so when it is full again the event at its end is another fiber's.
RivalInv ==
    /\ \A f \in Fibers : pc[f] \in {"evicting", "counting", "retrying"} => overflow = "DropOldest"
    /\ \A f \in Fibers : pc[f] \in {"counting", "retrying"} /\ Len(queue) = Capacity
                           => queue[Capacity][1] # f

\* In the beginning nobody makes room.
LEMMA RivalInit == Init => RivalInv
  BY DEF Init, RivalInv

\* Every step keeps the end of a queue that filled up again another fiber's.
LEMMA RivalStep == TypeOK /\ RivalInv /\ [Next]_vars => RivalInv'
<1> SUFFICES ASSUME TypeOK, RivalInv, [Next]_vars PROVE RivalInv'
  OBVIOUS
<1>1. pc \in [Fibers -> {"idle", "entering", "inline"} \cup Sending] /\ Capacity \in Nat \ {0}
  BY BufferAssumption DEF TypeOK
<1>2. ASSUME NEW f \in Fibers, NEW where \in {"idle", "entering", "inline", "offering"},
             Goto(f, where), UNCHANGED <<overflow, queue>>
      PROVE  RivalInv'
  BY <1>1, <1>2 DEF Goto, RivalInv
<1>3. ASSUME NEW f \in Fibers, Observe(f) \/ Admit(f) \/ AdmitInline(f) \/ InlineReturn(f) \/ Refuse(f)
      PROVE  RivalInv'
  BY <1>2, <1>3 DEF Observe, Admit, AdmitInline, InlineReturn, Refuse
<1>4. ASSUME NEW f \in Fibers, Send(f) PROVE RivalInv'
  <2>1. /\ queue \in Seq(Event) /\ Item(f) \in Event /\ queue' = Append(queue, Item(f))
        /\ pc' = [pc EXCEPT ![f] = "idle"] /\ overflow' = overflow
    BY <1>4, ItemType DEF Send, Goto, TypeOK
  <2>2. Len(queue') = Len(queue) + 1 /\ queue'[Len(queue) + 1] = <<f, emitted[f]>>
    BY <2>1 DEF Item
  <2>3. ASSUME NEW g \in Fibers, pc'[g] \in {"counting", "retrying"}, Len(queue') = Capacity
        PROVE  queue'[Capacity][1] # g
    BY <1>1, <2>1, <2>2, <2>3
  <2> QED
    BY <1>1, <2>1, <2>3 DEF RivalInv
<1>5. ASSUME NEW f \in Fibers, MakeRoom(f) PROVE RivalInv'
  BY <1>1, <1>5 DEF MakeRoom, Goto, RivalInv
<1>6. ASSUME NEW f \in Fibers, Evict(f) PROVE RivalInv'
  <2>1. Len(queue') < Capacity
    BY <1>1, <1>6, TailType DEF Evict, TypeOK
  <2> QED
    BY <1>1, <1>6, <2>1 DEF Evict, Goto, RivalInv
<1>7. ASSUME NEW f \in Fibers, EvictNothing(f) PROVE RivalInv'
  <2>1. Len(queue') # Capacity
    BY <1>1, <1>7 DEF EvictNothing
  <2> QED
    BY <1>1, <1>7, <2>1 DEF EvictNothing, Goto, RivalInv
<1>8. ASSUME NEW f \in Fibers, CountEviction(f) PROVE RivalInv'
  BY <1>1, <1>8 DEF CountEviction, Goto, RivalInv
<1>9. ASSUME WorkerReceive PROVE RivalInv'
  <2>1. Len(queue') # Capacity
    BY <1>1, <1>9, TailType DEF WorkerReceive, TypeOK
  <2> QED
    BY <1>9, <2>1 DEF WorkerReceive, RivalInv
<1>10. ASSUME UNCHANGED <<overflow, queue, pc>> PROVE RivalInv'
  BY <1>10 DEF RivalInv
<1>11. ASSUME NEW o \in Owners, FlushLock(o) \/ FlushStep(o) \/ FlushExpire(o) PROVE RivalInv'
  BY <1>10, <1>11 DEF FlushLock, FlushStep, FlushStop, FlushAgain, FlushDrained, FlushExpire
<1>12. ASSUME WorkerReturn \/ WorkerExit \/ UNCHANGED vars PROVE RivalInv'
  BY <1>10, <1>12 DEF WorkerReturn, WorkerExit, vars
<1> QED
  BY <1>3, <1>4, <1>5, <1>6, <1>7, <1>8, <1>9, <1>11, <1>12
  DEF Next, FiberStep, Offer, WorkerStep, Terminated

\* So it is another fiber's always.
LEMMA RivalAlways == Spec => []RivalInv
  BY RivalInit, RivalStep, TypeCorrect, PTL DEF Spec

\* DropOldest discards the newest event of a fiber only when another fiber's event has
\* taken the room it made, however many fibers emit and however large the queue is.
THEOREM RefusedOnlyToRivals == Spec => RefusalNeedsRival
<1>1. OrderInv /\ RivalInv /\ [Next]_vars
        => [\A f \in Fibers : pc[f] = "retrying" /\ Item(f) \in Missing'
              => /\ Len(queue) = Capacity
                 /\ queue[Capacity][1] # f]_vars
  <2> SUFFICES ASSUME OrderInv, RivalInv, [Next]_vars,
                      NEW f \in Fibers, pc[f] = "retrying", Item(f) \in Missing'
               PROVE  Len(queue) = Capacity /\ queue[Capacity][1] # f
    OBVIOUS
  <2>1. Item(f) \in InHand /\ Item(f) \notin Missing
    BY DEF InHand, Missing
  <2>2. ASSUME NEW g \in Fibers, Evict(g) PROVE FALSE
    BY <2>1, <2>2, EvictLoses, HeadIsAlone DEF Evict
  <2>3. PICK g \in Fibers : Refuse(g)
    BY <2>1, <2>2, NextIs, HarmlessLosesNothing
  <2>4. g = f
    BY <2>1, <2>3, RefuseLoses, ItemIsOwn
  <2>5. Len(queue) = Capacity
    BY <2>3, BufferAssumption DEF Refuse, Full, OrderInv, TypeOK
  <2> QED
    BY <2>5 DEF RivalInv
<1> QED
  BY <1>1, OrderAlways, RivalAlways, PTL DEF Spec, RefusalNeedsRival

-----------------------------------------------------------------------------
(* A Flush that waited and returned nil has left nothing behind.             *)

\* done is closed only on a closed and empty channel, which stays empty because nobody
\* sends into it any more.
DrainInv == /\ NoSendOnClosed
            /\ worker = "exited" => stopped /\ queue = <<>>
            /\ (\E o \in Owners : opc[o] = "drained") => worker = "exited"

\* Every step keeps an exited worker's queue empty, and a drained Flush behind its exit.
LEMMA DrainStep == TypeOK /\ DrainInv /\ NoSendOnClosed' /\ [Next]_vars => DrainInv'
<1> SUFFICES ASSUME TypeOK, DrainInv, NoSendOnClosed', [Next]_vars PROVE DrainInv'
  OBVIOUS
<1> USE DEF DrainInv
<1>1. ASSUME NEW f \in Fibers,
             \/ Observe(f) \/ Admit(f) \/ AdmitInline(f) \/ InlineReturn(f)
             \/ MakeRoom(f) \/ EvictNothing(f) \/ CountEviction(f) \/ Refuse(f)
      PROVE  DrainInv'
  BY <1>1 DEF Observe, Admit, AdmitInline, InlineReturn, MakeRoom, EvictNothing, CountEviction, Refuse
<1>2. ASSUME NEW f \in Fibers, Send(f) \/ Evict(f) PROVE DrainInv'
  <2>1. ~stopped /\ UNCHANGED <<stopped, worker, opc>>
    BY <1>2 DEF Send, Evict, NoSendOnClosed, Sending
  <2> QED
    BY <2>1
<1>3. ASSUME WorkerStep PROVE DrainInv'
  <2>1. worker # "exited" /\ opc' = opc
    BY <1>3 DEF WorkerStep, WorkerReceive, WorkerReturn, WorkerExit
  <2>2. worker' = "exited" => stopped' /\ queue' = <<>>
    BY <1>3 DEF WorkerStep, WorkerReceive, WorkerReturn, WorkerExit
  <2>3. \A o \in Owners : opc'[o] # "drained"
    BY <2>1
  <2> QED
    BY <2>2, <2>3
<1>4. ASSUME NEW o \in Owners, FlushLock(o) \/ FlushAgain(o) \/ FlushExpire(o) \/ FlushStop(o)
      PROVE  DrainInv'
  BY <1>4 DEF TypeOK, FlushLock, FlushAgain, FlushExpire, FlushStop, FlushGoto
<1>5. ASSUME NEW o \in Owners, FlushDrained(o) PROVE DrainInv'
  BY <1>5 DEF FlushDrained
<1>6. ASSUME UNCHANGED vars PROVE DrainInv'
  BY <1>6 DEF vars
<1> QED
  BY <1>1, <1>2, <1>3, <1>4, <1>5, <1>6 DEF Next, FiberStep, Offer, FlushStep, Terminated

\* When a Flush that waited has returned nil, the worker is gone, the queue is empty and
\* no fiber is about to fill it, for every number of owners that call Flush.
THEOREM DrainedIsDelivered == Spec => []DrainedMeansDelivered
<1>1. Init => DrainInv
  BY DEF Init, DrainInv, NoSendOnClosed
<1>2. DrainInv => DrainedMeansDelivered
  BY DEF DrainInv, DrainedMeansDelivered, NoSendOnClosed
<1> QED
  BY <1>1, <1>2, DrainStep, TypeCorrect, NeverSendsOnClosed, PTL DEF Spec

-----------------------------------------------------------------------------
(* The buffer implements the delivery line.                                  *)

\* What the line knows of is what was placed or lost: nothing in a fiber's hands.
LEMMA KnownIs == Line!Known = Placed \cup Missing
  BY DEF Line!Known, Line!Range, Range, Placed

\* The buffer begins as an empty line.
LEMMA LineInit == Init => Line!Init
<1> SUFFICES ASSUME Init PROVE Line!Init
  OBVIOUS
<1>1. Emitted = {}
  BY DEF Init, Emitted, Event
<1> QED
  BY <1>1 DEF Init, Line!Init, Missing

\* Every step of the buffer is one of the line, or none.
LEMMA LineStep ==
    OrderInv /\ NoSendOnClosed /\ RivalInv /\ [Next]_vars => [Line!Next]_(Line!vars)
<1> SUFFICES ASSUME OrderInv, NoSendOnClosed, RivalInv, [Next]_vars
             PROVE  Line!Next \/ UNCHANGED Line!vars
  BY DEF Line!vars
<1>1. TypeOK
  BY DEF OrderInv
<1>2. ASSUME NEW f \in Fibers, Holding(f)
      PROVE  Item(f) \in Event /\ Item(f) \notin Line!Known
  <2>1. Item(f) \in InHand
    BY <1>2 DEF InHand, Holding
  <2> QED
    BY <1>1, <1>2, <2>1, ItemType, KnownIs DEF OrderInv, Missing, Holding
<1>3. ASSUME NEW f \in Fibers, AdmitInline(f) PROVE Line!Next
  <2>1. Missing' = Missing
    BY <1>3, HarmlessLosesNothing DEF Harmless
  <2>2. Line!HandThrough(Item(f))
    BY <1>2, <1>3, <2>1 DEF AdmitInline, Holding, Line!HandThrough
  <2> QED
    BY <1>2, <1>3, <2>2 DEF AdmitInline, Holding, Line!Next
<1>4. ASSUME NEW f \in Fibers, Send(f) PROVE Line!Next
  <2>1. Missing' = Missing /\ ~stopped /\ Holding(f)
    BY <1>4, HarmlessLosesNothing DEF Harmless, Send, NoSendOnClosed, Sending, Holding
  <2>2. Len(queue) < Capacity
    BY <1>1, <1>4, BufferAssumption DEF Send, Full, TypeOK
  <2>3. Line!Accept(Item(f))
    BY <1>2, <1>4, <2>1, <2>2 DEF Send, Line!Accept
  <2> QED
    BY <1>2, <2>1, <2>3 DEF Line!Next
<1>5. ASSUME NEW f \in Fibers, Evict(f) PROVE Line!Next
  <2>1. Missing' = Missing \cup {Head(queue)} /\ ~stopped /\ overflow = "DropOldest"
    BY <1>5, EvictLoses DEF Evict, NoSendOnClosed, Sending, RivalInv
  <2> QED
    BY <1>5, <2>1 DEF Evict, Line!LoseOldest, Line!Next
<1>6. ASSUME NEW f \in Fibers, Refuse(f) PROVE Line!Next
  <2>1. Missing' = Missing \cup {Item(f)} /\ ~stopped /\ Holding(f)
    BY <1>6, RefuseLoses DEF Refuse, LastAttempt, NoSendOnClosed, Sending, Holding
  <2>2. Line!LoseArriving(Item(f))
    BY <1>2, <1>6, <2>1 DEF Refuse, Line!LoseArriving
  <2> QED
    BY <1>2, <2>1, <2>2 DEF Line!Next
<1>7. ASSUME WorkerReceive PROVE Line!Next
  <2>1. Missing' = Missing
    BY <1>7, HarmlessLosesNothing DEF Harmless, WorkerStep
  <2> QED
    BY <1>7, <2>1 DEF WorkerReceive, Line!Deliver, Line!Next
<1>8. ASSUME NEW o \in Owners, FlushStop(o) PROVE Line!Next
  <2>1. Missing' = Missing
    BY <1>8, HarmlessLosesNothing DEF Harmless, FlushStep
  <2> QED
    BY <1>8, <2>1 DEF FlushStop, Line!Close, Line!Next
<1>9. ASSUME NEW f \in Fibers,
             \/ Observe(f) \/ Admit(f) \/ InlineReturn(f)
             \/ MakeRoom(f) \/ EvictNothing(f) \/ CountEviction(f)
      PROVE  UNCHANGED Line!vars
  <2>1. Missing' = Missing
    BY <1>9, HarmlessLosesNothing DEF Harmless
  <2> QED
    BY <1>9, <2>1
    DEF Observe, Admit, InlineReturn, MakeRoom, EvictNothing, CountEviction, Line!vars
<1>10. ASSUME NEW o \in Owners, FlushLock(o) \/ FlushAgain(o) \/ FlushDrained(o) \/ FlushExpire(o)
       PROVE  UNCHANGED Line!vars
  <2>1. Missing' = Missing
    BY <1>10, HarmlessLosesNothing DEF Harmless, FlushStep
  <2> QED
    BY <1>10, <2>1 DEF FlushLock, FlushAgain, FlushDrained, FlushExpire, Line!vars
<1>11. ASSUME WorkerReturn \/ WorkerExit \/ UNCHANGED vars PROVE UNCHANGED Line!vars
  <2>1. Missing' = Missing
    BY <1>11, HarmlessLosesNothing DEF Harmless, WorkerStep
  <2> QED
    BY <1>11, <2>1 DEF WorkerReturn, WorkerExit, Line!vars, vars
<1> QED
  BY <1>3, <1>4, <1>5, <1>6, <1>7, <1>8, <1>9, <1>10, <1>11
  DEF Next, FiberStep, Offer, WorkerStep, FlushStep, Terminated

\* Every step of the buffer is one of the abstract line or none at all: no locks, no
\* goroutines, first in first out, losses only as the policy allows, nothing accepted
\* once closed.  That the line is served for ever is liveness, left to the model checker.
THEOREM BufferIsLine == Spec => ImplementsDelivery
  BY LineInit, LineStep, OrderAlways, NeverSendsOnClosed, RivalAlways, PTL
  DEF Spec, ImplementsDelivery, Line!Safety
=============================================================================
