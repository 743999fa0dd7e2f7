---------------------------- MODULE SeriesProofs ----------------------------
(* Theorems about Series, for every number of samplers, size of the ring and *)
(* course of the process's counters.  What the ring itself does was proved   *)
(* of Recent, and is taken from there.                                       *)
EXTENDS Series, FiniteSetTheorems, TLAPS

Of == INSTANCE RecentProofs WITH Thing <- Reading, wrapped <- full

\* The process's counters keep within what the clock allows.
Kept(r) == /\ r \in Reading
           /\ r.Counters["AllocBytes"] <= r.Time
           /\ r.CPU.idle <= r.CPU.total /\ r.CPU.idle <= r.Time /\ r.CPU.gc <= r.Time
           /\ r.CPU.total <= 2 * r.Time

\* One reading was taken no later than another.
UpTo(r, q) == /\ r.Time <= q.Time
              /\ r.Counters["AllocBytes"] <= q.Counters["AllocBytes"]
              /\ r.CPU.gc <= q.CPU.gc
              /\ r.CPU.total - r.CPU.idle <= q.CPU.total - q.CPU.idle

Past(r) == Kept(r) /\ UpTo(r, now)

\* Nothing in the ring or in a sampler's hand is later than the process.
PastInv == /\ Kept(now)
           /\ inHand \in [Samplers -> Reading \cup {None}]
           /\ \A s \in Samplers : inHand[s] # None => Past(inHand[s])
           /\ \A i \in DOMAIN Readings : Past(Readings[i])

IInv == Of!IInv /\ PastInv

-----------------------------------------------------------------------------
(* The ring.                                                                 *)

\* The ring is one of those the theorems about Recent are about.
LEMMA RingAssumption == Of!RecentAssumption
  BY SeriesAssumption DEF Of!RecentAssumption

\* What a reader gets are the ring's events.
LEMMA SameReadings == Readings = Of!Events
  BY DEF Readings, Ring!Events, Of!Events, Ring!Slice, Of!Slice

\* The ring as it was proved about: readings in it, at most Capacity of them.
LEMMA ReadingsType ==
    ASSUME Of!IInv
    PROVE  Readings \in Seq(Reading) /\ Len(Readings) \in Nat /\ DOMAIN Readings = 1..Len(Readings)
<1>1. Of!Shape
  BY RingAssumption, Of!EventsShape
<1> QED
  BY <1>1, SameReadings DEF Of!Shape

\* A window slides by d: one longer if there was room, one further if there was not.
SlidBy(d, s, e) == IF d = 0 THEN Append(s, e) ELSE Append(Tail(s), e)

\* A sampler that adds its reading slides the window by it.
LEMMA AddSlides ==
    ASSUME Of!IInv, NEW s \in Samplers, Add(s), inHand[s] \in Reading
    PROVE  /\ Of!IInv'
           /\ \E d \in {0, 1} : (d = 1 => Readings # <<>>) /\ Readings' = SlidBy(d, Readings, inHand[s])
<1>1. Of!Observe(inHand[s])
  BY DEF Add, Ring!Observe, Of!Observe
<1>2. Of!Next
  BY <1>1 DEF Of!Next
<1>3. Of!IInv'
  BY <1>2, RingAssumption, Of!StepInv
<1>4. Of!Last!Arrive(inHand[s])
  BY <1>1, <1>3, RingAssumption, Of!ArriveStep
<1>5. Of!Events' = Of!Last!Slid(Of!Events, inHand[s])
  BY <1>4 DEF Of!Last!Arrive
<1>6. Readings' = Of!Events'
  BY DEF Readings, Ring!Events, Of!Events, Ring!Slice, Of!Slice
<1>7. CASE Len(Readings) < Capacity
  BY <1>3, <1>5, <1>6, <1>7, SameReadings DEF Of!Last!Slid, SlidBy
<1>8. CASE ~(Len(Readings) < Capacity)
  <2>1. Readings # <<>>
    BY <1>8, SeriesAssumption
  <2> QED
    BY <1>3, <1>5, <1>6, <1>8, <2>1, SameReadings DEF Of!Last!Slid, SlidBy
<1> QED
  BY <1>7, <1>8

\* Nothing else moves the ring.
LEMMA RingStays ==
    ASSUME Of!IInv, UNCHANGED <<slots, next, full, total>>
    PROVE  Of!IInv' /\ Readings' = Readings
<1>1. Of!IInv'
  BY RingAssumption, Of!StepInv DEF Of!vars
<1> QED
  BY <1>1 DEF Readings, Ring!Events, Ring!Slice

\* A sequence without its head is one place shorter.
LEMMA TailType ==
    ASSUME NEW S, NEW s \in Seq(S), s # <<>>
    PROVE  /\ Tail(s) \in Seq(S) /\ Len(s) \in Nat \ {0} /\ Len(Tail(s)) = Len(s) - 1
           /\ \A i \in 1..(Len(s) - 1) : Tail(s)[i] = s[i + 1]
  OBVIOUS

Slid(d, s, e, t) ==
    /\ Len(s) \in Nat /\ Len(t) = Len(s) + 1 - d /\ Len(t) \in Nat \ {0}
    /\ DOMAIN t = 1..Len(t) /\ DOMAIN s = 1..Len(s)
    /\ t[Len(t)] = e
    /\ \A i \in 1..(Len(t) - 1) : i + d \in 1..Len(s) /\ t[i] = s[i + d]

\* Sliding a window by an element keeps the others in their order.
LEMMA Slides ==
    ASSUME NEW S, NEW s \in Seq(S), NEW e \in S, NEW d \in {0, 1}, d = 1 => s # <<>>
    PROVE  SlidBy(d, s, e) \in Seq(S) /\ Slid(d, s, e, SlidBy(d, s, e))
<1>0. PICK t : t = SlidBy(d, s, e)
  OBVIOUS
<1> SUFFICES t \in Seq(S) /\ Slid(d, s, e, t)
  BY <1>0
<1> USE DEF Slid
<1>1. CASE d = 0
  BY <1>0, <1>1 DEF SlidBy
<1>2. CASE d = 1
  <2>1. PICK u \in Seq(S) : u = Tail(s)
    BY <1>2, TailType
  <2>2. Len(s) \in Nat \ {0} /\ Len(u) = Len(s) - 1 /\ \A i \in 1..(Len(s) - 1) : u[i] = s[i + 1]
    BY <1>2, <2>1, TailType
  <2>3. t = Append(u, e)
    BY <1>0, <1>2, <2>1 DEF SlidBy
  <2>4. t \in Seq(S) /\ Len(t) = Len(u) + 1 /\ t[Len(u) + 1] = e /\ \A i \in 1..Len(u) : t[i] = u[i]
    BY <2>3
  <2> QED
    BY <1>2, <2>2, <2>4
<1> QED
  BY <1>1, <1>2

-----------------------------------------------------------------------------
(* Nothing read is later than the process.                                   *)

\* The fields of a reading are numbers within the bounds.
LEMMA ReadingFields ==
    ASSUME NEW r \in Reading
    PROVE  /\ r.Time \in 0..Limit /\ r.Counters["AllocBytes"] \in 0..Limit
           /\ r.CPU.total \in 0..(2 * Limit) /\ r.CPU.idle \in 0..Limit /\ r.CPU.gc \in 0..Limit
           /\ r.Threads = 1 /\ DOMAIN r.Counters = {"AllocBytes"}
           /\ Limit \in Nat
  BY SeriesAssumption DEF Reading

CPUs == [total : 0..(2 * Limit), idle : 0..Limit, gc : 0..Limit]
Counts == [{"AllocBytes"} -> 0..Limit]

\* Parts that move on are still the parts of a reading.
LEMMA CountMoves ==
    ASSUME NEW bytes \in Counts, NEW x \in 0..Limit
    PROVE  /\ [bytes EXCEPT !["AllocBytes"] = x] \in Counts
           /\ [bytes EXCEPT !["AllocBytes"] = x]["AllocBytes"] = x
  BY DEF Counts

\* Whatever the process does in a unit of time, its counters move on and keep
\* within what the clock allows.
LEMMA TickMoves ==
    ASSUME Kept(now), Tick PROVE Kept(now') /\ UpTo(now, now')
<1> USE SeriesAssumption
<1> DEFINE t == now.Time
           bytes == now.Counters["AllocBytes"]
<1>1. /\ t \in Nat /\ t < Limit /\ bytes \in Nat /\ bytes <= t
      /\ now \in Reading
  BY ReadingFields DEF Kept, Tick
<1>2. PICK cpu \in CPUs : cpu = now.CPU
  BY <1>1 DEF Reading, CPUs
<1>3. PICK counters \in Counts : counters = now.Counters
  BY <1>1 DEF Reading, Counts
<1>4. /\ cpu.total \in Nat /\ cpu.idle \in Nat /\ cpu.gc \in Nat
      /\ cpu.idle <= cpu.total /\ cpu.idle <= t /\ cpu.gc <= t /\ cpu.total <= 2 * t
      /\ bytes = counters["AllocBytes"]
  BY <1>1, <1>2, <1>3, ReadingFields DEF Kept
<1>5. ASSUME NEW later \in Reading, NEW used, NEW counted,
             later.Time = t + 1, later.CPU = used, later.Counters = counted,
             \/ counted["AllocBytes"] = bytes
                /\ used.total = cpu.total + 1 /\ used.idle = cpu.idle + 1 /\ used.gc = cpu.gc
             \/ counted["AllocBytes"] = bytes + 1
                /\ used.total = cpu.total + 2 /\ used.idle = cpu.idle /\ used.gc = cpu.gc
             \/ counted["AllocBytes"] = bytes
                /\ used.total = cpu.total + 1 /\ used.idle = cpu.idle /\ used.gc = cpu.gc + 1
      PROVE  Kept(later) /\ UpTo(now, later)
  BY <1>1, <1>2, <1>4, <1>5 DEF Kept, UpTo
<1>6. /\ t + 1 \in 0..Limit /\ bytes + 1 \in 0..Limit
      /\ cpu.total + 1 \in 0..(2 * Limit) /\ cpu.total + 2 \in 0..(2 * Limit)
      /\ cpu.idle \in 0..Limit /\ cpu.idle + 1 \in 0..Limit /\ cpu.gc + 1 \in 0..Limit
  BY <1>1, <1>4
<1>7. PICK later \in {Idle, Busily, Collecting} : now' = [later EXCEPT !.Time = @ + 1]
  BY DEF Tick
<1>8. CASE later = Idle
  <2>1. PICK used : used = [cpu EXCEPT !.total = cpu.total + 1, !.idle = cpu.idle + 1]
    OBVIOUS
  <2>2. used \in CPUs /\ used.total = cpu.total + 1 /\ used.idle = cpu.idle + 1 /\ used.gc = cpu.gc
    BY <1>6, <2>1 DEF CPUs
  <2>3. now' = [now EXCEPT !.CPU = used, !.Time = t + 1]
    BY <1>1, <1>2, <1>7, <1>8, <2>1 DEF Idle, Reading
  <2>4. now' \in Reading /\ now'.CPU = used /\ now'.Counters = counters /\ now'.Time = t + 1
    BY <1>1, <1>3, <1>6, <2>2, <2>3 DEF Reading, CPUs, Counts
  <2> QED
    BY <1>4, <1>5, <2>2, <2>4
<1>9. CASE later = Busily
  <2>1. PICK used : used = [cpu EXCEPT !.total = cpu.total + 2]
    OBVIOUS
  <2>2. used \in CPUs /\ used.total = cpu.total + 2 /\ used.idle = cpu.idle /\ used.gc = cpu.gc
    BY <1>6, <2>1 DEF CPUs
  <2>3. PICK counted : counted = [counters EXCEPT !["AllocBytes"] = bytes + 1]
    OBVIOUS
  <2>4. counted \in Counts /\ counted["AllocBytes"] = bytes + 1
    BY <1>6, <2>3, CountMoves
  <2>5. now' = [now EXCEPT !.CPU = used, !.Counters = counted, !.Time = t + 1]
    BY <1>1, <1>2, <1>3, <1>7, <1>9, <2>1, <2>3 DEF Busily, Reading
  <2>6. now' \in Reading /\ now'.CPU = used /\ now'.Counters = counted /\ now'.Time = t + 1
    BY <1>1, <1>6, <2>2, <2>4, <2>5 DEF Reading, CPUs, Counts
  <2> QED
    BY <1>5, <2>2, <2>4, <2>6
<1>10. CASE later = Collecting
  <2>1. PICK used : used = [cpu EXCEPT !.total = cpu.total + 1, !.gc = cpu.gc + 1]
    OBVIOUS
  <2>2. used \in CPUs /\ used.total = cpu.total + 1 /\ used.idle = cpu.idle /\ used.gc = cpu.gc + 1
    BY <1>6, <2>1 DEF CPUs
  <2>3. now' = [now EXCEPT !.CPU = used, !.Time = t + 1]
    BY <1>1, <1>2, <1>7, <1>10, <2>1 DEF Collecting, Reading
  <2>4. now' \in Reading /\ now'.CPU = used /\ now'.Counters = counters /\ now'.Time = t + 1
    BY <1>1, <1>3, <1>6, <2>2, <2>3 DEF Reading, CPUs, Counts
  <2> QED
    BY <1>4, <1>5, <2>2, <2>4
<1> QED
  BY <1>7, <1>8, <1>9, <1>10

\* What is no later than something later is no later.
LEMMA UpToAlong ==
    ASSUME NEW p \in Reading, NEW q \in Reading, NEW r \in Reading, UpTo(p, q), UpTo(q, r)
    PROVE  UpTo(p, r)
<1>1. \A x \in Reading : /\ x.Time \in Int /\ x.Counters["AllocBytes"] \in Int
                         /\ x.CPU.total \in Int /\ x.CPU.idle \in Int /\ x.CPU.gc \in Int
  BY ReadingFields
<1> QED
  BY <1>1 DEF UpTo

\* In the beginning nothing has been read.
LEMMA InitHolds == Init => IInv
<1> SUFFICES ASSUME Init PROVE IInv
  OBVIOUS
<1>1. Of!IInv
  BY RingAssumption, Of!InitInv DEF Init, Ring!Init, Of!Init, Ring!Slots, Of!Slots
<1>2. Kept(now)
  BY SeriesAssumption DEF Init, Kept, Reading
<1>3. Readings = <<>>
  BY DEF Init, Ring!Init, Readings, Ring!Events, Ring!Slice
<1>4. PastInv
  BY <1>2, <1>3 DEF Init, PastInv
<1> QED
  BY <1>1, <1>4 DEF IInv

\* Every step keeps what was read in the past.
LEMMA StepKeeps == IInv /\ [Next]_vars => IInv'
<1> SUFFICES ASSUME IInv, [Next]_vars PROVE IInv'
  OBVIOUS
<1> USE DEF IInv
<1>1. Readings \in Seq(Reading) /\ Len(Readings) \in Nat /\ DOMAIN Readings = 1..Len(Readings)
  BY ReadingsType
<1>2. CASE Tick
  <2>1. Of!IInv' /\ Readings' = Readings /\ inHand' = inHand
    BY <1>2, RingStays DEF Tick
  <2>2. Kept(now') /\ UpTo(now, now')
    BY <1>2, TickMoves DEF PastInv
  <2>3. now \in Reading /\ now' \in Reading
    BY <2>2 DEF PastInv, Kept
  <2>4. ASSUME NEW r, Past(r) PROVE Kept(r) /\ UpTo(r, now')
    BY <2>2, <2>3, <2>4, UpToAlong DEF Past, Kept
  <2>5. PastInv'
    BY <2>1, <2>2, <2>4 DEF PastInv, Past
  <2> QED
    BY <2>1, <2>5
<1>3. ASSUME NEW s \in Samplers, Read(s) PROVE IInv'
  <2>1. Of!IInv' /\ Readings' = Readings /\ now' = now
    BY <1>3, RingStays DEF Read
  <2>2. Past(now)
    <3>1. now \in Reading
      BY DEF PastInv, Kept
    <3> QED
      BY <3>1, ReadingFields DEF PastInv, Past, UpTo
  <2>3. inHand' = [inHand EXCEPT ![s] = now]
    BY <1>3 DEF Read
  <2>4. PastInv'
    BY <2>1, <2>2, <2>3 DEF PastInv, Past, Kept
  <2> QED
    BY <2>1, <2>4
<1>4. ASSUME NEW s \in Samplers, Add(s) PROVE IInv'
  <2>1. inHand[s] \in Reading /\ Past(inHand[s])
    BY <1>4 DEF Add, PastInv
  <2>2. Of!IInv'
    BY <1>4, <2>1, AddSlides
  <2>3. PICK d \in {0, 1} : (d = 1 => Readings # <<>>) /\ Readings' = SlidBy(d, Readings, inHand[s])
    BY <1>4, <2>1, AddSlides
  <2>4. PICK new : new = Readings'
    OBVIOUS
  <2>5. \A i \in DOMAIN new : Past(new[i])
    <3>1. /\ Len(new) \in Nat \ {0} /\ DOMAIN new = 1..Len(new) /\ DOMAIN Readings = 1..Len(Readings)
          /\ new[Len(new)] = inHand[s]
          /\ \A i \in 1..(Len(new) - 1) : i + d \in 1..Len(Readings) /\ new[i] = Readings[i + d]
      <4>1. Slid(d, Readings, inHand[s], SlidBy(d, Readings, inHand[s]))
        BY <1>1, <2>1, <2>3, Slides
      <4>2. Slid(d, Readings, inHand[s], new)
        BY <2>3, <2>4, <4>1
      <4> QED
        BY <4>2 DEF Slid
    <3>2. \A n \in Nat \ {0} : \A i \in 1..n : i = n \/ i \in 1..(n - 1)
      OBVIOUS
    <3> QED
      BY <2>1, <3>1, <3>2 DEF PastInv
  <2>6. now' = now /\ inHand' = [inHand EXCEPT ![s] = None]
    BY <1>4 DEF Add
  <2>7. PastInv'
    BY <2>4, <2>5, <2>6 DEF PastInv, Past
  <2> QED
    BY <2>2, <2>7
<1>5. CASE UNCHANGED vars
  <2>1. Of!IInv' /\ Readings' = Readings /\ now' = now /\ inHand' = inHand
    BY <1>5, RingStays DEF vars
  <2> QED
    BY <2>1 DEF PastInv, Past
<1> QED
  BY <1>2, <1>3, <1>4, <1>5 DEF Next, Finished

-----------------------------------------------------------------------------
(* What a change reports.                                                    *)

\* The lesser of two numbers.
LEMMA Lesser ==
    ASSUME NEW a \in Int, NEW b \in Int
    PROVE  Min({a, b}) = IF a <= b THEN a ELSE b
  BY DEF Min

\* Of a number and itself the number is the greater.
LEMMA Greater == Max({1, 1}) = 1
  BY DEF Max

\* A difference floored at zero is never negative and never more than what is there.
LEMMA DeltaBound ==
    ASSUME NEW a \in 0..Limit, NEW b \in 0..Limit
    PROVE  delta(a, b) \in Nat /\ delta(a, b) <= b
<1> USE SeriesAssumption
<1>1. CASE b < a
  BY <1>1 DEF delta
<1>2. CASE ~(b < a)
  <2>1. b - a \in Nat /\ b - a < Width /\ b - a <= b
    BY <1>2
  <2>2. (b - a) % Width = b - a
    BY <2>1
  <2> QED
    BY <1>2, <2>1, <2>2 DEF delta
<1> QED
  BY <1>1, <1>2

\* The same of seconds, which do not wrap.
LEMMA SecondsBound ==
    ASSUME NEW a \in Nat, NEW b \in Nat
    PROVE  deltaSeconds(a, b) \in Nat /\ deltaSeconds(a, b) <= b
  BY DEF deltaSeconds

\* A share lies between nothing and everything.
LEMMA ShareBound ==
    ASSUME NEW n \in Nat, NEW d \in Int
    PROVE  0 <= ClampedRatio(n, d)[1] /\ ClampedRatio(n, d)[1] <= ClampedRatio(n, d)[2]
  BY Lesser DEF ClampedRatio

\* A change never reports more than the process did, and its shares and its rate are
\* possible ones, for every pair of readings the ring may hold, in either order.
THEOREM ChangesArePossible == Spec => []ChangeIsPossible
<1>1. IInv => ChangeIsPossible
  <2> SUFFICES ASSUME IInv, HasChange PROVE ChangeIsPossible
    BY DEF ChangeIsPossible
  <2>1. Len(Readings) \in Nat /\ DOMAIN Readings = 1..Len(Readings) /\ Len(Readings) >= 2
    BY ReadingsType DEF IInv, HasChange
  <2>2. PICK a, b : a = Readings[1] /\ b = Readings[Len(Readings)] /\ Past(a) /\ Past(b)
    BY <2>1 DEF IInv, PastInv
  <2>3. /\ a \in Reading /\ b \in Reading /\ now \in Reading
        /\ UpTo(a, now) /\ UpTo(b, now) /\ Kept(a) /\ Kept(b) /\ Kept(now)
    BY <2>2 DEF Past, Kept, IInv, PastInv
  <2>4. PICK change : change = Diff(a, b)
    OBVIOUS
  <2>5. /\ change.Duration = b.Time - a.Time
        /\ change.CPUSeconds = deltaSeconds(workSeconds(a), workSeconds(b))
        /\ change.GCCPUSeconds = deltaSeconds(a.CPU.gc, b.CPU.gc)
        /\ change.Threads = b.Threads
    BY <2>4 DEF Diff
  <2>6. change.Spent["AllocBytes"] = delta(a.Counters["AllocBytes"], b.Counters["AllocBytes"])
    BY <2>3, <2>4, ReadingFields DEF Diff
  <2>7. ASSUME NEW r \in Reading, Kept(r)
        PROVE  workSeconds(r) = r.CPU.total - r.CPU.idle /\ workSeconds(r) \in Nat
    BY <2>7, ReadingFields DEF Kept, workSeconds, deltaSeconds
  <2>8. change.CPUSeconds \in Nat /\ change.CPUSeconds <= workSeconds(now)
    <3>1. workSeconds(a) \in Nat /\ workSeconds(b) \in Nat /\ workSeconds(now) \in Nat
      BY <2>3, <2>7
    <3>2. workSeconds(b) <= workSeconds(now)
      BY <2>3, <2>7 DEF UpTo
    <3> QED
      BY <2>5, <3>1, <3>2, SecondsBound
  <2>9. change.GCCPUSeconds \in Nat /\ change.GCCPUSeconds <= now.CPU.gc
    <3>1. a.CPU.gc \in Nat /\ b.CPU.gc \in Nat /\ now.CPU.gc \in Nat /\ b.CPU.gc <= now.CPU.gc
      BY <2>3, ReadingFields DEF UpTo
    <3>2. /\ deltaSeconds(a.CPU.gc, b.CPU.gc) \in Nat
          /\ deltaSeconds(a.CPU.gc, b.CPU.gc) <= b.CPU.gc
      BY <3>1, SecondsBound
    <3> QED
      BY <2>5, <3>1, <3>2
  <2>10. change.Spent["AllocBytes"] \in Nat /\ change.Spent["AllocBytes"] <= now.Counters["AllocBytes"]
    <3>1. /\ a.Counters["AllocBytes"] \in 0..Limit /\ b.Counters["AllocBytes"] \in 0..Limit
          /\ now.Counters["AllocBytes"] \in 0..Limit
          /\ b.Counters["AllocBytes"] <= now.Counters["AllocBytes"]
      BY <2>3, ReadingFields DEF UpTo
    <3>2. /\ delta(a.Counters["AllocBytes"], b.Counters["AllocBytes"]) \in Nat
          /\ delta(a.Counters["AllocBytes"], b.Counters["AllocBytes"]) <= b.Counters["AllocBytes"]
      BY <3>1, DeltaBound
    <3> QED
      BY <2>6, <3>1, <3>2, SeriesAssumption
  <2>11. change.Duration \in Int /\ change.Threads = 1
    BY <2>3, <2>5, ReadingFields
  <2>12. 0 <= Busy(change)[1] /\ Busy(change)[1] <= Busy(change)[2]
    <3>1. Busy(change) = ClampedRatio(change.CPUSeconds, change.Duration * 1)
      BY <2>11, Greater DEF Busy
    <3> QED
      BY <2>8, <2>11, <3>1, ShareBound
  <2>13. 0 <= GCShare(change)[1] /\ GCShare(change)[1] <= GCShare(change)[2]
    BY <2>8, <2>9, ShareBound DEF GCShare
  <2>14. AllocationRate(change)[1] >= 0 /\ AllocationRate(change)[2] > 0
    BY <2>10, <2>11 DEF AllocationRate, Ratio
  <2>15. WholeChange = change
    BY <2>2, <2>4 DEF WholeChange
  <2> QED
    BY <2>8, <2>9, <2>10, <2>12, <2>13, <2>14, <2>15 DEF ChangeIsPossible
<1> QED
  BY <1>1, InitHolds, StepKeeps, PTL DEF Spec

-----------------------------------------------------------------------------
(* The order of the readings.                                                *)

\* Each reading in the ring was added by a sampler, each sampler's in the order it
\* took them, and none is later than what that sampler holds now.
Owned(who) ==
    /\ who \in Seq(Samplers) /\ Len(who) = Len(Readings)
    /\ \A i, j \in DOMAIN Readings :
         i < j /\ who[i] = who[j] => Readings[i].Time <= Readings[j].Time
    /\ \A i \in DOMAIN Readings :
         inHand[who[i]] # None => Readings[i].Time <= inHand[who[i]].Time

OrderInv == \E who \in Seq(Samplers) : Owned(who)

\* The reading added last is its sampler's latest.
LEMMA AddKeepsOrder ==
    ASSUME IInv, OrderInv, NEW s \in Samplers, Add(s) PROVE OrderInv'
<1>1. inHand[s] # None /\ inHand[s] \in Reading /\ inHand' = [inHand EXCEPT ![s] = None]
  BY DEF Add, IInv, PastInv
<1>2. PICK d \in {0, 1} : (d = 1 => Readings # <<>>) /\ Readings' = SlidBy(d, Readings, inHand[s])
  BY <1>1, AddSlides DEF IInv
<1>3. PICK who \in Seq(Samplers) : Owned(who)
  BY DEF OrderInv
<1>4. PICK old \in Seq(Reading) : old = Readings
  BY ReadingsType DEF IInv
<1>5. PICK new, by : new = SlidBy(d, old, inHand[s]) /\ by = SlidBy(d, who, s)
  OBVIOUS
<1>6. new = Readings'
  BY <1>2, <1>4, <1>5
<1>7. /\ new \in Seq(Reading) /\ Len(old) \in Nat /\ Len(new) = Len(old) + 1 - d /\ Len(new) \in Nat \ {0}
      /\ DOMAIN new = 1..Len(new) /\ DOMAIN old = 1..Len(old) /\ new[Len(new)] = inHand[s]
      /\ \A i \in 1..(Len(new) - 1) : i + d \in 1..Len(old) /\ new[i] = old[i + d]
  <2>1. new \in Seq(Reading) /\ Slid(d, old, inHand[s], new)
    BY <1>1, <1>2, <1>4, <1>5, Slides
  <2> QED
    BY <2>1 DEF Slid
<1>8. Len(who) = Len(old) /\ (d = 1 => who # <<>>)
  BY <1>2, <1>3, <1>4 DEF Owned
<1>9. /\ by \in Seq(Samplers) /\ Len(by) = Len(new)
      /\ by[Len(new)] = s
      /\ \A i \in 1..(Len(new) - 1) : by[i] = who[i + d]
  <2>1. /\ by \in Seq(Samplers) /\ Len(by) = Len(who) + 1 - d
        /\ by[Len(by)] = s
        /\ \A i \in 1..(Len(by) - 1) : by[i] = who[i + d]
    <3>1. by \in Seq(Samplers) /\ Slid(d, who, s, by)
      BY <1>5, <1>8, Slides
    <3> QED
      BY <3>1 DEF Slid
  <2> QED
    BY <1>7, <1>8, <2>1
<1>10. /\ \A i, j \in 1..Len(old) : i < j /\ who[i] = who[j] => old[i].Time <= old[j].Time
       /\ \A i \in 1..Len(old) : inHand[who[i]] # None => old[i].Time <= inHand[who[i]].Time
  BY <1>3, <1>4, <1>7 DEF Owned
<1>11. ASSUME NEW i \in 1..Len(new), NEW j \in 1..Len(new), i < j, by[i] = by[j]
       PROVE  new[i].Time <= new[j].Time
  <2>1. i \in 1..(Len(new) - 1) /\ i + d \in 1..Len(old)
    BY <1>7, <1>11
  <2>2. CASE j = Len(new)
    <3>1. who[i + d] = s /\ new[i] = old[i + d] /\ new[j] = inHand[s]
      BY <1>7, <1>9, <1>11, <2>1, <2>2
    <3> QED
      BY <1>1, <1>10, <2>1, <3>1
  <2>3. CASE j # Len(new)
    <3>1. j \in 1..(Len(new) - 1) /\ j + d \in 1..Len(old) /\ i + d < j + d
      BY <1>7, <1>11, <2>3
    <3>2. who[i + d] = who[j + d] /\ new[i] = old[i + d] /\ new[j] = old[j + d]
      BY <1>7, <1>9, <1>11, <2>1, <3>1
    <3> QED
      BY <1>10, <2>1, <3>1, <3>2
  <2> QED
    BY <2>2, <2>3
<1>12. ASSUME NEW i \in 1..Len(new), inHand'[by[i]] # None
       PROVE  new[i].Time <= inHand'[by[i]].Time
  <2>1. by[i] \in Samplers
    BY <1>7, <1>9
  <2>2. by[i] # s /\ inHand'[by[i]] = inHand[by[i]]
    BY <1>1, <1>12, <2>1 DEF IInv, PastInv
  <2>3. i \in 1..(Len(new) - 1) /\ i + d \in 1..Len(old)
    BY <1>7, <1>9, <2>2
  <2> QED
    BY <1>7, <1>9, <1>10, <1>12, <2>2, <2>3
<1>13. Owned(by)'
  BY <1>6, <1>7, <1>9, <1>11, <1>12 DEF Owned
<1> QED
  BY <1>9, <1>13 DEF OrderInv

\* Every step keeps the readings no further out of order than the samplers are many.
LEMMA StepKeepsOrder == IInv /\ OrderInv /\ [Next]_vars => OrderInv'
<1> SUFFICES ASSUME IInv, OrderInv, [Next]_vars PROVE OrderInv'
  OBVIOUS
<1>1. PICK who \in Seq(Samplers) : Owned(who)
  BY DEF OrderInv
<1>2. CASE Tick \/ UNCHANGED vars
  <2>1. Readings' = Readings /\ inHand' = inHand
    BY <1>2, RingStays DEF IInv, Tick, vars
  <2> QED
    BY <1>1, <2>1 DEF OrderInv, Owned
<1>3. ASSUME NEW s \in Samplers, Read(s) PROVE OrderInv'
  <2>1. Readings' = Readings /\ inHand' = [inHand EXCEPT ![s] = now]
    BY <1>3, RingStays DEF IInv, Read
  <2>2. \A i \in DOMAIN Readings : Readings[i].Time <= now.Time
    BY DEF IInv, PastInv, Past, UpTo
  <2>3. \A q \in Samplers : inHand'[q] = inHand[q] \/ inHand'[q] = now
    BY <2>1 DEF IInv, PastInv
  <2>4. \A i \in DOMAIN Readings : who[i] \in Samplers
    BY <1>1, ReadingsType DEF IInv, Owned
  <2>5. Owned(who)'
    BY <1>1, <2>1, <2>2, <2>3, <2>4 DEF Owned
  <2> QED
    BY <1>1, <2>5 DEF OrderInv
<1> QED
  BY <1>2, <1>3, AddKeepsOrder DEF Next, Finished

\* Of any more readings than there are samplers some two are in order, whatever the
\* race between reading the clock and taking the lock, at every turn of the ring.
THEOREM DisorderIsBounded == Spec => []OldestFirst
<1>1. Init => OrderInv
  <2> SUFFICES ASSUME Init PROVE OrderInv
    OBVIOUS
  <2>1. Readings = <<>>
    BY DEF Init, Ring!Init, Readings, Ring!Events, Ring!Slice
  <2>2. Owned(<<>>)
    BY <2>1 DEF Owned
  <2> QED
    BY <2>2 DEF Owned, OrderInv
<1>2. IInv /\ OrderInv => OldestFirst
  <2> SUFFICES ASSUME IInv, OrderInv, NEW run \in kSubset(Cardinality(Samplers) + 1, DOMAIN Readings)
               PROVE  \E i, j \in run : i < j /\ Readings[i].Time <= Readings[j].Time
    BY DEF OldestFirst
  <2>1. PICK who \in Seq(Samplers) : Owned(who)
    BY DEF OrderInv
  <2>2. run \subseteq DOMAIN Readings /\ Cardinality(run) = Cardinality(Samplers) + 1
    BY DEF kSubset
  <2>3. DOMAIN Readings = 1..Len(Readings) /\ Len(Readings) \in Nat /\ Len(who) = Len(Readings)
    BY <2>1, ReadingsType DEF IInv, Owned
  <2>4. IsFiniteSet(run)
    <3>1. IsFiniteSet(1..Len(Readings))
      BY <2>3, FS_Interval
    <3> QED
      BY <2>2, <2>3, <3>1, FS_Subset
  <2>5. IsFiniteSet(Samplers) /\ Cardinality(Samplers) < Cardinality(run)
    BY <2>2, SeriesAssumption, FS_CardinalityType
  <2> DEFINE owner == [i \in run |-> who[i]]
  <2>6. owner \in [run -> Samplers]
    BY <2>1, <2>2, <2>3
  <2>7. PICK i \in run, j \in run : i # j /\ owner[i] = owner[j]
    <3> HIDE DEF owner
    <3> QED
      BY <2>4, <2>5, <2>6, FS_PigeonHole
  <2>8. who[i] = who[j] /\ i \in Int /\ j \in Int
    BY <2>2, <2>3, <2>7
  <2>9. CASE i < j
    BY <2>1, <2>2, <2>8, <2>9 DEF Owned
  <2>10. CASE j < i
    BY <2>1, <2>2, <2>8, <2>10 DEF Owned
  <2> QED
    BY <2>7, <2>8, <2>9, <2>10
<1> QED
  BY <1>1, <1>2, InitHolds, StepKeeps, StepKeepsOrder, PTL DEF Spec
=============================================================================
