---------------------------- MODULE FibersProofs -----------------------------
(* Theorems about Fibers, for every number of fibers and every clock.        *)
EXTENDS Fibers, FiniteSetTheorems, WellFoundedInduction, TLAPS

Stages == {"forked", "starting", "running", "ending", "over"}

\* What the tracker holds goes with what it saw: a fiber seen has got past its start,
\* so no start is counted twice; and before it was installed it saw nothing.
IInv == /\ stage \in Seq(Stages)
        /\ starts \in Nat /\ ends \in Nat
        /\ seen \subseteq DOMAIN stage
        /\ \A f \in seen : stage[f] \in {"running", "ending", "over"}
        /\ ~installed => seen = {}
        /\ HoldsWhatRuns

-----------------------------------------------------------------------------
\* A fiber that moves on leaves the others where they are.
LEMMA MovesOn ==
    ASSUME NEW S, NEW s \in Seq(S), NEW i \in DOMAIN s, NEW v \in S
    PROVE  LET t == [s EXCEPT ![i] = v]
           IN  /\ t \in Seq(S) /\ DOMAIN t = DOMAIN s /\ t[i] = v
               /\ \A j \in DOMAIN s : j # i => t[j] = s[j]
  OBVIOUS

\* A fiber that is forked comes behind those forked before.
LEMMA ComesBehind ==
    ASSUME NEW S, NEW s \in Seq(S), NEW v \in S
    PROVE  /\ Append(s, v) \in Seq(S)
           /\ DOMAIN s \subseteq DOMAIN Append(s, v)
           /\ \A j \in DOMAIN s : Append(s, v)[j] = s[j]
  OBVIOUS

\* Finitely many fibers were forked, so the tracker saw and holds finitely many.
LEMMA FinitelyMany == ASSUME IInv PROVE IsFiniteSet(seen) /\ IsFiniteSet(DOMAIN live)
<1>1. DOMAIN stage = 1..Len(stage) /\ Len(stage) \in Nat
  BY DEF IInv
<1>2. IsFiniteSet(DOMAIN stage)
  BY <1>1, FS_Interval
<1>3. DOMAIN live \subseteq seen
  BY DEF IInv, HoldsWhatRuns
<1> QED
  BY <1>2, <1>3, FS_Subset DEF IInv

-----------------------------------------------------------------------------
\* In the beginning there are no fibers.
LEMMA InitHolds == Init => IInv
<1> SUFFICES ASSUME Init PROVE IInv
  OBVIOUS
<1> USE DEF Init
<1>1. DOMAIN live = {} /\ Cardinality(DOMAIN live) = 0 /\ Cardinality(seen) = 0
  BY FS_EmptySet
<1>2. HoldsWhatRuns
  BY <1>1 DEF HoldsWhatRuns, Count
<1> QED
  BY <1>2 DEF IInv

\* Time passing and the tracker being installed leave the fibers as they are, and so
\* does a step that changes nothing.
LEMMA StutterKeeps ==
    ASSUME IInv, Tick \/ Install \/ UNCHANGED vars PROVE IInv'
<1>1. UNCHANGED <<live, starts, ends, stage, seen>> /\ (installed => installed')
  BY DEF Tick, Install, vars, tracker
<1> QED
  BY <1>1 DEF IInv, HoldsWhatRuns, Count

\* A fiber is forked: one more that the tracker has not seen.
LEMMA ForkKeeps == ASSUME IInv, NEW p, Fork(p) PROVE IInv'
<1>1. stage' = Append(stage, "forked") /\ UNCHANGED <<live, starts, ends, seen, installed>>
  BY DEF Fork, tracker
<1>2. /\ stage' \in Seq(Stages) /\ seen' \subseteq DOMAIN stage'
      /\ \A f \in seen : stage'[f] = stage[f]
  BY <1>1, ComesBehind DEF IInv, Stages
<1>3. HoldsWhatRuns'
  BY <1>1, <1>2 DEF IInv, HoldsWhatRuns, Count
<1> QED
  BY <1>1, <1>2, <1>3 DEF IInv

\* A boundary is stamped and not yet observed: what is held stays held.
LEMMA StampKeeps ==
    ASSUME IInv, NEW f \in Forked, FiberStarted(f) \/ FiberCompleted(f) PROVE IInv'
<1>1. PICK from, to : /\ Stamp(f, from, to)
                      /\ \/ from = "forked" /\ to = "starting"
                         \/ from = "running" /\ to = "ending"
  BY DEF FiberStarted, FiberCompleted
<1>2. /\ stage[f] = from /\ stage' = [stage EXCEPT ![f] = to]
      /\ UNCHANGED <<live, starts, ends, seen, installed>>
  BY <1>1 DEF Stamp, tracker
<1>3. /\ stage' \in Seq(Stages) /\ DOMAIN stage' = DOMAIN stage /\ stage'[f] = to
      /\ \A g \in DOMAIN stage : g # f => stage'[g] = stage[g]
  BY <1>1, <1>2, MovesOn DEF IInv, Forked, Stages
<1>4. \A g \in seen : /\ stage'[g] \in {"running", "ending", "over"}
                      /\ stage'[g] \in {"running", "ending"} <=> stage[g] \in {"running", "ending"}
  BY <1>1, <1>2, <1>3 DEF IInv
<1>5. HoldsWhatRuns'
  BY <1>2, <1>4 DEF IInv, HoldsWhatRuns, Count
<1> QED
  BY <1>2, <1>3, <1>4, <1>5 DEF IInv

\* A start is observed: before the tracker was installed by nobody, afterwards by a
\* tracker that did not hold the fiber and does now.
LEMMA ObserveStartKeeps ==
    ASSUME IInv, NEW f \in Forked, ObserveStart(f) PROVE IInv'
<1>1. /\ stage[f] = "starting" /\ stage' = [stage EXCEPT ![f] = "running"]
      /\ installed' = installed
  BY DEF ObserveStart
<1>2. /\ stage' \in Seq(Stages) /\ DOMAIN stage' = DOMAIN stage /\ stage'[f] = "running"
      /\ \A g \in DOMAIN stage : g # f => stage'[g] = stage[g]
  BY <1>1, MovesOn DEF IInv, Forked, Stages
<1>3. f \notin seen /\ f \notin DOMAIN live
  BY <1>1 DEF IInv, HoldsWhatRuns
<1>4. \A g \in seen : stage'[g] = stage[g]
  BY <1>2, <1>3 DEF IInv
<1>5. CASE ~installed
  <2>1. UNCHANGED <<live, starts, ends, seen>>
    BY <1>5 DEF ObserveStart, tracker
  <2>2. HoldsWhatRuns'
    BY <1>4, <2>1 DEF IInv, HoldsWhatRuns, Count
  <2> QED
    BY <1>1, <1>2, <1>4, <2>1, <2>2 DEF IInv
<1>6. CASE installed
  <2>1. /\ DOMAIN live' = DOMAIN live \cup {f} /\ seen' = seen \cup {f}
        /\ starts' = starts + 1 /\ ends' = ends
    BY <1>6 DEF ObserveStart, begin, With
  <2>2. /\ Cardinality(DOMAIN live') = Cardinality(DOMAIN live) + 1
        /\ Cardinality(seen') = Cardinality(seen) + 1
    BY <1>3, <2>1, FinitelyMany, FS_AddElement
  <2>3. Cardinality(DOMAIN live) \in Nat /\ Cardinality(seen) \in Nat
    BY FinitelyMany, FS_CardinalityType
  <2>4. DOMAIN live' = {g \in seen' : stage'[g] \in {"running", "ending"}}
    BY <1>2, <1>4, <2>1 DEF IInv, HoldsWhatRuns
  <2>5. starts' - ends' = Count' /\ starts' = Cardinality(seen')
    BY <2>1, <2>2, <2>3 DEF IInv, HoldsWhatRuns, Count
  <2>6. \A g \in seen' : g \in DOMAIN stage' /\ stage'[g] \in {"running", "ending", "over"}
    BY <1>2, <1>4, <2>1 DEF IInv, Forked
  <2> QED
    BY <1>1, <1>2, <1>6, <2>1, <2>4, <2>5, <2>6 DEF IInv, HoldsWhatRuns
<1> QED
  BY <1>5, <1>6

\* An end is observed: a fiber that was held is forgotten; of one that was not, the
\* tracker never saw the start, and it changes nothing.
LEMMA ObserveEndKeeps ==
    ASSUME IInv, NEW f \in Forked, ObserveEnd(f) PROVE IInv'
<1>1. /\ stage[f] = "ending" /\ stage' = [stage EXCEPT ![f] = "over"]
      /\ seen' = seen /\ installed' = installed
  BY DEF ObserveEnd
<1>2. /\ stage' \in Seq(Stages) /\ DOMAIN stage' = DOMAIN stage /\ stage'[f] = "over"
      /\ \A g \in DOMAIN stage : g # f => stage'[g] = stage[g]
  BY <1>1, MovesOn DEF IInv, Forked, Stages
<1>3. \A g \in seen : g # f => stage'[g] = stage[g]
  BY <1>2 DEF IInv
<1>4. CASE installed /\ f \in DOMAIN live
  <2>1. DOMAIN live' = DOMAIN live \ {f} /\ ends' = ends + 1 /\ starts' = starts
    BY <1>4 DEF ObserveEnd, finish, Without
  <2>2. Cardinality(DOMAIN live') = Cardinality(DOMAIN live) - 1
    BY <1>4, <2>1, FinitelyMany, FS_RemoveElement
  <2>3. Cardinality(DOMAIN live) \in Nat
    BY FinitelyMany, FS_CardinalityType
  <2>4. DOMAIN live' = {g \in seen' : stage'[g] \in {"running", "ending"}}
    BY <1>1, <1>2, <1>3, <2>1 DEF IInv, HoldsWhatRuns
  <2>5. starts' - ends' = Count' /\ starts' = Cardinality(seen')
    BY <1>1, <2>1, <2>2, <2>3 DEF IInv, HoldsWhatRuns, Count
  <2> QED
    BY <1>1, <1>2, <1>3, <2>1, <2>4, <2>5 DEF IInv, HoldsWhatRuns
<1>5. CASE f \notin DOMAIN live
  <2>1. UNCHANGED <<live, starts, ends>>
    BY <1>5 DEF ObserveEnd, finish, tracker
  <2>2. f \notin seen
    BY <1>1, <1>5 DEF IInv, HoldsWhatRuns
  <2>3. HoldsWhatRuns'
    BY <1>1, <1>3, <2>1, <2>2 DEF IInv, HoldsWhatRuns, Count
  <2> QED
    BY <1>1, <1>2, <1>3, <2>1, <2>2, <2>3 DEF IInv
<1>6. f \in DOMAIN live => installed
  BY DEF IInv, HoldsWhatRuns
<1> QED
  BY <1>4, <1>5, <1>6

\* Every step keeps what the tracker holds.
LEMMA StepKeeps == IInv /\ [Next]_vars => IInv'
<1> SUFFICES ASSUME IInv, [Next]_vars PROVE IInv'
  OBVIOUS
<1>1. CASE Tick \/ Install \/ UNCHANGED vars
  BY <1>1, StutterKeeps
<1>2. CASE \E p \in Forked \cup {0} : Fork(p)
  BY <1>2, ForkKeeps
<1>3. CASE \E f \in Forked : FiberStarted(f) \/ FiberCompleted(f)
  BY <1>3, StampKeeps
<1>4. CASE \E f \in Forked : ObserveStart(f)
  BY <1>4, ObserveStartKeeps
<1>5. CASE \E f \in Forked : ObserveEnd(f)
  BY <1>5, ObserveEndKeeps
<1> QED
  BY <1>1, <1>2, <1>3, <1>4, <1>5 DEF Next, Done

\* The tracker holds exactly the fibers it saw start and has not seen complete, and the
\* gap between Starts and Ends is their number, however many fibers are forked, in
\* whatever shape, and whenever it is installed.
THEOREM HoldsExactly == Spec => []HoldsWhatRuns
<1>1. IInv => HoldsWhatRuns
  BY DEF IInv
<1> QED
  BY <1>1, InitHolds, StepKeeps, PTL DEF Spec

-----------------------------------------------------------------------------
(* The tree's roots.                                                         *)

\* Of the fibers held the one that has been running longest is a root, so a reader
\* finds it at the top of the tree: a fiber that hangs under another was forked and
\* started after it, and following the parents upwards ends.
OldestIsARoot ==
    /\ \A f \in DOMAIN live : IsChild(f) =>
         live[f].ParentID < f /\ live[live[f].ParentID].StartTime <= live[f].StartTime
    /\ DOMAIN live # {} =>
         \E r \in Roots : \A f \in DOMAIN live : live[r].StartTime <= live[f].StartTime

\* A held parent's start is remembered, though its own stamp is by then perhaps that of
\* its end; a fiber that has been stamped as starting and not yet been reported was
\* stamped after it, and whatever is forked still will be.
AgeInv == /\ now \in Nat
          /\ parent \in Seq(Nat) /\ stamped \in Seq(Nat)
          /\ Len(parent) = Len(stage) /\ Len(stamped) = Len(stage)
          /\ \A f \in DOMAIN stage :
               /\ stamped[f] <= now
               /\ parent[f] # 0 => /\ parent[f] < f /\ parent[f] \in DOMAIN stage
                                   /\ stage[parent[f]] \in {"running", "ending", "over"}
               /\ stage[f] = "starting" /\ parent[f] \in DOMAIN live
                    => live[parent[f]].StartTime <= stamped[f]
          /\ \A f \in DOMAIN live :
               /\ live[f].ParentID = parent[f]
               /\ live[f].StartTime \in Nat /\ live[f].StartTime <= now
               /\ parent[f] \in DOMAIN live
                    => live[parent[f]].StartTime <= live[f].StartTime

\* The histories are indexed by the fibers forked.
LEMMA Indexed ==
    ASSUME IInv, AgeInv
    PROVE  /\ DOMAIN stage = 1..Len(stage) /\ Len(stage) \in Nat
           /\ DOMAIN parent = DOMAIN stage /\ DOMAIN stamped = DOMAIN stage
           /\ DOMAIN live \subseteq seen /\ DOMAIN live \subseteq DOMAIN stage
  BY DEF IInv, AgeInv, HoldsWhatRuns

\* A fork is one more fiber, younger than its parent, with nobody under it.
LEMMA ForkAges == ASSUME IInv, AgeInv, NEW p \in Forked \cup {0}, Fork(p) PROVE AgeInv'
<1>1. /\ stage' = Append(stage, "forked") /\ parent' = Append(parent, p)
      /\ stamped' = Append(stamped, 0) /\ UNCHANGED <<live, now>>
      /\ p = 0 \/ (p \in DOMAIN stage /\ stage[p] = "running")
  BY DEF Fork, Forked, tracker
<1>2. /\ stage \in Seq(Stages) /\ parent \in Seq(Nat) /\ stamped \in Seq(Nat)
      /\ Len(parent) = Len(stage) /\ Len(stamped) = Len(stage) /\ now \in Nat
  BY DEF IInv, AgeInv
<1>3. PICK n \in Nat : n = Len(stage)
  BY <1>2
<1>4. /\ DOMAIN stage = 1..n /\ DOMAIN stage' = 1..(n + 1) /\ DOMAIN live \subseteq 1..n
      /\ Len(stage') = n + 1 /\ Len(parent') = n + 1 /\ Len(stamped') = n + 1
      /\ stage'[n + 1] = "forked" /\ parent'[n + 1] = p /\ stamped'[n + 1] = 0
      /\ \A f \in 1..n : stage'[f] = stage[f] /\ parent'[f] = parent[f] /\ stamped'[f] = stamped[f]
  BY <1>1, <1>2, <1>3, Indexed, SMTT(40)
<1>5. p \in 0..n
  BY <1>1, <1>4
<1>6. parent' \in Seq(Nat) /\ stamped' \in Seq(Nat)
  BY <1>1, <1>2, <1>5
<1>7. ASSUME NEW f \in 1..(n + 1)
      PROVE  /\ stamped'[f] <= now
             /\ parent'[f] # 0 => /\ parent'[f] < f /\ parent'[f] \in 1..(n + 1)
                                  /\ stage'[parent'[f]] \in {"running", "ending", "over"}
             /\ stage'[f] = "starting" /\ parent'[f] \in DOMAIN live
                  => live[parent'[f]].StartTime <= stamped'[f]
  <2>1. CASE f = n + 1
    <3>1. stamped'[f] = 0 /\ parent'[f] = p /\ stage'[f] = "forked"
      BY <1>4, <2>1
    <3>2. p # 0 => p \in 1..n /\ p < f /\ stage[p] = "running" /\ stage'[p] = "running"
      BY <1>1, <1>4, <1>5, <2>1
    <3>3. p # 0 => p \in 1..(n + 1)
      BY <1>3, <3>2
    <3>4. stamped'[f] <= now
      BY <1>2, <3>1
    <3>5. stage'[f] # "starting"
      BY <3>1
    <3>6. parent'[f] # 0 => /\ parent'[f] < f /\ parent'[f] \in 1..(n + 1)
                            /\ stage'[parent'[f]] \in {"running", "ending", "over"}
      BY <3>1, <3>2, <3>3
    <3> QED
      BY <3>4, <3>5, <3>6
  <2>2. CASE f \in 1..n
    <3>1. stage'[f] = stage[f] /\ parent'[f] = parent[f] /\ stamped'[f] = stamped[f] /\ f \in DOMAIN stage
      BY <1>4, <2>2
    <3>2. parent[f] \in DOMAIN stage => parent[f] \in 1..(n + 1) /\ stage'[parent[f]] = stage[parent[f]]
      BY <1>3, <1>4
    <3> QED
      BY <3>1, <3>2 DEF AgeInv
  <2> QED
    BY <2>1, <2>2
<1>8. ASSUME NEW f \in DOMAIN live
      PROVE  /\ live[f].ParentID = parent'[f]
             /\ live[f].StartTime \in Nat /\ live[f].StartTime <= now
             /\ parent'[f] \in DOMAIN live => live[parent'[f]].StartTime <= live[f].StartTime
  BY <1>4 DEF AgeInv
<1> QED
  BY <1>1, <1>2, <1>4, <1>6, <1>7, <1>8 DEF AgeInv

\* A boundary is stamped with the present, before which all that is held started.
LEMMA StampAges ==
    ASSUME IInv, AgeInv, NEW f \in Forked, FiberStarted(f) \/ FiberCompleted(f) PROVE AgeInv'
<1>1. PICK from, to : /\ Stamp(f, from, to)
                      /\ \/ from = "forked" /\ to = "starting"
                         \/ from = "running" /\ to = "ending"
  BY DEF FiberStarted, FiberCompleted
<1>2. /\ stage[f] = from /\ stage' = [stage EXCEPT ![f] = to]
      /\ stamped' = [stamped EXCEPT ![f] = now] /\ UNCHANGED <<live, parent, now>>
      /\ f \in DOMAIN stage
  BY <1>1 DEF Stamp, tracker, Forked
<1>3. /\ DOMAIN stage' = DOMAIN stage /\ stage'[f] = to /\ Len(stage') = Len(stage)
      /\ \A g \in DOMAIN stage : g # f => stage'[g] = stage[g]
  BY <1>2 DEF IInv
<1>4. /\ stamped' \in Seq(Nat) /\ Len(stamped') = Len(stamped) /\ stamped'[f] = now
      /\ \A g \in DOMAIN stage : g # f => stamped'[g] = stamped[g]
  BY <1>2, Indexed DEF AgeInv
<1>5. ASSUME NEW g \in DOMAIN stage
      PROVE  /\ stamped'[g] <= now
             /\ parent[g] # 0 => /\ parent[g] < g /\ parent[g] \in DOMAIN stage
                                 /\ stage'[parent[g]] \in {"running", "ending", "over"}
             /\ stage'[g] = "starting" /\ parent[g] \in DOMAIN live
                  => live[parent[g]].StartTime <= stamped'[g]
  <2>1. stamped'[g] <= now
    <3>1. now \in Nat /\ stamped[g] <= now
      BY DEF AgeInv
    <3>2. CASE g = f
      BY <1>4, <3>1, <3>2
    <3>3. CASE g # f
      BY <1>4, <3>1, <3>3
    <3> QED
      BY <3>2, <3>3
  <2>2. parent[g] # 0 => /\ parent[g] < g /\ parent[g] \in DOMAIN stage
                         /\ stage'[parent[g]] \in {"running", "ending", "over"}
    BY <1>1, <1>2, <1>3 DEF AgeInv
  <2>3. CASE g = f
    BY <1>4, <2>1, <2>2, <2>3 DEF AgeInv
  <2>4. CASE g # f
    BY <1>3, <1>4, <2>1, <2>2, <2>4 DEF AgeInv
  <2> QED
    BY <2>3, <2>4
<1>6. Len(parent) = Len(stage) /\ Len(stamped) = Len(stage) /\ now \in Nat /\ parent \in Seq(Nat)
  BY DEF AgeInv
<1>7. ASSUME NEW g \in DOMAIN live
      PROVE  /\ live[g].ParentID = parent[g]
             /\ live[g].StartTime \in Nat /\ live[g].StartTime <= now
             /\ parent[g] \in DOMAIN live => live[parent[g]].StartTime <= live[g].StartTime
  BY DEF AgeInv
<1> QED
  <2>1. DOMAIN stage' = DOMAIN stage /\ DOMAIN live' = DOMAIN live /\ live' = live /\ parent' = parent
        /\ now' = now
    BY <1>2, <1>3
  <2>2. Len(parent') = Len(stage') /\ Len(stamped') = Len(stage')
    BY <1>2, <1>3, <1>4, <1>6
  <2> QED
    BY <1>4, <1>5, <1>6, <1>7, <2>1, <2>2 DEF AgeInv

\* A start is observed: nothing held hangs under the fiber yet, and its parent, if that
\* is held, started no later.
LEMMA ObserveStartAges == ASSUME IInv, AgeInv, NEW f \in Forked, ObserveStart(f) PROVE AgeInv'
<1>1. /\ stage[f] = "starting" /\ stage' = [stage EXCEPT ![f] = "running"]
      /\ UNCHANGED <<parent, stamped, now>> /\ f \in DOMAIN stage
  BY DEF ObserveStart, Forked
<1>2. /\ DOMAIN stage' = DOMAIN stage /\ stage'[f] = "running" /\ Len(stage') = Len(stage)
      /\ \A g \in DOMAIN stage : g # f => stage'[g] = stage[g]
  BY <1>1 DEF IInv
<1>3. f \notin DOMAIN live /\ f \in Nat \ {0} /\ stamped[f] \in Nat /\ stamped[f] <= now
  <2>1. f \notin DOMAIN live
    BY <1>1 DEF IInv, HoldsWhatRuns
  <2>2. f \in Nat \ {0} /\ stamped[f] \in Nat /\ stamped[f] <= now
    BY <1>1, Indexed DEF AgeInv
  <2> QED
    BY <2>1, <2>2
<1>4. \A g \in DOMAIN stage : parent[g] # f
  BY <1>1, <1>3 DEF AgeInv
<1>5. \/ live' = live
      \/ /\ DOMAIN live' = DOMAIN live \cup {f}
         /\ live'[f].ParentID = parent[f] /\ live'[f].StartTime = stamped[f]
         /\ \A g \in DOMAIN live : live'[g] = live[g]
  BY <1>3 DEF ObserveStart, begin, With, tracker
<1>6. ASSUME NEW g \in DOMAIN stage
      PROVE  /\ stamped[g] <= now
             /\ parent[g] # 0 => /\ parent[g] < g /\ parent[g] \in DOMAIN stage
                                 /\ stage'[parent[g]] \in {"running", "ending", "over"}
             /\ stage'[g] = "starting" /\ parent[g] \in DOMAIN live'
                  => live'[parent[g]].StartTime <= stamped[g]
  <2>1. parent[g] \in DOMAIN live' => /\ parent[g] \in DOMAIN live
                                      /\ live'[parent[g]] = live[parent[g]]
    BY <1>4, <1>5
  <2>2. stage'[g] = "starting" => stage[g] = "starting"
    BY <1>2
  <2>3. parent[g] # 0 => /\ parent[g] < g /\ parent[g] \in DOMAIN stage
                         /\ stage'[parent[g]] \in {"running", "ending", "over"}
    BY <1>2, <1>4 DEF AgeInv
  <2> QED
    BY <2>1, <2>2, <2>3 DEF AgeInv
<1>7. ASSUME NEW g \in DOMAIN live'
      PROVE  /\ live'[g].ParentID = parent[g]
             /\ live'[g].StartTime \in Nat /\ live'[g].StartTime <= now
             /\ parent[g] \in DOMAIN live' => live'[parent[g]].StartTime <= live'[g].StartTime
  <2>1. g \in DOMAIN stage
    BY <1>1, <1>5, Indexed
  <2>2. parent[g] \in DOMAIN live' => /\ parent[g] \in DOMAIN live
                                      /\ live'[parent[g]] = live[parent[g]]
    BY <1>4, <1>5, <2>1
  <2>3. CASE g \in DOMAIN live
    BY <1>5, <2>2, <2>3 DEF AgeInv
  <2>4. CASE g \notin DOMAIN live
    <3>1. g = f /\ live'[g].ParentID = parent[f] /\ live'[g].StartTime = stamped[f]
      BY <1>5, <2>4
    <3> QED
      BY <1>1, <1>3, <2>2, <3>1 DEF AgeInv
  <2> QED
    BY <2>3, <2>4
<1> QED
  BY <1>1, <1>2, <1>6, <1>7 DEF AgeInv

\* An end is observed: those who hung under the fiber are roots now.
LEMMA ObserveEndAges == ASSUME IInv, AgeInv, NEW f \in Forked, ObserveEnd(f) PROVE AgeInv'
<1>1. /\ stage[f] = "ending" /\ stage' = [stage EXCEPT ![f] = "over"]
      /\ UNCHANGED <<parent, stamped, now>> /\ f \in DOMAIN stage
  BY DEF ObserveEnd, Forked
<1>2. /\ DOMAIN stage' = DOMAIN stage /\ stage'[f] = "over" /\ Len(stage') = Len(stage)
      /\ \A g \in DOMAIN stage : g # f => stage'[g] = stage[g]
  BY <1>1 DEF IInv
<1>3. DOMAIN live' \subseteq DOMAIN live /\ \A g \in DOMAIN live' : live'[g] = live[g]
  BY DEF ObserveEnd, finish, Without, tracker
<1>4. ASSUME NEW g \in DOMAIN stage
      PROVE  /\ stamped[g] <= now
             /\ parent[g] # 0 => /\ parent[g] < g /\ parent[g] \in DOMAIN stage
                                 /\ stage'[parent[g]] \in {"running", "ending", "over"}
             /\ stage'[g] = "starting" /\ parent[g] \in DOMAIN live'
                  => live'[parent[g]].StartTime <= stamped[g]
  <2>1. stage'[g] = "starting" => stage[g] = "starting"
    BY <1>2
  <2>2. parent[g] # 0 => /\ parent[g] < g /\ parent[g] \in DOMAIN stage
                         /\ stage'[parent[g]] \in {"running", "ending", "over"}
    BY <1>2 DEF AgeInv
  <2> QED
    BY <1>3, <2>1, <2>2 DEF AgeInv
<1>5. ASSUME NEW g \in DOMAIN live'
      PROVE  /\ live'[g].ParentID = parent[g]
             /\ live'[g].StartTime \in Nat /\ live'[g].StartTime <= now
             /\ parent[g] \in DOMAIN live' => live'[parent[g]].StartTime <= live'[g].StartTime
  BY <1>3 DEF AgeInv
<1> QED
  BY <1>1, <1>2, <1>4, <1>5 DEF AgeInv

\* Every step keeps the ages in order.
LEMMA AgeStep == IInv /\ AgeInv /\ [Next]_vars => AgeInv'
<1> SUFFICES ASSUME IInv, AgeInv, [Next]_vars PROVE AgeInv'
  OBVIOUS
<1>1. CASE Tick
  <2>1. UNCHANGED <<live, stage, parent, stamped>> /\ now' = now + 1 /\ now \in Nat
    BY <1>1 DEF Tick, tracker, AgeInv
  <2>2. \A f \in DOMAIN stage : stamped[f] \in Nat /\ stamped[f] <= now + 1
    BY <2>1, Indexed DEF AgeInv
  <2>3. \A f \in DOMAIN live : live[f].StartTime \in Nat /\ live[f].StartTime <= now + 1
    BY <2>1 DEF AgeInv
  <2>4. /\ now' \in Nat /\ parent' \in Seq(Nat) /\ stamped' \in Seq(Nat)
        /\ Len(parent') = Len(stage') /\ Len(stamped') = Len(stage')
    BY <2>1 DEF AgeInv
  <2>5. ASSUME NEW f \in DOMAIN stage
        PROVE  /\ parent[f] # 0 => /\ parent[f] < f /\ parent[f] \in DOMAIN stage
                                   /\ stage[parent[f]] \in {"running", "ending", "over"}
               /\ stage[f] = "starting" /\ parent[f] \in DOMAIN live
                    => live[parent[f]].StartTime <= stamped[f]
    BY DEF AgeInv
  <2>6. ASSUME NEW f \in DOMAIN live
        PROVE  /\ live[f].ParentID = parent[f]
               /\ parent[f] \in DOMAIN live => live[parent[f]].StartTime <= live[f].StartTime
    BY DEF AgeInv
  <2> QED
    BY <2>1, <2>2, <2>3, <2>4, <2>5, <2>6 DEF AgeInv
<1>2. CASE Install \/ UNCHANGED vars
  <2>1. UNCHANGED <<live, stage, parent, stamped, now>>
    BY <1>2 DEF Install, vars, tracker
  <2> QED
    BY <2>1 DEF AgeInv
<1>3. CASE \E p \in Forked \cup {0} : Fork(p)
  BY <1>3, ForkAges
<1>4. CASE \E f \in Forked : FiberStarted(f) \/ FiberCompleted(f)
  BY <1>4, StampAges
<1>5. CASE \E f \in Forked : ObserveStart(f)
  BY <1>5, ObserveStartAges
<1>6. CASE \E f \in Forked : ObserveEnd(f)
  BY <1>6, ObserveEndAges
<1> QED
  BY <1>1, <1>2, <1>3, <1>4, <1>5, <1>6 DEF Next, Done

\* Some number of a set of numbers is the smallest.
LEMMA LeastIsThere ==
    ASSUME NEW S, S \subseteq Nat, S # {} PROVE \E m \in S : \A n \in S : m <= n
<1>1. PICK m \in S : \A n \in S : ~(<<n, m>> \in OpToRel(<, Nat))
  BY NatLessThanWellFounded, WFMin
<1>2. \A n \in S : n \in Nat /\ m \in Nat /\ ~(n < m)
  BY <1>1 DEF OpToRel
<1> QED
  BY <1>2

\* However the fibers fork, start and complete, and whichever of those the tracker is
\* told of late, the longest running of those it holds is at the top of its tree.
THEOREM OldestAtTheTop == Spec => []OldestIsARoot
<1>1. Init => AgeInv
  BY DEF Init, AgeInv
<1>2. IInv /\ AgeInv => OldestIsARoot
  <2> SUFFICES ASSUME IInv, AgeInv PROVE OldestIsARoot
    OBVIOUS
  <2>1. \A f \in DOMAIN live : /\ f \in DOMAIN stage /\ f \in Nat \ {0}
                               /\ live[f].StartTime \in Nat /\ live[f].ParentID = parent[f]
    BY Indexed DEF AgeInv
  <2>2. ASSUME NEW f \in DOMAIN live, IsChild(f)
        PROVE  /\ live[f].ParentID \in DOMAIN live
               /\ live[f].ParentID < f /\ live[live[f].ParentID].StartTime <= live[f].StartTime
    <3>1. parent[f] \in DOMAIN live
      BY <2>1, <2>2 DEF IsChild
    <3> QED
      BY <2>1, <3>1 DEF AgeInv
  <2>3. ASSUME DOMAIN live # {}
        PROVE  \E r \in Roots : \A f \in DOMAIN live : live[r].StartTime <= live[f].StartTime
    <3> DEFINE Times == {live[f].StartTime : f \in DOMAIN live}
    <3>1. PICK t \in Times : \A u \in Times : t <= u
      <4>1. Times \subseteq Nat /\ Times # {}
        BY <2>1, <2>3
      <4> HIDE DEF Times
      <4> QED
        BY <4>1, LeastIsThere
    <3> DEFINE First == {f \in DOMAIN live : live[f].StartTime = t}
    <3>2. PICK r \in First : \A f \in First : r <= f
      <4>1. First \subseteq Nat /\ First # {}
        BY <2>1
      <4> HIDE DEF First
      <4> QED
        BY <4>1, LeastIsThere
    <3>3. \A f \in DOMAIN live : live[r].StartTime <= live[f].StartTime
      BY <3>1, <3>2
    <3>4. ~IsChild(r)
      <4> SUFFICES ASSUME IsChild(r) PROVE FALSE
        OBVIOUS
      <4>1. PICK p \in DOMAIN live : p < r /\ live[p].StartTime <= live[r].StartTime
        BY <2>2
      <4>2. p \in Nat /\ r \in Nat /\ live[p].StartTime \in Nat /\ live[r].StartTime \in Nat
        BY <2>1
      <4>3. live[p].StartTime = t
        BY <3>3, <4>1, <4>2
      <4> QED
        BY <3>2, <4>1, <4>2, <4>3
    <3> QED
      BY <3>3, <3>4 DEF Roots
  <2> QED
    BY <2>2, <2>3 DEF OldestIsARoot
<1> QED
  BY <1>1, <1>2, InitHolds, StepKeeps, AgeStep, PTL DEF Spec

-----------------------------------------------------------------------------
(* Lists of lists.                                                           *)

\* What goes from each number up to a limit to the next holds up to the limit.
LEMMA CountingUp ==
    ASSUME NEW m \in Nat, NEW S, 0 \in S, \A n \in 0..(m - 1) : n \in S => n + 1 \in S
    PROVE  \A n \in 0..m : n \in S
<1> DEFINE Missing == {n \in 0..m : n \notin S}
<1> SUFFICES ASSUME Missing # {} PROVE FALSE
  OBVIOUS
<1>1. PICK n \in Missing : \A k \in Missing : n <= k
  <2>1. Missing \subseteq Nat
    OBVIOUS
  <2> HIDE DEF Missing
  <2> QED
    BY <2>1, LeastIsThere
<1>2. n \in 0..m /\ n \notin S /\ n # 0
  BY <1>1
<1>3. n - 1 \in 0..(m - 1) /\ n - 1 \in 0..m
  BY <1>2
<1>4. n - 1 \in S
  BY <1>1, <1>3
<1> QED
  BY <1>2, <1>3, <1>4

\* Lists joined one after the other, each where the ones before it end.
Joins(joined, subs, m) ==
    joined = [i \in 1..m |-> IF i = 1 THEN subs[i] ELSE joined[i - 1] \o subs[i]]
Placed(t, subs, m, off) ==
    /\ off \in [1..m -> Nat]
    /\ m > 0 => off[1] = 0
    /\ \A i \in 1..m : \A r \in 1..Len(subs[i]) : off[i] + r \in 1..Len(t) /\ t[off[i] + r] = subs[i][r]
    /\ \A p \in 1..Len(t) : \E i \in 1..m : p - off[i] \in 1..Len(subs[i])

\* One list and then another.
LEMMA Concatenated ==
    ASSUME NEW T, NEW s \in Seq(T), NEW t \in Seq(T)
    PROVE  /\ s \o t \in Seq(T) /\ Len(s \o t) = Len(s) + Len(t)
           /\ \A p \in 1..Len(s) : (s \o t)[p] = s[p]
           /\ \A r \in 1..Len(t) : (s \o t)[Len(s) + r] = t[r]
  OBVIOUS

\* One more at the end.
LEMMA PlacedMore ==
    ASSUME NEW T, NEW n \in Nat \ {0}, NEW m \in Nat, n < m, NEW subs \in [1..m -> Seq(T)],
           NEW t \in Seq(T), NEW off, Placed(t, subs, n, off)
    PROVE  \E more : Placed(t \o subs[n + 1], subs, n + 1, more)
<1>1. PICK s \in Seq(T) : s = subs[n + 1]
  OBVIOUS
<1>2. PICK more : more = [i \in 1..(n + 1) |-> IF i = n + 1 THEN Len(t) ELSE off[i]]
  OBVIOUS
<1>3. /\ off \in [1..n -> Nat] /\ off[1] = 0
      /\ \A i \in 1..n : \A r \in 1..Len(subs[i]) : off[i] + r \in 1..Len(t) /\ t[off[i] + r] = subs[i][r]
      /\ \A p \in 1..Len(t) : \E i \in 1..n : p - off[i] \in 1..Len(subs[i])
  BY DEF Placed
<1>4. more \in [1..(n + 1) -> Nat] /\ more[n + 1] = Len(t) /\ \A i \in 1..n : more[i] = off[i]
  BY <1>2, <1>3
<1>5. PICK u \in Seq(T) : /\ u = t \o s /\ Len(u) = Len(t) + Len(s)
                          /\ \A p \in 1..Len(t) : u[p] = t[p]
                          /\ \A r \in 1..Len(s) : u[Len(t) + r] = s[r]
  <2>1. t \o s \in Seq(T)
    BY Concatenated
  <2>2. Len(t \o s) = Len(t) + Len(s)
    BY Concatenated
  <2>3. \A p \in 1..Len(t) : (t \o s)[p] = t[p]
    BY Concatenated
  <2>4. \A r \in 1..Len(s) : (t \o s)[Len(t) + r] = s[r]
    BY Concatenated
  <2> QED
    BY <2>1, <2>2, <2>3, <2>4, Zenon
<1>6. ASSUME NEW i \in 1..(n + 1), NEW r \in 1..Len(subs[i])
      PROVE  more[i] + r \in 1..Len(u) /\ u[more[i] + r] = subs[i][r]
  <2>1. CASE i = n + 1
    BY <1>1, <1>4, <1>5, <2>1, SMTT(40)
  <2>2. CASE i \in 1..n
    <3>1. off[i] + r \in 1..Len(t) /\ t[off[i] + r] = subs[i][r] /\ more[i] = off[i]
      BY <1>3, <1>4, <2>2
    <3>2. 1..Len(t) \subseteq 1..Len(u)
      BY <1>5
    <3> QED
      BY <1>5, <3>1, <3>2
  <2> QED
    BY <2>1, <2>2
<1>7. ASSUME NEW p \in 1..Len(u) PROVE \E i \in 1..(n + 1) : p - more[i] \in 1..Len(subs[i])
  <2>1. CASE p \in 1..Len(t)
    <3>1. PICK i \in 1..n : p - off[i] \in 1..Len(subs[i])
      BY <1>3, <2>1
    <3> QED
      BY <1>4, <3>1, SMTT(40)
  <2>2. CASE p \notin 1..Len(t)
    <3>1. p - Len(t) \in 1..Len(s)
      BY <1>5, <2>2
    <3>2. n + 1 \in 1..(n + 1)
      OBVIOUS
    <3> QED
      BY <1>1, <1>4, <3>1, <3>2
  <2> QED
    BY <2>1, <2>2
<1>8. more[1] = 0
  BY <1>3, <1>4
<1>9. Placed(u, subs, n + 1, more)
  BY <1>4, <1>6, <1>7, <1>8 DEF Placed
<1> QED
  BY <1>1, <1>5, <1>9

\* Every member of a list of lists has its place in the flat list.
LEMMA Flattened ==
    ASSUME NEW T, NEW m \in Nat, NEW subs \in [1..m -> Seq(T)]
    PROVE  FlattenSeq(subs) \in Seq(T) /\ \E off : Placed(FlattenSeq(subs), subs, m, off)
<1>1. CASE m = 0
  <2>1. subs = <<>>
    BY <1>1
  <2>2. FlattenSeq(subs) = <<>>
    BY <2>1 DEF FlattenSeq
  <2>3. Placed(<<>>, subs, m, <<>>)
    BY <1>1 DEF Placed
  <2> QED
    BY <2>2, <2>3
<1>2. CASE m # 0
  <2>1. subs \in Seq(Seq(T)) /\ Len(subs) = m
    OBVIOUS
  <2>2. \E joined : Joins(joined, subs, m)
    <3> DEFINE Good == {n \in 0..m : \E joined : Joins(joined, subs, n)}
    <3>1. 0 \in Good
      <4>1. Joins(<<>>, subs, 0)
        BY DEF Joins
      <4> QED
        BY <4>1
    <3>2. ASSUME NEW n \in 0..(m - 1), n \in Good PROVE n + 1 \in Good
      <4>1. PICK joined : Joins(joined, subs, n)
        BY <3>2
      <4>2. PICK more : more = [i \in 1..(n + 1) |->
                                  IF i \in 1..n THEN joined[i]
                                  ELSE IF i = 1 THEN subs[i] ELSE joined[i - 1] \o subs[i]]
        OBVIOUS
      <4>3. ASSUME NEW i \in 1..(n + 1)
            PROVE  more[i] = IF i = 1 THEN subs[i] ELSE more[i - 1] \o subs[i]
        <5>1. CASE i \in 1..n
          <6>1. joined[i] = IF i = 1 THEN subs[i] ELSE joined[i - 1] \o subs[i]
            BY <4>1, <5>1 DEF Joins
          <6>2. more[i] = joined[i] /\ (i # 1 => i - 1 \in 1..n /\ more[i - 1] = joined[i - 1])
            BY <4>2, <5>1
          <6> QED
            BY <6>1, <6>2
        <5>2. CASE i \notin 1..n
          <6>1. i # 1 => i - 1 \in 1..n /\ i - 1 \in 1..(n + 1)
            BY <5>2
          <6>2. i # 1 => more[i - 1] = joined[i - 1]
            BY <4>2, <6>1
          <6> QED
            BY <4>2, <5>2, <6>2
        <5> QED
          BY <5>1, <5>2
      <4>4. Joins(more, subs, n + 1)
        BY <4>2, <4>3, ZenonT(40) DEF Joins
      <4>5. n + 1 \in 0..m
        BY <3>2
      <4> QED
        BY <4>4, <4>5
    <3>3. m \in Good
      <4>1. m \in 0..m
        OBVIOUS
      <4> HIDE DEF Good
      <4> QED
        BY <3>1, <3>2, <4>1, CountingUp
    <3> QED
      BY <3>3
  <2>3. PICK joined : Joins(joined, subs, m) /\ FlattenSeq(subs) = joined[m]
    <3>1. FlattenSeq(subs) = (CHOOSE joined : Joins(joined, subs, m))[m]
      BY <1>2, <2>1 DEF FlattenSeq, Joins
    <3> QED
      BY <2>2, <3>1
  <2>4. \A i \in 1..m : joined[i] = IF i = 1 THEN subs[i] ELSE joined[i - 1] \o subs[i]
    BY <2>3 DEF Joins
  <2> DEFINE Good == {n \in 0..m : n = 0 \/ (joined[n] \in Seq(T) /\ \E off : Placed(joined[n], subs, n, off))}
  <2>5. 0 \in Good
    OBVIOUS
  <2>6. ASSUME NEW n \in 0..(m - 1), n \in Good PROVE n + 1 \in Good
    <3>1. n + 1 \in 0..m /\ n + 1 \in 1..m /\ n \in Nat /\ n < m
      BY <2>6
    <3>2. CASE n = 0
      <4>1. joined[1] = subs[1] /\ subs[1] \in Seq(T)
        BY <2>4, <3>1, <3>2
      <4>2. PICK off : off = [i \in 1..1 |-> 0]
        OBVIOUS
      <4>3. Placed(subs[1], subs, 1, off)
        BY <4>1, <4>2 DEF Placed
      <4> QED
        BY <3>1, <3>2, <4>1, <4>3
    <3>3. CASE n # 0
      <4>1. PICK off : joined[n] \in Seq(T) /\ Placed(joined[n], subs, n, off)
        BY <2>6, <3>3
      <4>2. joined[n + 1] = joined[n] \o subs[n + 1] /\ subs[n + 1] \in Seq(T)
        <5>1. n + 1 # 1 /\ (n + 1) - 1 = n
          BY <3>1, <3>3
        <5>2. joined[n + 1] = joined[(n + 1) - 1] \o subs[n + 1]
          BY <2>4, <3>1, <5>1
        <5> QED
          BY <3>1, <5>1, <5>2
      <4>3. \E more : Placed(joined[n] \o subs[n + 1], subs, n + 1, more)
        BY <3>1, <3>3, <4>1, PlacedMore
      <4>4. joined[n + 1] \in Seq(T)
        BY <4>1, <4>2
      <4> QED
        BY <3>1, <4>2, <4>3, <4>4
    <3> QED
      BY <3>2, <3>3
  <2>7. m \in Good
    <3>1. m \in 0..m
      OBVIOUS
    <3> HIDE DEF Good
    <3> QED
      BY <2>5, <2>6, <3>1, CountingUp
  <2> QED
    BY <1>2, <2>3, <2>7
<1> QED
  BY <1>1, <1>2

-----------------------------------------------------------------------------
(* What the tree is of.                                                      *)

\* No more fibers are forked than the bound says.
Bounded == Len(stage) \in Nat /\ Len(stage) <= MaxFibers

LEMMA BoundedInit == Init => Bounded
  BY FibersAssumption DEF Init, Bounded

LEMMA BoundedStep == IInv /\ Bounded /\ [Next]_vars => Bounded'
<1> SUFFICES ASSUME IInv, Bounded, [Next]_vars PROVE Bounded'
  OBVIOUS
<1>1. stage \in Seq(Stages) /\ Len(stage) \in Nat
  BY DEF IInv
<1>2. CASE \E p \in Forked \cup {0} : Fork(p)
  <2>1. stage' = Append(stage, "forked") /\ Len(stage) < MaxFibers
    BY <1>2 DEF Fork
  <2>2. Len(stage') = Len(stage) + 1
    BY <1>1, <2>1
  <2> QED
    BY <1>1, <2>1, <2>2, FibersAssumption DEF Bounded
<1>3. ASSUME \E f \in Forked : \E to : stage' = [stage EXCEPT ![f] = to] PROVE Len(stage') = Len(stage)
  BY <1>1, <1>3
<1>4. stage' = stage \/ (\E f \in Forked : \E to : stage' = [stage EXCEPT ![f] = to])
        \/ (\E p \in Forked \cup {0} : Fork(p))
  BY DEF Next, Tick, Install, FiberStarted, FiberCompleted, Stamp, ObserveStart, ObserveEnd, Done, vars
<1> QED
  BY <1>2, <1>3, <1>4 DEF Bounded

\* What a reader finds: finitely many fibers, each started no earlier than the one it
\* hangs under, and numbered after it.
Held == /\ IsFiniteSet(DOMAIN live) /\ DOMAIN live \subseteq IDs
        /\ \A f \in DOMAIN live :
             /\ live[f].StartTime \in Nat
             /\ live[f].ParentID \in DOMAIN live =>
                  /\ live[f].ParentID < f
                  /\ live[live[f].ParentID].StartTime <= live[f].StartTime

LEMMA HeldIs == IInv /\ AgeInv /\ Bounded => Held
<1> SUFFICES ASSUME IInv, AgeInv, Bounded PROVE Held
  OBVIOUS
<1>1. IsFiniteSet(DOMAIN live)
  BY FinitelyMany
<1>2. DOMAIN live \subseteq IDs
  BY Indexed, FibersAssumption DEF Bounded, IDs
<1>3. ASSUME NEW f \in DOMAIN live
      PROVE  /\ live[f].StartTime \in Nat
             /\ live[f].ParentID \in DOMAIN live =>
                  /\ live[f].ParentID < f
                  /\ live[live[f].ParentID].StartTime <= live[f].StartTime
  <2>1. /\ live[f].StartTime \in Nat /\ live[f].ParentID = parent[f]
        /\ parent[f] \in DOMAIN live => live[parent[f]].StartTime <= live[f].StartTime
    BY DEF AgeInv
  <2>2. f \in DOMAIN stage /\ (parent[f] \in DOMAIN live => parent[f] # 0)
    BY Indexed
  <2>3. parent[f] # 0 => parent[f] < f
    BY <2>2 DEF AgeInv
  <2> QED
    BY <2>1, <2>2, <2>3
<1> QED
  BY <1>1, <1>2, <1>3 DEF Held

\* A finite set in a strict total order can be listed in that order: each member at the
\* place that is the number of those up to it.
LEMMA ListedInOrder ==
    ASSUME NEW S, IsFiniteSet(S), NEW R,
           \A x \in S : <<x, x>> \notin R,
           \A x, y, z \in S : <<x, y>> \in R /\ <<y, z>> \in R => <<x, z>> \in R,
           \A x, y \in S : x # y => <<x, y>> \in R \/ <<y, x>> \in R
    PROVE  \E s \in [1..Cardinality(S) -> S] :
              /\ \A x \in S : \E i \in 1..Cardinality(S) : s[i] = x
              /\ \A i, j \in 1..Cardinality(S) : i < j => <<s[i], s[j]>> \in R
<1> DEFINE UpTo(x) == {y \in S : <<y, x>> \in R \/ y = x}
<1>1. PICK n \in Nat : n = Cardinality(S) /\ IsFiniteSet(1..n) /\ Cardinality(1..n) = n
  BY FS_CardinalityType, FS_Interval
<1>2. PICK place : place = [x \in S |-> Cardinality(UpTo(x))]
  OBVIOUS
<1>3. ASSUME NEW x \in S
      PROVE  IsFiniteSet(UpTo(x)) /\ place[x] = Cardinality(UpTo(x)) /\ place[x] \in 1..n
  <2>1. UpTo(x) \in SUBSET S /\ x \in UpTo(x)
    OBVIOUS
  <2>2. IsFiniteSet(UpTo(x)) /\ Cardinality(UpTo(x)) <= n
    BY <1>1, <2>1, FS_Subset
  <2>3. Cardinality(UpTo(x)) \in Nat /\ Cardinality(UpTo(x)) # 0
    BY <2>1, <2>2, FS_CardinalityType, FS_EmptySet
  <2> QED
    BY <1>1, <1>2, <2>2, <2>3
<1>4. ASSUME NEW x \in S, NEW y \in S, <<x, y>> \in R PROVE place[x] < place[y]
  <2>1. UpTo(x) \in SUBSET UpTo(y) /\ UpTo(x) # UpTo(y)
    BY <1>4
  <2>2. Cardinality(UpTo(x)) <= Cardinality(UpTo(y)) /\ Cardinality(UpTo(x)) # Cardinality(UpTo(y))
    BY <1>3, <2>1, FS_Subset
  <2>3. /\ place[x] = Cardinality(UpTo(x)) /\ place[y] = Cardinality(UpTo(y))
        /\ place[x] \in Nat /\ place[y] \in Nat
    BY <1>3
  <2> HIDE DEF UpTo
  <2> QED
    BY <2>2, <2>3
<1> HIDE DEF UpTo
<1>5. place \in [S -> 1..n]
  BY <1>2, <1>3
<1>6. ASSUME NEW x \in S, NEW y \in S, place[x] = place[y] PROVE x = y
  <2>1. place[x] \in Nat /\ place[y] \in Nat
    BY <1>5
  <2>2. ~(place[x] < place[y]) /\ ~(place[y] < place[x])
    BY <1>6, <2>1
  <2> QED
    BY <1>4, <2>2
<1>7. place \in Injection(S, 1..n)
  BY <1>5, <1>6 DEF Injection, IsInjective
<1>8. place \in Surjection(S, 1..n)
  BY <1>1, <1>7, FS_Injection
<1>9. \A i \in 1..n : \E x \in S : place[x] = i
  BY <1>8 DEF Surjection
<1>10. PICK s : s = [i \in 1..n |-> CHOOSE x \in S : place[x] = i]
  OBVIOUS
<1>11. \A i \in 1..n : s[i] \in S /\ place[s[i]] = i
  BY <1>9, <1>10
<1>12. s \in [1..n -> S]
  BY <1>10, <1>11
<1>13. ASSUME NEW x \in S PROVE \E i \in 1..n : s[i] = x
  <2>1. place[x] \in 1..n
    BY <1>5
  <2> QED
    BY <1>6, <1>11, <2>1
<1>14. ASSUME NEW i \in 1..n, NEW j \in 1..n, i < j PROVE <<s[i], s[j]>> \in R
  <2>1. s[i] \in S /\ s[j] \in S /\ place[s[i]] = i /\ place[s[j]] = j
    BY <1>11
  <2>2. s[i] # s[j]
    BY <1>14, <2>1
  <2>3. <<s[j], s[i]>> \notin R
    <3> SUFFICES ASSUME <<s[j], s[i]>> \in R PROVE FALSE
      OBVIOUS
    <3>1. place[s[j]] < place[s[i]]
      BY <1>4, <2>1
    <3> QED
      BY <1>14, <2>1, <3>1
  <2> QED
    BY <2>1, <2>2, <2>3
<1> QED
  BY <1>1, <1>12, <1>13, <1>14

\* Fibers sorted: each of them once, the longest running first.
SortedFrom(s, ids, n) ==
    /\ s \in [1..n -> ids]
    /\ \A f \in ids : \E i \in 1..n : s[i] = f
    /\ \A i, j \in 1..n : s[i] = s[j] => i = j
    /\ \A i, j \in 1..n : i < j => live[s[i]].StartTime <= live[s[j]].StartTime

LEMMA SortedIs ==
    ASSUME Held, NEW ids \in SUBSET DOMAIN live
    PROVE  \E n \in Nat : SortedFrom(sortOldestFirst(ids), ids, n)
<1>1. IsFiniteSet(ids)
  BY FS_Subset DEF Held
<1>2. PICK n \in Nat : n = Cardinality(ids)
  BY <1>1, FS_CardinalityType
<1>3. \A f \in ids : f \in Nat /\ live[f].StartTime \in Nat
  BY DEF Held, IDs
<1> DEFINE R == {p \in ids \X ids : Older(p[1], p[2])}
<1>4. \A f, g \in ids : <<f, g>> \in R <=> Older(f, g)
  OBVIOUS
<1> HIDE DEF R
<1>5. PICK age : age = [f \in ids |-> live[f].StartTime]
  OBVIOUS
<1>6. \A f \in ids : f \in Nat /\ age[f] \in Nat
  BY <1>3, <1>5
<1>7. \A f, g \in ids : Older(f, g) <=> (age[f] < age[g] \/ (age[f] = age[g] /\ f < g))
  BY <1>5 DEF Older
<1>8. \A f \in ids : <<f, f>> \notin R
  BY <1>4, <1>6, <1>7
<1>9. \A f, g, h \in ids : <<f, g>> \in R /\ <<g, h>> \in R => <<f, h>> \in R
  BY <1>4, <1>6, <1>7
<1>10. \A f, g \in ids : f # g => <<f, g>> \in R \/ <<g, f>> \in R
  BY <1>4, <1>6, <1>7
<1>11. \E s \in [1..n -> ids] : \A i, j \in 1..n : i < j => <<s[i], s[j]>> \in R
  BY <1>1, <1>2, <1>8, <1>9, <1>10, ListedInOrder
<1>12. \E s \in [1..n -> ids] : \A i, j \in 1..n : i < j => Older(s[i], s[j])
  BY <1>4, <1>11
<1>13. PICK s \in [1..n -> ids] : s = sortOldestFirst(ids) /\ \A i, j \in 1..n : i < j => Older(s[i], s[j])
  BY <1>2, <1>12 DEF sortOldestFirst
<1>14. \A i, j \in 1..n : i < j => s[i] # s[j] /\ age[s[i]] <= age[s[j]]
  <2> SUFFICES ASSUME NEW i \in 1..n, NEW j \in 1..n, i < j
               PROVE  s[i] # s[j] /\ age[s[i]] <= age[s[j]]
    OBVIOUS
  <2>1. s[i] \in ids /\ s[j] \in ids /\ Older(s[i], s[j])
    BY <1>13
  <2> QED
    BY <1>6, <1>7, <2>1
<1>15. \A i, j \in 1..n : s[i] = s[j] => i = j
  BY <1>14
<1>16. \A f \in ids : \E i \in 1..n : s[i] = f
  <2>1. s \in Injection(1..n, ids)
    BY <1>15 DEF Injection, IsInjective
  <2>2. IsFiniteSet(1..n) /\ Cardinality(1..n) = n
    BY FS_Interval
  <2>3. s \in Surjection(1..n, ids)
    BY <1>1, <1>2, <2>1, <2>2, FS_Injection
  <2> QED
    BY <2>3 DEF Surjection
<1>17. \A i, j \in 1..n : i < j => live[s[i]].StartTime <= live[s[j]].StartTime
  <2>1. \A i \in 1..n : age[s[i]] = live[s[i]].StartTime
    BY <1>5
  <2> QED
    BY <1>14, <2>1
<1> QED
  BY <1>13, <1>15, <1>16, <1>17 DEF SortedFrom

-----------------------------------------------------------------------------
(* The tree is there to be read.                                             *)

\* A fiber's rows from those of its children.
Below(rows, f) ==
    LET childIDs == sortOldestFirst(Children(f))
    IN  <<[ID |-> f, depth |-> 0]>> \o
        FlattenSeq([i \in DOMAIN childIDs |-> Deeper(rows[childIDs[i]])])
From(rows, first) == rows = [f \in first..MaxFibers |-> Below(rows, f)]

\* Only its children's matter, which are held and numbered after it.
LEMMA ChildrenAre ==
    ASSUME Held, NEW f \in IDs
    PROVE  /\ Children(f) \in SUBSET DOMAIN live
           /\ \A c \in Children(f) : c \in IDs /\ f < c /\ live[c].ParentID = f
  BY DEF Held, Children, IsChild

LEMMA OnlyChildrenMatter ==
    ASSUME Held, NEW f \in IDs, NEW rows, NEW others, \A c \in Children(f) : rows[c] = others[c]
    PROVE  Below(rows, f) = Below(others, f)
<1>1. PICK s : s = sortOldestFirst(Children(f))
  OBVIOUS
<1>2. PICK n \in Nat : SortedFrom(s, Children(f), n)
  BY <1>1, ChildrenAre, SortedIs
<1>3. s \in [1..n -> Children(f)]
  BY <1>2 DEF SortedFrom
<1>4. [i \in DOMAIN s |-> Deeper(rows[s[i]])] = [i \in DOMAIN s |-> Deeper(others[s[i]])]
  BY <1>3
<1> QED
  BY <1>1, <1>4 DEF Below

\* So the rows are determined from the last fiber to the first.
LEMMA SubtreeIs == ASSUME Held PROVE \A f \in IDs : subtree[f] = Below(subtree, f)
<1> DEFINE Good == {k \in 0..MaxFibers : \E rows : From(rows, MaxFibers - k + 1)}
<1>1. MaxFibers \in Nat
  BY FibersAssumption
<1>2. 0 \in Good
  <2>1. PICK rows : rows = [f \in (MaxFibers + 1)..MaxFibers |-> <<>>]
    OBVIOUS
  <2>2. (MaxFibers + 1)..MaxFibers = {}
    BY <1>1
  <2>3. From(rows, MaxFibers + 1)
    BY <2>1, <2>2 DEF From
  <2>4. MaxFibers - 0 + 1 = MaxFibers + 1
    BY <1>1
  <2> QED
    BY <1>1, <2>3, <2>4
<1>3. ASSUME NEW k \in 0..(MaxFibers - 1), k \in Good PROVE k + 1 \in Good
  <2>1. PICK top \in IDs : top = MaxFibers - k
    BY <1>1 DEF IDs
  <2>2. PICK rows : From(rows, top + 1)
    BY <1>1, <1>3, <2>1
  <2>3. PICK more : more = [f \in top..MaxFibers |-> IF f = top THEN Below(rows, f) ELSE rows[f]]
    OBVIOUS
  <2>4. ASSUME NEW f \in top..MaxFibers PROVE more[f] = Below(more, f)
    <3>1. f \in IDs
      BY <1>1, <2>1, <2>4 DEF IDs
    <3>2. ASSUME NEW c \in Children(f) PROVE rows[c] = more[c]
      <4>1. c \in IDs /\ f < c
        BY <3>1, ChildrenAre
      <4>2. c \in top..MaxFibers /\ c # top
        BY <1>1, <2>1, <4>1 DEF IDs
      <4> QED
        BY <2>3, <4>2
    <3>3. Below(rows, f) = Below(more, f)
      BY <3>1, <3>2, OnlyChildrenMatter
    <3>4. CASE f = top
      BY <2>3, <3>3, <3>4
    <3>5. CASE f # top
      <4>1. f \in (top + 1)..MaxFibers
        BY <1>1, <2>1, <3>5 DEF IDs
      <4>2. rows[f] = Below(rows, f)
        BY <2>2, <4>1 DEF From
      <4>3. more[f] = rows[f]
        BY <2>3, <3>5
      <4> QED
        BY <3>3, <4>2, <4>3
    <3> QED
      BY <3>4, <3>5
  <2>5. more = [f \in top..MaxFibers |-> more[f]]
    BY <2>3
  <2>6. From(more, top)
    BY <2>4, <2>5 DEF From
  <2>7. MaxFibers - (k + 1) + 1 = top /\ k + 1 \in 0..MaxFibers
    BY <1>1, <2>1
  <2> QED
    BY <2>6, <2>7
<1>4. MaxFibers \in Good
  <2>1. MaxFibers \in 0..MaxFibers
    BY <1>1
  <2> HIDE DEF Good
  <2> QED
    BY <1>1, <1>2, <1>3, <2>1, CountingUp
<1>5. \E rows : From(rows, 1)
  <2>1. MaxFibers - MaxFibers + 1 = 1
    BY <1>1
  <2> QED
    BY <1>4, <2>1
<1>6. subtree = CHOOSE rows : From(rows, 1)
  BY DEF subtree, From, Below, IDs
<1>7. From(subtree, 1)
  BY <1>5, <1>6
<1> QED
  BY <1>7 DEF From, IDs

-----------------------------------------------------------------------------
(* Where a fiber stands in the tree.                                         *)

Rows == [ID : DOMAIN live, depth : Nat]

\* A row that comes after its fiber's parent, one deeper, with nothing of the parent's
\* own level or above between them.
UnderParent(t, j) ==
    /\ live[t[j].ID].ParentID \in DOMAIN live
    /\ \E i \in 1..(j - 1) :
         /\ t[i].ID = live[t[j].ID].ParentID
         /\ t[j].depth = t[i].depth + 1
         /\ \A k \in (i + 1)..(j - 1) : t[k].depth > t[i].depth

Once(t) == \A i, j \in 1..Len(t) : t[i].ID = t[j].ID => i = j
WithChildren(t) ==
    \A j \in 1..Len(t) : \A c \in Children(t[j].ID) : \E i \in 1..Len(t) : t[i].ID = c

\* The rows of a fiber and all that hangs under it.
Hangs(s, f, d) ==
    /\ s \in Seq(Rows) /\ Len(s) >= 1 /\ s[1].ID = f /\ s[1].depth = d
    /\ \A j \in 1..Len(s) : /\ s[j].ID >= f /\ s[j].depth >= d
                            /\ j # 1 => s[j].depth > d /\ UnderParent(s, j)
    /\ Once(s) /\ WithChildren(s)

\* The rows of some fibers, none of which hangs under another, one fiber after the other.
Shows(t, tops, m, d) ==
    /\ t \in Seq(Rows)
    /\ \A j \in 1..Len(t) : \/ t[j].depth = d /\ \E i \in 1..m : t[j].ID = tops[i]
                            \/ t[j].depth > d /\ UnderParent(t, j)
    /\ \A j \in 1..Len(t) : \E i \in 1..m : t[j].ID >= tops[i]
    /\ \A i \in 1..m : \E j \in 1..Len(t) : t[j].ID = tops[i]
    /\ m > 0 => Len(t) >= 1 /\ t[1].ID = tops[1]
    /\ Once(t) /\ WithChildren(t)
Apart(subs, tops, m, d) ==
    /\ tops \in [1..m -> DOMAIN live] /\ \A i, j \in 1..m : tops[i] = tops[j] => i = j
    /\ subs \in [1..m -> Seq(Rows)] /\ \A i \in 1..m : Hangs(subs[i], tops[i], d)
    /\ \A i, j \in 1..m : \A q \in 1..Len(subs[j]) : live[tops[i]].ParentID # subs[j][q].ID

\* No fiber hangs under two of them: its parent would too, and so on up.
LEMMA Disjoint ==
    ASSUME Held, NEW m \in Nat, NEW subs, NEW tops, NEW d \in Nat, Apart(subs, tops, m, d),
           NEW i \in 1..m, NEW j \in 1..m, i # j,
           NEW q \in 1..Len(subs[i]), NEW r \in 1..Len(subs[j])
    PROVE  subs[i][q].ID # subs[j][r].ID
<1>1. \A a \in 1..m : /\ subs[a] \in Seq(Rows) /\ tops[a] \in DOMAIN live
                      /\ Len(subs[a]) >= 1 /\ subs[a][1].ID = tops[a]
                      /\ \A k \in 2..Len(subs[a]) : UnderParent(subs[a], k)
  BY DEF Apart, Hangs
<1>2. ASSUME NEW a \in 1..m, NEW k \in 1..Len(subs[a]) PROVE subs[a][k].ID \in DOMAIN live
  <2>1. subs[a][k] \in Rows
    BY <1>1
  <2> QED
    BY <2>1 DEF Rows
<1> DEFINE In(a, g) == \E k \in 1..Len(subs[a]) : subs[a][k].ID = g
           Both == {g \in DOMAIN live : In(i, g) /\ In(j, g)}
<1>3. ASSUME NEW a \in 1..m, NEW g, In(a, g), g # tops[a]
      PROVE  live[g].ParentID \in DOMAIN live /\ In(a, live[g].ParentID)
  <2>1. PICK k \in 1..Len(subs[a]) : subs[a][k].ID = g
    BY <1>3
  <2>2. k \in 2..Len(subs[a])
    BY <1>1, <1>3, <2>1
  <2>3. UnderParent(subs[a], k)
    BY <1>1, <2>2
  <2>4. PICK l \in 1..(k - 1) : subs[a][l].ID = live[g].ParentID
    BY <2>1, <2>3 DEF UnderParent
  <2>5. l \in 1..Len(subs[a])
    BY <1>1, <2>1, <2>4
  <2> QED
    BY <2>1, <2>3, <2>4, <2>5 DEF UnderParent
<1>4. ASSUME NEW a \in 1..m, NEW b \in 1..m, NEW g, In(b, g) PROVE live[tops[a]].ParentID # g
  BY <1>4 DEF Apart
<1> SUFFICES ASSUME Both # {} PROVE FALSE
  BY <1>2
<1>5. PICK g \in Both : \A h \in Both : g <= h
  <2>1. Both \subseteq Nat
    BY DEF Held, IDs
  <2> HIDE DEF Both
  <2> QED
    BY <2>1, LeastIsThere
<1>6. g \in DOMAIN live /\ g \in Nat /\ In(i, g) /\ In(j, g)
  BY <1>5 DEF Held, IDs
<1> HIDE DEF In
<1>7. g # tops[i]
  <2> SUFFICES ASSUME g = tops[i] PROVE FALSE
    OBVIOUS
  <2>1. g # tops[j]
    BY DEF Apart
  <2>2. In(j, live[g].ParentID)
    BY <1>3, <1>6, <2>1
  <2> QED
    BY <1>4, <2>2
<1>8. g # tops[j]
  <2> SUFFICES ASSUME g = tops[j] PROVE FALSE
    OBVIOUS
  <2>1. In(i, live[g].ParentID)
    BY <1>3, <1>6, <1>7
  <2> QED
    BY <1>4, <2>1
<1>9. live[g].ParentID \in Both
  BY <1>3, <1>6, <1>7, <1>8
<1>10. live[g].ParentID \in DOMAIN live /\ live[g].ParentID \in Nat /\ live[g].ParentID < g
  BY <1>9, <1>6 DEF Held, IDs
<1> HIDE DEF Both
<1> QED
  BY <1>5, <1>6, <1>9, <1>10

\* In a longer list a row stands where it stood.
LEMMA MovedAlong ==
    ASSUME NEW s, NEW t, NEW o \in Nat, NEW n \in Nat, NEW r \in Nat, r >= 1, r <= n,
           \A k \in 1..n : t[o + k] = s[k], UnderParent(s, r)
    PROVE  UnderParent(t, o + r)
<1>1. PICK l \in 1..(r - 1) : /\ s[l].ID = live[s[r].ID].ParentID
                              /\ s[r].depth = s[l].depth + 1
                              /\ \A k \in (l + 1)..(r - 1) : s[k].depth > s[l].depth
  BY DEF UnderParent
<1>2. l \in 1..n /\ r \in 1..n /\ o + l \in 1..((o + r) - 1)
  OBVIOUS
<1>3. t[o + l] = s[l] /\ t[o + r] = s[r]
  BY <1>2
<1>4. ASSUME NEW k \in ((o + l) + 1)..((o + r) - 1) PROVE t[k].depth > t[o + l].depth
  <2>1. PICK h \in Nat : h = k - o /\ o + h = k
    OBVIOUS
  <2>2. h \in (l + 1)..(r - 1) /\ h \in 1..n
    BY <2>1
  <2>3. t[k] = s[h]
    BY <2>1, <2>2
  <2> QED
    BY <1>1, <1>3, <2>2, <2>3
<1>5. /\ t[o + l].ID = live[t[o + r].ID].ParentID
      /\ t[o + r].depth = t[o + l].depth + 1
      /\ live[t[o + r].ID].ParentID \in DOMAIN live
  BY <1>1, <1>3 DEF UnderParent
<1>6. PICK p : p = o + r
  OBVIOUS
<1>7. UnderParent(t, p)
  BY <1>2, <1>4, <1>5, <1>6 DEF UnderParent
<1> QED
  BY <1>6, <1>7

\* One after the other they show what each of them shows.
LEMMA ForestShows ==
    ASSUME Held, NEW m \in Nat, NEW subs, NEW tops, NEW d \in Nat, Apart(subs, tops, m, d)
    PROVE  Shows(FlattenSeq(subs), tops, m, d)
<1>1. subs \in [1..m -> Seq(Rows)] /\ tops \in [1..m -> DOMAIN live]
  BY DEF Apart
<1>2. PICK t \in Seq(Rows) : t = FlattenSeq(subs)
  BY <1>1, Flattened
<1>3. PICK off : Placed(t, subs, m, off)
  BY <1>1, <1>2, Flattened
<1>4. /\ off \in [1..m -> Nat] /\ (m > 0 => off[1] = 0)
      /\ \A i \in 1..m : \A r \in 1..Len(subs[i]) : off[i] + r \in 1..Len(t) /\ t[off[i] + r] = subs[i][r]
      /\ \A p \in 1..Len(t) : \E i \in 1..m : p - off[i] \in 1..Len(subs[i])
  BY <1>3 DEF Placed
<1>5. ASSUME NEW p \in 1..Len(t)
      PROVE  \E i \in 1..m : \E r \in 1..Len(subs[i]) : p = off[i] + r /\ t[p] = subs[i][r]
  <2>1. PICK i \in 1..m : p - off[i] \in 1..Len(subs[i])
    BY <1>4
  <2>2. PICK r \in 1..Len(subs[i]) : r = p - off[i]
    BY <2>1
  <2>3. off[i] \in Nat /\ Len(t) \in Nat /\ p \in Int
    BY <1>4
  <2>4. p = off[i] + r
    BY <2>2, <2>3
  <2> QED
    BY <1>4, <2>4
<1>6. \A i \in 1..m : Hangs(subs[i], tops[i], d)
  BY DEF Apart
<1>7. ASSUME NEW i \in 1..m, NEW r \in 1..Len(subs[i]), r # 1
      PROVE  UnderParent(t, off[i] + r)
  <2>1. PICK s \in Seq(Rows) : s = subs[i]
    BY <1>1
  <2>2. UnderParent(s, r)
    BY <1>6, <1>7, <2>1 DEF Hangs
  <2>3. \A k \in 1..Len(s) : t[off[i] + k] = s[k]
    BY <1>4, <2>1
  <2>4. off[i] \in Nat /\ Len(s) \in Nat /\ r \in Nat /\ r >= 1 /\ r <= Len(s)
    BY <1>4, <2>1
  <2> QED
    BY <2>2, <2>3, <2>4, MovedAlong
<1>8. ASSUME NEW p \in 1..Len(t)
      PROVE  /\ \/ t[p].depth = d /\ \E i \in 1..m : t[p].ID = tops[i]
                \/ t[p].depth > d /\ UnderParent(t, p)
             /\ \E i \in 1..m : t[p].ID >= tops[i]
  <2>1. PICK i \in 1..m : \E r \in 1..Len(subs[i]) : p = off[i] + r /\ t[p] = subs[i][r]
    BY <1>5
  <2>2. PICK r \in 1..Len(subs[i]) : p = off[i] + r /\ t[p] = subs[i][r]
    BY <2>1
  <2>3. t[p].ID >= tops[i]
    BY <1>6, <2>2 DEF Hangs
  <2>4. CASE r = 1
    BY <1>6, <2>2, <2>3, <2>4 DEF Hangs
  <2>5. CASE r # 1
    <3>1. t[p].depth > d
      BY <1>6, <2>2, <2>5 DEF Hangs
    <3>2. UnderParent(t, p)
      BY <1>7, <2>2, <2>5
    <3> QED
      BY <2>3, <3>1, <3>2
  <2> QED
    BY <2>4, <2>5
<1>9. ASSUME NEW i \in 1..m PROVE \E p \in 1..Len(t) : t[p].ID = tops[i] /\ p = off[i] + 1
  <2>1. subs[i] \in Seq(Rows) /\ Len(subs[i]) >= 1 /\ subs[i][1].ID = tops[i]
    BY <1>1, <1>6 DEF Hangs
  <2>2. 1 \in 1..Len(subs[i])
    BY <2>1
  <2> QED
    BY <1>4, <2>1, <2>2
<1>10. ASSUME m > 0 PROVE Len(t) >= 1 /\ t[1].ID = tops[1]
  <2>1. 1 \in 1..m /\ off[1] = 0
    BY <1>4, <1>10
  <2>2. PICK p \in 1..Len(t) : t[p].ID = tops[1] /\ p = 0 + 1
    BY <1>9, <2>1
  <2> QED
    BY <1>2, <2>2
<1>11. ASSUME NEW p \in 1..Len(t), NEW q \in 1..Len(t), t[p].ID = t[q].ID PROVE p = q
  <2>1. PICK i \in 1..m : \E r \in 1..Len(subs[i]) : p = off[i] + r /\ t[p] = subs[i][r]
    BY <1>5
  <2>2. PICK r \in 1..Len(subs[i]) : p = off[i] + r /\ t[p] = subs[i][r]
    BY <2>1
  <2>3. PICK j \in 1..m : \E k \in 1..Len(subs[j]) : q = off[j] + k /\ t[q] = subs[j][k]
    BY <1>5
  <2>4. PICK k \in 1..Len(subs[j]) : q = off[j] + k /\ t[q] = subs[j][k]
    BY <2>3
  <2>5. subs[i][r].ID = subs[j][k].ID
    BY <1>11, <2>2, <2>4
  <2>6. i = j
    BY <2>5, Disjoint
  <2>7. r = k
    BY <1>6, <2>5, <2>6 DEF Hangs, Once
  <2> QED
    BY <2>2, <2>4, <2>6, <2>7
<1>12. ASSUME NEW p \in 1..Len(t), NEW c \in Children(t[p].ID) PROVE \E q \in 1..Len(t) : t[q].ID = c
  <2>1. PICK i \in 1..m : \E r \in 1..Len(subs[i]) : p = off[i] + r /\ t[p] = subs[i][r]
    BY <1>5
  <2>2. PICK r \in 1..Len(subs[i]) : p = off[i] + r /\ t[p] = subs[i][r]
    BY <2>1
  <2>3. WithChildren(subs[i]) /\ c \in Children(subs[i][r].ID)
    BY <1>6, <1>12, <2>2 DEF Hangs
  <2>4. PICK k \in 1..Len(subs[i]) : subs[i][k].ID = c
    BY <2>3 DEF WithChildren
  <2> QED
    BY <1>4, <2>4
<1>13. Once(t) /\ WithChildren(t)
  BY <1>11, <1>12 DEF Once, WithChildren
<1>14. Shows(t, tops, m, d)
  BY <1>8, <1>9, <1>10, <1>13 DEF Shows
<1> QED
  BY <1>2, <1>14

\* One level down it is the same tree.
LEMMA DeeperHangs ==
    ASSUME NEW s, NEW f, Hangs(s, f, 0) PROVE Hangs(Deeper(s), f, 1)
<1>1. /\ s \in Seq(Rows) /\ Len(s) >= 1 /\ s[1].ID = f /\ s[1].depth = 0
      /\ \A j \in 1..Len(s) : /\ s[j].ID >= f /\ s[j].depth >= 0
                              /\ j # 1 => s[j].depth > 0 /\ UnderParent(s, j)
      /\ Once(s) /\ WithChildren(s)
  BY DEF Hangs
<1>2. PICK n \in Nat : n = Len(s) /\ DOMAIN s = 1..n
  BY <1>1
<1>3. \A j \in 1..n : s[j] \in Rows
  BY <1>1, <1>2
<1>4. PICK t : t = Deeper(s)
  OBVIOUS
<1>5. DOMAIN t = 1..n /\ \A j \in 1..n : t[j] = [s[j] EXCEPT !.depth = @ + 1]
  BY <1>2, <1>4 DEF Deeper
<1>6. \A j \in 1..n : /\ s[j].depth \in Nat /\ t[j] \in Rows
                      /\ t[j].ID = s[j].ID /\ t[j].depth = s[j].depth + 1
  BY <1>3, <1>5 DEF Rows
<1>7. t \in Seq(Rows) /\ Len(t) = n
  <2>1. t = [j \in 1..n |-> t[j]]
    BY <1>4, <1>2 DEF Deeper
  <2> QED
    BY <1>6, <2>1
<1>8. ASSUME NEW j \in 1..n, j # 1 PROVE t[j].depth > 1 /\ UnderParent(t, j)
  <2>1. UnderParent(s, j) /\ s[j].depth > 0
    BY <1>1, <1>2, <1>8
  <2>2. PICK i \in 1..(j - 1) : /\ s[i].ID = live[s[j].ID].ParentID
                                /\ s[j].depth = s[i].depth + 1
                                /\ \A k \in (i + 1)..(j - 1) : s[k].depth > s[i].depth
    BY <2>1 DEF UnderParent
  <2>3. i \in 1..n /\ \A k \in (i + 1)..(j - 1) : k \in 1..n
    BY <2>2
  <2>4. \A k \in (i + 1)..(j - 1) : t[k].depth > t[i].depth
    BY <1>6, <2>2, <2>3
  <2>5. t[j].depth = t[i].depth + 1 /\ t[i].ID = live[t[j].ID].ParentID
    BY <1>6, <2>2, <2>3
  <2>6. t[j].depth > 1
    BY <1>6, <2>1
  <2>7. live[t[j].ID].ParentID \in DOMAIN live
    BY <1>6, <2>1 DEF UnderParent
  <2> QED
    BY <2>2, <2>4, <2>5, <2>6, <2>7 DEF UnderParent
<1>9. \A j \in 1..n : t[j].ID >= f /\ t[j].depth >= 1
  BY <1>1, <1>2, <1>6
<1>10. Once(t) /\ WithChildren(t)
  <2>1. Once(t)
    BY <1>1, <1>2, <1>6, <1>7 DEF Once
  <2>2. WithChildren(t)
    BY <1>1, <1>2, <1>6, <1>7 DEF WithChildren
  <2> QED
    BY <2>1, <2>2
<1>11. n >= 1 /\ t[1].ID = f /\ t[1].depth = 1
  <2>1. 1 \in 1..n
    BY <1>1, <1>2
  <2> QED
    BY <1>1, <1>6, <2>1
<1> QED
  BY <1>4, <1>7, <1>8, <1>9, <1>10, <1>11 DEF Hangs

\* One before a list.
LEMMA Headed ==
    ASSUME NEW T, NEW x \in T, NEW t \in Seq(T)
    PROVE  /\ <<x>> \o t \in Seq(T) /\ Len(<<x>> \o t) = 1 + Len(t)
           /\ (<<x>> \o t)[1] = x
           /\ \A r \in 1..Len(t) : (<<x>> \o t)[1 + r] = t[r]
  OBVIOUS

\* A fiber before what its children show, one deeper.
LEMMA HangsOver ==
    ASSUME Held, NEW f \in DOMAIN live, NEW n \in Nat, NEW kids, SortedFrom(kids, Children(f), n),
           NEW t, Shows(t, kids, n, 1), \A i \in 1..Len(t) : t[i].ID > f
    PROVE  Hangs(<<[ID |-> f, depth |-> 0]>> \o t, f, 0)
<1>1. /\ t \in Seq(Rows) /\ Once(t) /\ WithChildren(t)
      /\ \A j \in 1..Len(t) : \/ t[j].depth = 1 /\ \E i \in 1..n : t[j].ID = kids[i]
                              \/ t[j].depth > 1 /\ UnderParent(t, j)
      /\ \A i \in 1..n : \E j \in 1..Len(t) : t[j].ID = kids[i]
  BY DEF Shows
<1>2. PICK m \in Nat : m = Len(t)
  BY <1>1
<1>3. PICK row \in Rows : row = [ID |-> f, depth |-> 0]
  BY DEF Rows
<1>4. PICK s : s = <<row>> \o t
  OBVIOUS
<1>5. /\ s \in Seq(Rows) /\ Len(s) = 1 + m /\ s[1] = row
      /\ \A r \in 1..m : s[1 + r] = t[r]
  <2>1. <<row>> \o t \in Seq(Rows)
    BY <1>1, Headed
  <2>2. Len(<<row>> \o t) = 1 + Len(t)
    BY <1>1, Headed
  <2>3. (<<row>> \o t)[1] = row
    BY <1>1, Headed
  <2>4. \A r \in 1..Len(t) : (<<row>> \o t)[1 + r] = t[r]
    BY <1>1, Headed
  <2> QED
    BY <1>2, <1>4, <2>1, <2>2, <2>3, <2>4
<1>6. ASSUME NEW j \in 1..(1 + m), j # 1 PROVE \E r \in 1..m : j = 1 + r /\ s[j] = t[r]
  <2>1. j - 1 \in 1..m /\ j = 1 + (j - 1)
    BY <1>6
  <2> QED
    BY <1>5, <2>1
<1>7. f \in Nat /\ \A r \in 1..m : /\ t[r].ID \in Nat /\ t[r].ID > f
                                   /\ t[r].depth \in Nat /\ t[r].depth >= 1
  <2>1. DOMAIN live \subseteq Nat
    BY DEF Held, IDs
  <2>2. ASSUME NEW r \in 1..m PROVE t[r].ID \in DOMAIN live /\ t[r].depth \in Nat
    <3>1. t[r] \in Rows
      BY <1>1, <1>2
    <3> QED
      BY <3>1 DEF Rows
  <2>3. \A r \in 1..m : t[r].depth >= 1
    BY <1>1, <1>2, <2>2
  <2> QED
    BY <1>2, <2>1, <2>2, <2>3
<1>8. ASSUME NEW r \in 1..m PROVE UnderParent(s, 1 + r)
  <2>1. CASE UnderParent(t, r)
    <3>1. r \in Nat /\ r >= 1 /\ r <= m /\ 1 \in Nat
      OBVIOUS
    <3> QED
      BY <1>5, <2>1, <3>1, MovedAlong
  <2>2. CASE ~UnderParent(t, r)
    <3>1. PICK i \in 1..n : t[r].ID = kids[i] /\ t[r].depth = 1
      BY <1>1, <1>2, <2>2
    <3>2. kids[i] \in Children(f)
      BY DEF SortedFrom
    <3>3. s[1 + r] = t[r] /\ live[t[r].ID].ParentID = f
      BY <1>5, <3>1, <3>2 DEF Children
    <3>4. 1 \in 1..((1 + r) - 1) /\ s[1].ID = f /\ s[1].depth = 0
      BY <1>3, <1>5
    <3>5. ASSUME NEW k \in (1 + 1)..((1 + r) - 1) PROVE s[k].depth > s[1].depth
      <4>1. k - 1 \in 1..m /\ 1 + (k - 1) = k
        OBVIOUS
      <4>2. s[k] = t[k - 1]
        BY <1>5, <4>1
      <4> QED
        BY <1>7, <3>4, <4>1, <4>2
    <3>6. s[1 + r].depth = s[1].depth + 1
      BY <3>1, <3>3, <3>4
    <3>7. PICK p : p = 1 + r
      OBVIOUS
    <3>8. UnderParent(s, p)
      BY <3>3, <3>4, <3>5, <3>6, <3>7 DEF UnderParent
    <3> QED
      BY <3>7, <3>8
  <2> QED
    BY <2>1, <2>2
<1>9. ASSUME NEW j \in 1..(1 + m)
      PROVE  /\ s[j].ID >= f /\ s[j].depth >= 0
             /\ j # 1 => s[j].depth > 0 /\ UnderParent(s, j)
  <2>1. CASE j = 1
    BY <1>3, <1>5, <1>7, <2>1
  <2>2. CASE j # 1
    <3>1. PICK r \in 1..m : j = 1 + r /\ s[j] = t[r]
      BY <1>6, <2>2
    <3>2. UnderParent(s, j)
      BY <1>8, <3>1
    <3> QED
      BY <1>7, <3>1, <3>2
  <2> QED
    BY <2>1, <2>2
<1>10. ASSUME NEW i \in 1..(1 + m), NEW j \in 1..(1 + m), s[i].ID = s[j].ID PROVE i = j
  <2>1. s[1].ID = f
    BY <1>3, <1>5
  <2>2. \A k \in 1..(1 + m) : k # 1 => s[k].ID # f
    BY <1>6, <1>7
  <2>3. CASE i = 1 \/ j = 1
    BY <1>10, <2>1, <2>2, <2>3
  <2>4. CASE i # 1 /\ j # 1
    <3>1. PICK p \in 1..m : i = 1 + p /\ s[i] = t[p]
      BY <1>6, <2>4
    <3>2. PICK q \in 1..m : j = 1 + q /\ s[j] = t[q]
      BY <1>6, <2>4
    <3>3. p = q
      BY <1>1, <1>2, <1>10, <3>1, <3>2 DEF Once
    <3> QED
      BY <3>1, <3>2, <3>3
  <2> QED
    BY <2>3, <2>4
<1>11. ASSUME NEW j \in 1..(1 + m), NEW c \in Children(s[j].ID) PROVE \E i \in 1..(1 + m) : s[i].ID = c
  <2>1. \E r \in 1..m : t[r].ID = c
    <3>1. CASE j = 1
      <4>1. c \in Children(f)
        BY <1>3, <1>5, <1>11, <3>1
      <4>2. PICK i \in 1..n : kids[i] = c
        BY <4>1 DEF SortedFrom
      <4> QED
        BY <1>1, <1>2, <4>2
    <3>2. CASE j # 1
      <4>1. PICK r \in 1..m : s[j] = t[r]
        BY <1>6, <3>2
      <4> QED
        BY <1>1, <1>2, <1>11, <4>1 DEF WithChildren
    <3> QED
      BY <3>1, <3>2
  <2>2. PICK r \in 1..m : t[r].ID = c
    BY <2>1
  <2>3. 1 + r \in 1..(1 + m) /\ s[1 + r] = t[r]
    BY <1>5
  <2> QED
    BY <2>2, <2>3
<1>12. Once(s) /\ WithChildren(s)
  BY <1>5, <1>10, <1>11 DEF Once, WithChildren
<1>13. Hangs(s, f, 0)
  <2>1. Len(s) >= 1 /\ s[1].ID = f /\ s[1].depth = 0
    BY <1>3, <1>5
  <2> QED
    BY <1>5, <1>9, <1>12, <2>1 DEF Hangs
<1> QED
  BY <1>3, <1>4, <1>13

\* What is read of a fiber is the fiber and all that hangs under it.
LEMMA SubtreeHangs == ASSUME Held PROVE \A f \in DOMAIN live : Hangs(subtree[f], f, 0)
<1> DEFINE Bad == {n \in 0..MaxFibers : \E f \in DOMAIN live : n = MaxFibers - f /\ ~Hangs(subtree[f], f, 0)}
<1>1. \A f \in DOMAIN live : f \in IDs /\ f \in Nat /\ MaxFibers - f \in 0..MaxFibers
  BY FibersAssumption DEF Held, IDs
<1> SUFFICES ASSUME Bad # {} PROVE FALSE
  BY <1>1
<1>2. PICK least \in Bad : \A n \in Bad : least <= n
  <2>1. Bad \subseteq Nat
    OBVIOUS
  <2> HIDE DEF Bad
  <2> QED
    BY <2>1, LeastIsThere
<1>3. PICK f \in DOMAIN live : least = MaxFibers - f /\ ~Hangs(subtree[f], f, 0)
  BY <1>2
<1>4. ASSUME NEW c \in Children(f) PROVE c \in DOMAIN live /\ c > f /\ Hangs(subtree[c], c, 0)
  <2>1. c \in DOMAIN live /\ c \in IDs /\ f < c
    BY <1>1, ChildrenAre
  <2>2. MaxFibers - c < least /\ MaxFibers - c \in 0..MaxFibers /\ least \in Nat
    BY <1>1, <1>2, <1>3, <2>1, FibersAssumption
  <2>3. MaxFibers - c \notin Bad
    BY <1>2, <2>2
  <2> QED
    BY <1>1, <2>1, <2>2, <2>3
<1>5. PICK kids : kids = sortOldestFirst(Children(f))
  OBVIOUS
<1>6. PICK n \in Nat : SortedFrom(kids, Children(f), n)
  BY <1>1, <1>3, <1>5, ChildrenAre, SortedIs
<1>7. kids \in [1..n -> Children(f)] /\ \A i, j \in 1..n : kids[i] = kids[j] => i = j
  BY <1>6 DEF SortedFrom
<1>8. PICK subs : subs = [i \in 1..n |-> Deeper(subtree[kids[i]])]
  OBVIOUS
<1>9. ASSUME NEW i \in 1..n PROVE Hangs(subs[i], kids[i], 1)
  <2>1. Hangs(subtree[kids[i]], kids[i], 0)
    BY <1>4, <1>7
  <2> QED
    BY <1>8, <2>1, DeeperHangs
<1>10. Apart(subs, kids, n, 1)
  <2>1. subs \in [1..n -> Seq(Rows)]
    <3>1. \A i \in 1..n : subs[i] \in Seq(Rows)
      BY <1>9 DEF Hangs
    <3> QED
      BY <1>8, <3>1
  <2>2. ASSUME NEW i \in 1..n, NEW j \in 1..n, NEW q \in 1..Len(subs[j])
        PROVE  live[kids[i]].ParentID # subs[j][q].ID
    <3>1. live[kids[i]].ParentID = f
      BY <1>7 DEF Children
    <3>2. subs[j][q].ID >= kids[j]
      BY <1>9 DEF Hangs
    <3>3. kids[j] \in Nat /\ kids[j] > f /\ f \in Nat
      BY <1>1, <1>4, <1>7
    <3> QED
      BY <3>1, <3>2, <3>3
  <2>3. kids \in [1..n -> DOMAIN live]
    BY <1>4, <1>7
  <2> QED
    BY <1>7, <1>9, <2>1, <2>2, <2>3 DEF Apart
<1>11. PICK t : t = FlattenSeq(subs)
  OBVIOUS
<1>12. Shows(t, kids, n, 1)
  BY <1>10, <1>11, ForestShows
<1>13. ASSUME NEW j \in 1..Len(t) PROVE t[j].ID > f
  <2>1. PICK i \in 1..n : t[j].ID >= kids[i]
    BY <1>12 DEF Shows
  <2>2. kids[i] \in Nat /\ kids[i] > f /\ f \in Nat
    BY <1>1, <1>4, <1>7
  <2>3. t[j].ID \in Nat
    <3>1. t[j] \in Rows
      BY <1>12 DEF Shows
    <3> QED
      BY <1>1, <3>1 DEF Rows
  <2> QED
    BY <2>1, <2>2, <2>3
<1>14. Hangs(<<[ID |-> f, depth |-> 0]>> \o t, f, 0)
  BY <1>6, <1>12, <1>13, HangsOver
<1>15. subtree[f] = <<[ID |-> f, depth |-> 0]>> \o t
  <2>1. subtree[f] = Below(subtree, f)
    BY <1>1, SubtreeIs
  <2>2. DOMAIN kids = 1..n
    BY <1>7
  <2> QED
    BY <1>5, <1>8, <1>11, <2>1, <2>2 DEF Below
<1> QED
  BY <1>3, <1>14, <1>15

\* What is read of the tree is what its roots show.
LEMMA TreeShows ==
    ASSUME Held
    PROVE  \E n \in Nat : \E tops : SortedFrom(tops, Roots, n) /\ Shows(Tree, tops, n, 0)
<1>1. PICK tops : tops = sortOldestFirst(Roots)
  OBVIOUS
<1>2. PICK n \in Nat : SortedFrom(tops, Roots, n)
  <2>1. Roots \in SUBSET DOMAIN live
    BY DEF Roots
  <2> QED
    BY <1>1, <2>1, SortedIs
<1>3. tops \in [1..n -> Roots] /\ \A i, j \in 1..n : tops[i] = tops[j] => i = j
  BY <1>2 DEF SortedFrom
<1>4. PICK subs : subs = [i \in 1..n |-> subtree[tops[i]]]
  OBVIOUS
<1>5. ASSUME NEW i \in 1..n
      PROVE  tops[i] \in DOMAIN live /\ ~IsChild(tops[i]) /\ Hangs(subs[i], tops[i], 0)
  <2>1. tops[i] \in Roots
    BY <1>3
  <2> QED
    BY <1>4, <2>1, SubtreeHangs DEF Roots
<1>6. Apart(subs, tops, n, 0)
  <2>1. \A i \in 1..n : subs[i] \in Seq(Rows)
    BY <1>5 DEF Hangs
  <2>2. subs \in [1..n -> Seq(Rows)]
    BY <1>4, <2>1
  <2>3. ASSUME NEW i \in 1..n, NEW j \in 1..n, NEW q \in 1..Len(subs[j])
        PROVE  live[tops[i]].ParentID # subs[j][q].ID
    <3>1. live[tops[i]].ParentID \notin DOMAIN live
      <4>1. tops[i] \in DOMAIN live /\ tops[i] \in Nat /\ ~IsChild(tops[i])
        BY <1>5 DEF Held, IDs
      <4>2. live[tops[i]].ParentID # tops[i]
        BY <4>1 DEF Held
      <4> QED
        BY <4>1, <4>2 DEF IsChild
    <3>2. subs[j][q] \in Rows
      BY <2>1
    <3> QED
      BY <3>1, <3>2 DEF Rows
  <2>4. tops \in [1..n -> DOMAIN live]
    BY <1>3, <1>5
  <2> QED
    BY <1>3, <1>5, <2>2, <2>3, <2>4 DEF Apart
<1>7. Tree = FlattenSeq(subs)
  <2>1. DOMAIN tops = 1..n
    BY <1>3
  <2> QED
    BY <1>1, <1>4, <2>1 DEF Tree
<1> QED
  BY <1>2, <1>6, <1>7, ForestShows

\* Everything held is in the tree: if its parent is, so is it.
LEMMA AllShown ==
    ASSUME Held, NEW n \in Nat, NEW tops, SortedFrom(tops, Roots, n), NEW t, Shows(t, tops, n, 0)
    PROVE  \A f \in DOMAIN live : \E j \in 1..Len(t) : t[j].ID = f
<1> DEFINE Bad == {f \in DOMAIN live : ~\E j \in 1..Len(t) : t[j].ID = f}
<1> SUFFICES ASSUME Bad # {} PROVE FALSE
  OBVIOUS
<1>1. PICK f \in Bad : \A g \in Bad : f <= g
  <2>1. Bad \subseteq Nat
    BY DEF Held, IDs
  <2> HIDE DEF Bad
  <2> QED
    BY <2>1, LeastIsThere
<1>2. IsChild(f)
  <2> SUFFICES ASSUME ~IsChild(f) PROVE FALSE
    OBVIOUS
  <2>1. f \in Roots
    BY <1>1 DEF Roots
  <2>2. PICK i \in 1..n : tops[i] = f
    BY <2>1 DEF SortedFrom
  <2> QED
    BY <1>1, <2>2 DEF Shows
<1>3. PICK p : p = live[f].ParentID /\ p \in DOMAIN live /\ p < f /\ p \in Nat /\ f \in Nat
  BY <1>1, <1>2 DEF IsChild, Held, IDs
<1>4. PICK j \in 1..Len(t) : t[j].ID = p
  BY <1>1, <1>3
<1>5. f \in Children(p)
  BY <1>1, <1>2, <1>3 DEF Children
<1>6. \E i \in 1..Len(t) : t[i].ID = f
  BY <1>4, <1>5 DEF Shows, WithChildren
<1> QED
  BY <1>1, <1>6

\* Whatever the fibers and their parents do, a reader's tree has each fiber held once,
\* under its parent while that is held too.
THEOREM EachListedOnce == Spec => []ListsEachOnce
<1>1. Init => AgeInv
  BY DEF Init, AgeInv
<1>2. Held => ListsEachOnce
  <2> SUFFICES ASSUME Held PROVE ListsEachOnce
    OBVIOUS
  <2>1. PICK n \in Nat : \E tops : SortedFrom(tops, Roots, n) /\ Shows(Tree, tops, n, 0)
    BY TreeShows
  <2>2. PICK tops : SortedFrom(tops, Roots, n) /\ Shows(Tree, tops, n, 0)
    BY <2>1
  <2>3. PICK t : t = Tree
    OBVIOUS
  <2>4. t \in Seq(Rows) /\ Once(t)
    BY <2>2, <2>3 DEF Shows
  <2>5. PICK m \in Nat : m = Len(t) /\ DOMAIN t = 1..m
    BY <2>4
  <2>6. \A j \in 1..m : t[j].ID \in DOMAIN live /\ t[j].depth \in Nat
    <3>1. \A j \in 1..m : t[j] \in Rows
      BY <2>4, <2>5
    <3> QED
      BY <3>1 DEF Rows
  <2>7. \A f \in DOMAIN live : \E j \in 1..m : t[j].ID = f
    BY <2>2, <2>3, <2>5, AllShown
  <2>8. {t[j].ID : j \in 1..m} = DOMAIN live
    BY <2>6, <2>7
  <2>9. m = Count
    <3>1. PICK at : at = [j \in 1..m |-> t[j].ID]
      OBVIOUS
    <3>2. at \in [1..m -> DOMAIN live]
      BY <2>6, <3>1
    <3>3. \A i, j \in 1..m : at[i] = at[j] => i = j
      BY <2>4, <2>5, <3>1 DEF Once
    <3>4. \A f \in DOMAIN live : \E j \in 1..m : at[j] = f
      BY <2>7, <3>1
    <3>5. at \in Surjection(1..m, DOMAIN live)
      BY <3>2, <3>4 DEF Surjection
    <3>6. at \in Injection(1..m, DOMAIN live)
      BY <3>2, <3>3 DEF Injection, IsInjective
    <3>7. IsFiniteSet(1..m) /\ Cardinality(1..m) = m
      BY FS_Interval
    <3>8. Cardinality(DOMAIN live) = m
      BY <3>5, <3>6, <3>7, FS_Surjection
    <3> QED
      BY <3>8 DEF Count
  <2>10. ASSUME NEW j \in 1..m
         PROVE  LET up == live[t[j].ID].ParentID
                IN  IF up \in DOMAIN live
                    THEN \E i \in 1..(j - 1) :
                           /\ t[i].ID = up
                           /\ t[j].depth = t[i].depth + 1
                           /\ \A k \in (i + 1)..(j - 1) : t[k].depth > t[i].depth
                    ELSE t[j].depth = 0
    <3>1. CASE live[t[j].ID].ParentID \in DOMAIN live
      <4>1. t[j].ID \notin Roots
        <5>1. live[t[j].ID].ParentID # t[j].ID
          BY <2>6, <3>1 DEF Held, IDs
        <5> QED
          BY <3>1, <5>1 DEF Roots, IsChild
      <4>2. ~\E i \in 1..n : t[j].ID = tops[i]
        BY <2>2, <4>1 DEF SortedFrom
      <4>3. UnderParent(t, j)
        BY <2>2, <2>3, <2>5, <4>2 DEF Shows
      <4> QED
        BY <3>1, <4>3 DEF UnderParent
    <3>2. CASE live[t[j].ID].ParentID \notin DOMAIN live
      <4>1. ~UnderParent(t, j)
        BY <3>2 DEF UnderParent
      <4>2. t[j].depth = 0
        BY <2>2, <2>3, <2>5, <4>1 DEF Shows
      <4> QED
        BY <3>2, <4>2
    <3> QED
      BY <3>1, <3>2
  <2> QED
    BY <2>3, <2>5, <2>8, <2>9, <2>10 DEF ListsEachOnce
<1> QED
  BY <1>1, <1>2, InitHolds, StepKeeps, AgeStep, BoundedInit, BoundedStep, HeldIs, PTL DEF Spec

\* And the first line of it is the fiber that has been running longest.
THEOREM LongestIsFirst == Spec => []LongestRunningFirst
<1>1. Init => AgeInv
  BY DEF Init, AgeInv
<1>2. Held /\ OldestIsARoot => LongestRunningFirst
  <2> SUFFICES ASSUME Held, OldestIsARoot, Tree # <<>>, NEW f \in DOMAIN live
               PROVE  live[Tree[1].ID].StartTime <= live[f].StartTime
    BY DEF LongestRunningFirst
  <2>1. PICK n \in Nat : \E tops : SortedFrom(tops, Roots, n) /\ Shows(Tree, tops, n, 0)
    BY TreeShows
  <2>2. PICK tops : SortedFrom(tops, Roots, n) /\ Shows(Tree, tops, n, 0)
    BY <2>1
  <2>3. PICK r \in Roots : \A g \in DOMAIN live : live[r].StartTime <= live[g].StartTime
    BY DEF OldestIsARoot
  <2>4. PICK i \in 1..n : tops[i] = r
    BY <2>2 DEF SortedFrom
  <2>5. Tree[1].ID = tops[1] /\ 1 \in 1..n
    BY <2>2, <2>4 DEF Shows
  <2>6. tops[1] \in DOMAIN live /\ r \in DOMAIN live
    BY <2>2, <2>5 DEF SortedFrom, Roots
  <2>7. live[tops[1]].StartTime <= live[r].StartTime
    <3>1. CASE i = 1
      BY <2>4, <2>6, <3>1 DEF Held
    <3>2. CASE i # 1
      <4>1. 1 < i
        BY <3>2
      <4> QED
        BY <2>2, <2>4, <2>5, <4>1 DEF SortedFrom
    <3> QED
      BY <3>1, <3>2
  <2>8. /\ live[tops[1]].StartTime \in Nat /\ live[r].StartTime \in Nat
        /\ live[f].StartTime \in Nat /\ live[r].StartTime <= live[f].StartTime
    BY <2>3, <2>6 DEF Held
  <2> QED
    BY <2>5, <2>7, <2>8
<1> QED
  BY <1>1, <1>2, InitHolds, StepKeeps, AgeStep, BoundedInit, BoundedStep, HeldIs, OldestAtTheTop, PTL DEF Spec

==============================================================================
