----------------------------- MODULE WatchProofs -----------------------------
(* Theorems about Watch, for every set of emitters and programs, and every   *)
(* size of the queue and of the window.  What the Buffer does was proved of  *)
(* its own module, and is taken from there.                                  *)
EXTENDS Watch, FiniteSetTheorems, WellFoundedInduction, TLAPS

Of == INSTANCE BufferProofs
          WITH Fibers <- Emitters, Owners <- {Main}, Capacity <- QueueRoom,
               Overflows <- {"DropOldest"}, MaxEvents <- Longest

InFront(f) == at[f] \in {1, 2, 3}

\* The events that have come out of the Buffer.
Handed == Range(delivered) \cup inlined

\* The events the trackers have been given: those emitted, but for one that its
\* fiber has yet to hand to the first of them.
Told == {item \in Emitters \X Nat : /\ item[2] \in 1..sent[item[1]]
                                    /\ at[item[1]] = 1 => item[2] # sent[item[1]]}

\* A fiber's walk goes with its calls of the Buffer: an event in front of it has
\* been emitted and has not been counted by the Buffer yet.
WalkInv == /\ script \in Scripts
           /\ at \in [Emitters -> 1..4]
           /\ inner \in [Deliverers -> {1, 2}]
           /\ sent \in [Emitters -> Nat]
           /\ \A f \in Emitters :
                /\ sent[f] <= Len(script[f])
                /\ InFront(f) => sent[f] > 0 /\ emitted[f] = sent[f] - 1
                /\ ~InFront(f) => emitted[f] = sent[f]

\* The span tracker knows exactly the events it was given.
HeldInv == DOMAIN open = Started(Told) \ Ended(Told)

IInv == WalkInv /\ Of!OrderInv /\ HeldInv

-----------------------------------------------------------------------------
(* Finite sets and sums of numbers.                                          *)

\* What holds of the empty set, and of every set if it holds of the sets that have one
\* member less, holds of every subset of a finite set.
LEMMA SubsetInduction ==
    ASSUME NEW S, IsFiniteSet(S), NEW Good, {} \in Good,
           \A T \in SUBSET S : T # {} /\ (\A x \in T : T \ {x} \in Good) => T \in Good
    PROVE  SUBSET S \subseteq Good
<1> DEFINE Bad == {T \in SUBSET S : T \notin Good}
           F == FiniteSubsetsOf(S)
           R == StrictSubsetOrdering(S)
<1> SUFFICES ASSUME Bad # {} PROVE FALSE
  OBVIOUS
<1>1. Bad \subseteq F
  BY FS_Subset DEF FiniteSubsetsOf
<1>2. IsWellFoundedOn(R, F)
  BY FS_StrictSubsetOrderingWellFounded
<1>3. PICK T \in Bad : \A U \in Bad : ~(<<U, T>> \in R)
  <2> HIDE DEF Bad, F, R
  <2> QED
    BY <1>1, <1>2, WFMin
<1>4. ASSUME NEW x \in T PROVE T \ {x} \in Good
  <2>1. PICK U : U = T \ {x}
    OBVIOUS
  <2>2. <<U, T>> \in R
    BY <2>1 DEF StrictSubsetOrdering
  <2>3. U \notin Bad
    BY <1>3, <2>2
  <2> QED
    BY <2>1, <2>3
<1>5. T \in SUBSET S /\ T \notin Good
  OBVIOUS
<1> QED
  BY <1>4, <1>5

Sum(g, S) == MapThenSumSet(LAMBDA x : g[x], S)

One(s) == CHOOSE x \in s : TRUE
Adds(g, h, s) == h[s] = IF s = {} THEN 0 ELSE g[One(s)] + h[s \ {One(s)}]
IsSum(g, S, h) == h = [s \in SUBSET S |-> IF s = {} THEN 0 ELSE g[One(s)] + h[s \ {One(s)}]]

\* There is a function that adds up a finite set, one member after another.
LEMMA SumIsThere ==
    ASSUME NEW S, IsFiniteSet(S), NEW g PROVE \E h : IsSum(g, S, h)
<1> DEFINE Upto(h, n) == \A s \in SUBSET S : Cardinality(s) <= n => Adds(g, h, s)
           Good == {T \in SUBSET S : \E h : h = [s \in SUBSET S |-> h[s]] /\ Upto(h, Cardinality(T))}
<1>1. \A s \in SUBSET S : IsFiniteSet(s) /\ Cardinality(s) \in Nat
  BY FS_Subset, FS_CardinalityType
<1>2. \A s \in SUBSET S : s # {} =>
        /\ One(s) \in s /\ s \ {One(s)} \in SUBSET S
        /\ Cardinality(s \ {One(s)}) = Cardinality(s) - 1
  BY <1>1, FS_RemoveElement DEF One
<1>3. \A s \in SUBSET S : Cardinality(s) = 0 <=> s = {}
  BY <1>1, FS_EmptySet
<1>4. {} \in Good
  <2> DEFINE h == [s \in SUBSET S |-> 0]
  <2>1. h = [s \in SUBSET S |-> h[s]] /\ Cardinality({}) = 0
    BY FS_EmptySet
  <2>2. Upto(h, 0)
    BY <1>1, <1>3 DEF Adds
  <2> QED
    BY <2>1, <2>2
<1>5. ASSUME NEW T \in SUBSET S, NEW x \in T, T \ {x} \in Good PROVE T \in Good
  <2>1. PICK n \in Nat : n = Cardinality(T \ {x}) /\ Cardinality(T) = n + 1
    BY <1>1, FS_RemoveElement
  <2>2. PICK h : h = [s \in SUBSET S |-> h[s]] /\ Upto(h, n)
    BY <1>5, <2>1
  <2> DEFINE k == [s \in SUBSET S |-> IF Cardinality(s) <= n THEN h[s]
                                      ELSE g[One(s)] + h[s \ {One(s)}]]
  <2>3. Upto(k, n + 1)
    <3> SUFFICES ASSUME NEW s \in SUBSET S, Cardinality(s) <= n + 1 PROVE Adds(g, k, s)
      OBVIOUS
    <3>1. CASE s = {}
      <4>1. Cardinality(s) = 0 /\ 0 <= n
        BY <1>3, <2>1, <3>1
      <4>2. k[s] = h[s] /\ h[s] = 0
        BY <2>2, <3>1, <4>1 DEF Adds
      <4> QED
        BY <3>1, <4>2 DEF Adds
    <3>2. CASE s # {}
      <4>1. /\ s \ {One(s)} \in SUBSET S /\ Cardinality(s \ {One(s)}) = Cardinality(s) - 1
            /\ Cardinality(s) \in Nat
        BY <1>1, <1>2, <3>2
      <4>2. k[s \ {One(s)}] = h[s \ {One(s)}]
        BY <2>1, <4>1
      <4>3. k[s] = g[One(s)] + h[s \ {One(s)}]
        BY <2>2, <3>2, <4>1 DEF Adds
      <4> QED
        BY <3>2, <4>2, <4>3 DEF Adds
    <3> QED
      BY <3>1, <3>2
  <2>4. k = [s \in SUBSET S |-> k[s]]
    OBVIOUS
  <2> QED
    BY <2>1, <2>3, <2>4
<1>6. S \in Good
  <2>1. \A T \in SUBSET S : T # {} /\ (\A x \in T : T \ {x} \in Good) => T \in Good
    <3> SUFFICES ASSUME NEW T \in SUBSET S, NEW x \in T, T \ {x} \in Good PROVE T \in Good
      OBVIOUS
    <3> HIDE DEF Good
    <3> QED
      BY <1>5
  <2> HIDE DEF Good
  <2>2. SUBSET S \subseteq Good
    BY <1>4, <2>1, SubsetInduction
  <2> QED
    BY <2>2
<1>7. PICK h : h = [s \in SUBSET S |-> h[s]] /\ Upto(h, Cardinality(S))
  BY <1>6
<1>8. \A s \in SUBSET S : Cardinality(s) <= Cardinality(S)
  BY FS_Subset
<1>9. \A s \in SUBSET S : Adds(g, h, s)
  BY <1>7, <1>8
<1> QED
  BY <1>7, <1>9 DEF IsSum, Adds

Parts(g, S, h) == /\ h[{}] = 0
                  /\ \A T \in SUBSET S : T # {} => One(T) \in T /\ h[T] = g[One(T)] + h[T \ {One(T)}]

\* The sum of a set that has members is that of one and that of the others.
LEMMA SumIs ==
    ASSUME NEW S, IsFiniteSet(S), NEW g
    PROVE  \E h : Parts(g, S, h) /\ Sum(g, S) = h[S]
<1>1. Sum(g, S) = (CHOOSE h : IsSum(g, S, h))[S]
  BY DEF Sum, MapThenSumSet, MapThenFoldSet, IsSum, One
<1>2. PICK h : IsSum(g, S, h) /\ Sum(g, S) = h[S]
  BY <1>1, SumIsThere
<1>3. h[{}] = 0
  BY <1>2 DEF IsSum
<1>4. ASSUME NEW T \in SUBSET S, T # {} PROVE One(T) \in T /\ h[T] = g[One(T)] + h[T \ {One(T)}]
  BY <1>2, <1>4 DEF IsSum, One
<1> QED
  BY <1>2, <1>3, <1>4 DEF Parts

\* A sum of natural numbers is one, and a sum of zeros zero.
LEMMA SumType ==
    ASSUME NEW S, IsFiniteSet(S), NEW g \in [S -> Nat]
    PROVE  Sum(g, S) \in Nat /\ ((\A x \in S : g[x] = 0) => Sum(g, S) = 0)
<1>1. PICK h : Parts(g, S, h) /\ Sum(g, S) = h[S]
  BY SumIs
<1> USE DEF Parts
<1> DEFINE Good == {T \in SUBSET S : h[T] \in Nat /\ ((\A x \in S : g[x] = 0) => h[T] = 0)}
<1>2. {} \in Good
  BY <1>1
<1>3. ASSUME NEW T \in SUBSET S, T # {}, \A x \in T : T \ {x} \in Good PROVE T \in Good
  <2>1. PICK x \in T : h[T] = g[x] + h[T \ {x}]
    BY <1>1, <1>3
  <2>2. h[T \ {x}] \in Nat /\ ((\A y \in S : g[y] = 0) => h[T \ {x}] = 0)
    BY <1>3
  <2> QED
    BY <2>1, <2>2
<1>4. SUBSET S \subseteq Good
  <2> HIDE DEF Good
  <2> QED
    BY <1>2, <1>3, SubsetInduction
<1> QED
  BY <1>1, <1>4

\* One more of one kind is one more in all.
LEMMA SumGrows ==
    ASSUME NEW S, IsFiniteSet(S), NEW g \in [S -> Nat], NEW k \in S
    PROVE  Sum([g EXCEPT ![k] = g[k] + 1], S) = Sum(g, S) + 1
<1>0. PICK f : f = [g EXCEPT ![k] = g[k] + 1]
  OBVIOUS
<1>1. PICK h : Parts(g, S, h) /\ Sum(g, S) = h[S]
  BY SumIs
<1>2. PICK m : Parts(f, S, m) /\ Sum(f, S) = m[S]
  BY SumIs
<1> USE DEF Parts
<1> DEFINE Good == {T \in SUBSET S : h[T] \in Nat /\ m[T] = h[T] + IF k \in T THEN 1 ELSE 0}
<1>3. {} \in Good
  BY <1>1, <1>2
<1>4. ASSUME NEW T \in SUBSET S, T # {}, \A x \in T : T \ {x} \in Good PROVE T \in Good
  <2>1. PICK x \in T : h[T] = g[x] + h[T \ {x}] /\ m[T] = f[x] + m[T \ {x}]
    BY <1>1, <1>2, <1>4
  <2>2. /\ h[T \ {x}] \in Nat /\ m[T \ {x}] = h[T \ {x}] + IF k \in T \ {x} THEN 1 ELSE 0
    BY <1>4
  <2>3. g[x] \in Nat /\ f[x] = g[x] + IF x = k THEN 1 ELSE 0
    BY <1>0
  <2>4. CASE x = k
    BY <2>1, <2>2, <2>3, <2>4
  <2>5. CASE x # k
    BY <2>1, <2>2, <2>3, <2>5
  <2> QED
    BY <2>4, <2>5
<1>5. SUBSET S \subseteq Good
  <2> HIDE DEF Good
  <2> QED
    BY <1>3, <1>4, SubsetInduction
<1> QED
  BY <1>0, <1>1, <1>2, <1>5

\* A finite set of naturals has a largest one.
LEMMA LargestIsThere ==
    ASSUME NEW S, IsFiniteSet(S), S \subseteq Nat, S # {}
    PROVE  Max(S) \in S /\ \A n \in S : n <= Max(S)
<1> DEFINE Good == {T \in SUBSET S : T # {} => \E m \in T : \A n \in T : m >= n}
<1>1. {} \in Good
  OBVIOUS
<1>2. ASSUME NEW T \in SUBSET S, T # {}, \A x \in T : T \ {x} \in Good PROVE T \in Good
  <2>1. PICK x \in T : x \in Nat
    BY <1>2
  <2>2. CASE T \ {x} = {}
    <3>1. \A n \in T : x >= n
      BY <2>1, <2>2
    <3> QED
      BY <3>1
  <2>3. CASE T \ {x} # {}
    <3>1. PICK m \in T : \A n \in T \ {x} : m >= n
      BY <1>2, <2>1, <2>3
    <3>2. m \in Nat /\ \A n \in T : n \in Nat /\ (n = x \/ n \in T \ {x})
      OBVIOUS
    <3>3. CASE m >= x
      BY <3>1, <3>2, <3>3
    <3>4. CASE x >= m
      <4>1. \A n \in T : x >= n
        BY <2>1, <3>1, <3>2, <3>4
      <4> QED
        BY <4>1
    <3> QED
      BY <2>1, <3>2, <3>3, <3>4
  <2> QED
    BY <2>2, <2>3
<1>3. SUBSET S \subseteq Good
  <2> HIDE DEF Good
  <2> QED
    BY <1>1, <1>2, SubsetInduction
<1>4. \E m \in S : \A n \in S : m >= n
  BY <1>3
<1> QED
  BY <1>4 DEF Max

-----------------------------------------------------------------------------
(* The programs.                                                             *)

\* No program makes an emitter emit more than Longest events.
LEMMA LongestBounds ==
    /\ Longest \in Nat
    /\ \A s \in Scripts, f \in Emitters : Len(s[f]) \in Nat /\ Len(s[f]) <= Longest
<1> DEFINE P == Scripts \X Emitters
           length == [p \in P |-> Len(p[1][p[2]])]
           L == {Len(c[1][c[2]]) : c \in P}
<1>1. \A s \in Scripts, f \in Emitters : Len(s[f]) \in Nat
  <2> SUFFICES ASSUME NEW s \in Scripts, NEW f \in Emitters PROVE Len(s[f]) \in Nat
    OBVIOUS
  <2>1. s[f] \in Seq(Range(s[f]))
    BY WatchAssumption DEF IsProgram
  <2> QED
    BY <2>1
<1>2. IsFiniteSet(P)
  BY WatchAssumption, FS_Product
<1>3. length \in Surjection(P, L)
  BY DEF Surjection
<1>4. IsFiniteSet(L)
  <2> HIDE DEF P, length, L
  <2> QED
    BY <1>2, <1>3, FS_Surjection
<1>5. L \subseteq Nat /\ L # {}
  <2>1. \A c \in P : c[1] \in Scripts /\ c[2] \in Emitters
    OBVIOUS
  <2>2. PICK s \in Scripts : <<s, Main>> \in P
    BY WatchAssumption
  <2> QED
    BY <1>1, <2>1, <2>2
<1>6. Longest = Max(L)
  BY DEF Longest
<1>7. Max(L) \in L /\ \A n \in L : n <= Max(L)
  <2> HIDE DEF L
  <2> QED
    BY <1>4, <1>5, LargestIsThere
<1>8. \A s \in Scripts, f \in Emitters : Len(s[f]) \in L
  <2> SUFFICES ASSUME NEW s \in Scripts, NEW f \in Emitters PROVE Len(s[f]) \in L
    OBVIOUS
  <2>1. <<s, f>> \in P
    OBVIOUS
  <2> QED
    BY <2>1
<1> HIDE DEF L
<1> QED
  BY <1>1, <1>5, <1>6, <1>7, <1>8

\* The Buffer in the assembly is one of those the theorems about Buffer are about.
LEMMA BufferIsOne == Of!BufferAssumption
<1>1. IsFiniteSet(Emitters) /\ QueueRoom \in Nat \ {0} /\ Longest \in Nat
  BY LongestBounds, WatchAssumption
<1>2. {"DropOldest"} \subseteq Of!Policies
  BY DEF Of!Policies
<1> QED
  BY <1>1, <1>2 DEF Of!BufferAssumption, Of!IsFiniteSet, IsFiniteSet

-----------------------------------------------------------------------------
(* A step of the assembly is a step of its Buffer or leaves it alone.        *)

\* What a fiber does inside the Buffer.
LEMMA FiberMovesBuffer ==
    ASSUME NEW f \in Emitters
    PROVE  /\ Queue!Observe(f) => Of!Observe(f)
           /\ Queue!Admit(f) => Of!Admit(f)
           /\ Queue!AdmitInline(f) => Of!AdmitInline(f)
           /\ Queue!InlineReturn(f) => Of!InlineReturn(f)
           /\ Queue!Offer(f) => Of!Offer(f)
<1> USE DEF Queue!Goto, Of!Goto, Queue!Item, Of!Item, Queue!WriterWaits, Of!WriterWaits, Queue!Full, Of!Full
<1>1. Queue!Observe(f) => Of!Observe(f)
  BY DEF Queue!Observe, Of!Observe
<1>2. Queue!Admit(f) => Of!Admit(f)
  BY DEF Queue!Admit, Of!Admit
<1>3. Queue!AdmitInline(f) => Of!AdmitInline(f)
  BY DEF Queue!AdmitInline, Of!AdmitInline
<1>4. Queue!InlineReturn(f) => Of!InlineReturn(f)
  BY DEF Queue!InlineReturn, Of!InlineReturn
<1>5. Queue!Send(f) => Of!Send(f)
  BY DEF Queue!Send, Of!Send
<1>6. Queue!MakeRoom(f) => Of!MakeRoom(f)
  BY DEF Queue!MakeRoom, Of!MakeRoom
<1>7. Queue!Evict(f) \/ Queue!EvictNothing(f) => Of!Evict(f) \/ Of!EvictNothing(f)
  BY DEF Queue!Evict, Of!Evict, Queue!EvictNothing, Of!EvictNothing
<1>8. Queue!CountEviction(f) => Of!CountEviction(f)
  BY DEF Queue!CountEviction, Of!CountEviction
<1>9. Queue!Refuse(f) => Of!Refuse(f)
  BY DEF Queue!Refuse, Of!Refuse, Queue!LastAttempt, Of!LastAttempt
<1> QED
  BY <1>1, <1>2, <1>3, <1>4, <1>5, <1>6, <1>7, <1>8, <1>9 DEF Queue!Offer, Of!Offer

\* What its worker does.
LEMMA WorkerMovesBuffer ==
    /\ Queue!WorkerReceive => Of!WorkerReceive
    /\ Queue!WorkerReturn => Of!WorkerReturn
    /\ Queue!WorkerExit => Of!WorkerExit
  BY DEF Queue!WorkerReceive, Of!WorkerReceive, Queue!WorkerReturn, Of!WorkerReturn, Queue!WorkerExit, Of!WorkerExit

\* What Close does.
LEMMA FlushMovesBuffer ==
    /\ Queue!FlushLock(Main) => Of!FlushLock(Main)
    /\ Queue!FlushStep(Main) => Of!FlushStep(Main)
    /\ Queue!FlushExpire(Main) => Of!FlushExpire(Main)
<1> USE DEF Queue!FlushGoto, Of!FlushGoto, Queue!WriterWaits, Of!WriterWaits
<1>1. Queue!FlushLock(Main) => Of!FlushLock(Main)
  BY DEF Queue!FlushLock, Of!FlushLock
<1>2. Queue!FlushStop(Main) => Of!FlushStop(Main)
  BY DEF Queue!FlushStop, Of!FlushStop, Queue!Reading, Of!Reading, Queue!Sending, Of!Sending
<1>3. Queue!FlushAgain(Main) => Of!FlushAgain(Main)
  BY DEF Queue!FlushAgain, Of!FlushAgain, Queue!Reading, Of!Reading, Queue!Sending, Of!Sending
<1>4. Queue!FlushDrained(Main) => Of!FlushDrained(Main)
  BY DEF Queue!FlushDrained, Of!FlushDrained
<1>5. Queue!FlushExpire(Main) => Of!FlushExpire(Main)
  BY DEF Queue!FlushExpire, Of!FlushExpire
<1> QED
  BY <1>1, <1>2, <1>3, <1>4, <1>5 DEF Queue!FlushStep, Of!FlushStep

\* Every step of the assembly is one of its Buffer's, or none.
LEMMA BufferMoves == [Next]_vars => [Of!Next]_(Of!vars)
<1> SUFFICES ASSUME [Next]_vars PROVE [Of!Next]_(Of!vars)
  OBVIOUS
<1>1. UNCHANGED buffer => UNCHANGED Of!vars
  BY DEF buffer, Of!vars
<1>2. ASSUME NEW f \in Emitters, Emit(f) \/ Hand(f) \/ Offer(f) PROVE [Of!Next]_(Of!vars)
  BY <1>1, <1>2, FiberMovesBuffer DEF Emit, Hand, Offer, Of!Next, Of!FiberStep
<1>3. ASSUME NEW a \in Deliverers, Deliver(a) PROVE [Of!Next]_(Of!vars)
  BY <1>1, <1>3, FiberMovesBuffer, WorkerMovesBuffer
  DEF Deliver, Deliverers, Of!Next, Of!FiberStep, Of!WorkerStep
<1>4. CASE Receive
  BY <1>4, WorkerMovesBuffer DEF Receive, Of!Next, Of!WorkerStep
<1>5. CASE Close \/ CloseStep \/ Deadline
  BY <1>5, FlushMovesBuffer DEF Close, CloseStep, Deadline, Of!Next
<1>6. CASE UNCHANGED vars
  BY <1>1, <1>6 DEF vars
<1> QED
  BY <1>2, <1>3, <1>4, <1>5, <1>6 DEF Next, Over

\* Only Observe makes the Buffer count an event.
LEMMA OnlyObserveCounts ==
    /\ \A f \in Emitters : Queue!Admit(f) \/ Queue!AdmitInline(f) \/ Queue!InlineReturn(f) \/ Queue!Offer(f)
                             => emitted' = emitted
    /\ Queue!WorkerReceive \/ Queue!WorkerReturn \/ Queue!WorkerExit => emitted' = emitted
    /\ Queue!FlushLock(Main) \/ Queue!FlushStep(Main) \/ Queue!FlushExpire(Main) => emitted' = emitted
<1>1. \A f \in Emitters : Queue!Admit(f) \/ Queue!AdmitInline(f) \/ Queue!InlineReturn(f) \/ Queue!Offer(f)
                            => emitted' = emitted
  BY DEF Queue!Admit, Queue!AdmitInline, Queue!InlineReturn, Queue!Offer, Queue!Send, Queue!MakeRoom,
         Queue!Evict, Queue!EvictNothing, Queue!CountEviction, Queue!Refuse
<1>2. Queue!WorkerReceive \/ Queue!WorkerReturn \/ Queue!WorkerExit => emitted' = emitted
  BY DEF Queue!WorkerReceive, Queue!WorkerReturn, Queue!WorkerExit
<1>3. Queue!FlushLock(Main) \/ Queue!FlushStep(Main) \/ Queue!FlushExpire(Main) => emitted' = emitted
  BY DEF Queue!FlushLock, Queue!FlushStep, Queue!FlushStop, Queue!FlushAgain, Queue!FlushDrained,
         Queue!FlushExpire
<1> QED
  BY <1>1, <1>2, <1>3

\* The layout spelled out.
LEMMA LayoutIs ==
    /\ DOMAIN layout.front = {1, 2, 3} /\ DOMAIN layout.behind = {1, 2}
    /\ Outside = 4 /\ Len(layout.behind) = 2
    /\ layout.front[1] = "spans" /\ layout.front[2] = "fibers" /\ layout.front[3] = "buffer"
    /\ layout.behind[1] = "collector" /\ layout.behind[2] = "window"
  BY DEF layout, Outside

-----------------------------------------------------------------------------
(* What a step means to the trackers.                                        *)

\* An event the trackers are given while the rest stays as it is.
LEMMA ToldGrows ==
    ASSUME WalkInv, NEW f \in Emitters, at[f] = 1, sent' = sent,
           NEW where \in {2, 3, 4}, at' = [at EXCEPT ![f] = where]
    PROVE  Told' = Told \cup {Item(f)}
<1>1. \A g \in Emitters : at'[g] = IF g = f THEN where ELSE at[g]
  BY DEF WalkInv
<1>2. Item(f) \in Emitters \X Nat /\ Item(f)[1] = f /\ Item(f)[2] = sent[f] /\ sent[f] \in 1..sent[f]
  BY DEF WalkInv, Item, InFront
<1>3. \A e \in Emitters \X Nat : e[1] \in Emitters /\ (e[1] = f /\ e[2] = sent[f] => e = Item(f))
  BY DEF Item
<1>4. \A e \in Emitters \X Nat : e \in Told' <=> e \in Told \cup {Item(f)}
  BY <1>1, <1>2, <1>3 DEF Told
<1> QED
  BY <1>2, <1>4 DEF Told

\* What the trackers were given is in the program.
LEMMA ToldIsScripted ==
    ASSUME WalkInv, NEW f \in Emitters, NEW n \in 1..sent[f]
    PROVE  n \in DOMAIN script[f] /\ IsProgram(script)
<1>1. script[f] \in Seq(Range(script[f])) /\ sent[f] \in Nat /\ sent[f] <= Len(script[f])
  BY WatchAssumption DEF IsProgram, WalkInv
<1>2. n \in DOMAIN script[f]
  BY <1>1
<1> QED
  BY <1>2, WatchAssumption DEF WalkInv

\* Nothing else the emitters do tells the trackers anything.
LEMMA ToldStays ==
    ASSUME WalkInv, NEW f \in Emitters,
           \/ UNCHANGED <<sent, at>>
           \/ Emit(f)
           \/ sent' = sent /\ at[f] \in {2, 3} /\ at' = [at EXCEPT ![f] = @ + 1]
    PROVE  Told' = Told
<1>1. CASE UNCHANGED <<sent, at>>
  BY <1>1 DEF Told
<1>2. CASE Emit(f)
  <2>1. /\ at[f] = 4 /\ at' = [at EXCEPT ![f] = 1] /\ sent' = [sent EXCEPT ![f] = sent[f] + 1]
    BY <1>2, LayoutIs DEF Emit
  <2>2. at \in [Emitters -> 1..4] /\ sent \in [Emitters -> Nat]
    BY DEF WalkInv
  <2>3. /\ at'[f] = 1 /\ sent'[f] = sent[f] + 1 /\ sent[f] \in Nat
        /\ \A g \in Emitters : g # f => at'[g] = at[g] /\ sent'[g] = sent[g]
    BY <2>1, <2>2
  <2>4. \A n \in Nat : n \in 1..(sent[f] + 1) /\ n # sent[f] + 1 <=> n \in 1..sent[f]
    BY <2>3
  <2>5. ASSUME NEW e \in Emitters \X Nat PROVE e \in Told' <=> e \in Told
    <3>1. CASE e[1] = f
      BY <2>1, <2>3, <2>4, <3>1 DEF Told
    <3>2. CASE e[1] # f
      BY <2>3, <3>2 DEF Told
    <3> QED
      BY <3>1, <3>2
  <2> QED
    BY <2>5 DEF Told
<1>3. CASE sent' = sent /\ at[f] \in {2, 3} /\ at' = [at EXCEPT ![f] = @ + 1]
  <2>1. \A g \in Emitters : at'[g] = 1 <=> at[g] = 1
    BY <1>3 DEF WalkInv
  <2>2. \A e \in Emitters \X Nat : e \in Told' <=> e \in Told
    BY <1>3, <2>1 DEF Told
  <2> QED
    BY <2>2 DEF Told
<1> QED
  BY <1>1, <1>2, <1>3

\* What one more event adds to the spans started and ended.
LEMMA OneMore ==
    ASSUME NEW items, NEW e
    PROVE  /\ Started(items \cup {e}) = Started(items) \cup (IF EventOf(e).Kind = "started"
                                                             THEN {EventOf(e).SpanID} ELSE {})
           /\ Ended(items \cup {e}) = Ended(items) \cup (IF EventOf(e).Kind = "ended"
                                                         THEN {EventOf(e).SpanID} ELSE {})
  BY DEF Started, Ended

\* The tracker's steps, on the set of spans it holds.
LEMMA TrackerHolds ==
    ASSUME NEW item, SpansObserve(item)
    PROVE  DOMAIN open' = IF EventOf(item).Kind = "started" THEN DOMAIN open \cup {EventOf(item).SpanID}
                          ELSE IF EventOf(item).Kind = "ended" THEN DOMAIN open \ {EventOf(item).SpanID}
                          ELSE DOMAIN open
<1>1. PICK id : id = EventOf(item).SpanID
  OBVIOUS
<1>2. CASE EventOf(item).Kind = "started"
  BY <1>1, <1>2 DEF SpansObserve, LiveSpans!begin, LiveSpans!With
<1>3. CASE EventOf(item).Kind = "ended"
  BY <1>1, <1>3 DEF SpansObserve, LiveSpans!finish, LiveSpans!Without, LiveSpans!tracker
<1>4. CASE EventOf(item).Kind \notin {"started", "ended"}
  BY <1>1, <1>4 DEF SpansObserve, spans
<1> QED
  BY <1>2, <1>3, <1>4

-----------------------------------------------------------------------------
(* The invariant.                                                            *)

\* In the beginning nobody has emitted.
LEMMA InitHolds == Init => IInv
<1> SUFFICES ASSUME Init PROVE IInv
  OBVIOUS
<1>1. Of!Init
  BY DEF Init, Queue!Init, Of!Init
<1>2. Of!OrderInv
  BY <1>1, BufferIsOne, Of!OrderInit
<1>3. /\ script \in Scripts /\ sent = [f \in Emitters |-> 0] /\ at = [f \in Emitters |-> 4]
      /\ inner = [a \in Deliverers |-> 1] /\ emitted = [f \in Emitters |-> 0] /\ DOMAIN open = {}
  BY LayoutIs DEF Init, Queue!Init
<1>4. WalkInv
  BY <1>3, LongestBounds DEF WalkInv, InFront
<1>5. Told = {}
  BY <1>3 DEF Told
<1>6. HeldInv
  BY <1>3, <1>5 DEF HeldInv, Started
<1> QED
  BY <1>2, <1>4, <1>6 DEF IInv

\* A fiber emits: its event is in front of the first tracker.
LEMMA EmitKeeps ==
    ASSUME WalkInv, HeldInv, NEW f \in Emitters, Emit(f) PROVE WalkInv' /\ HeldInv'
<1>1. /\ at[f] = 4 /\ at' = [at EXCEPT ![f] = 1] /\ sent' = [sent EXCEPT ![f] = sent[f] + 1]
      /\ sent[f] < Len(script[f]) /\ UNCHANGED <<script, inner, emitted, open>>
  BY LayoutIs DEF Emit, buffer, observed, spans
<1>2. at \in [Emitters -> 1..4] /\ sent \in [Emitters -> Nat] /\ Len(script[f]) \in Nat
  BY LongestBounds DEF WalkInv
<1>3. /\ at' \in [Emitters -> 1..4] /\ sent' \in [Emitters -> Nat]
      /\ at'[f] = 1 /\ sent'[f] = sent[f] + 1 /\ sent[f] \in Nat /\ emitted[f] = sent[f]
      /\ \A g \in Emitters : g # f => at'[g] = at[g] /\ sent'[g] = sent[g]
  BY <1>1, <1>2 DEF WalkInv, InFront
<1>4. WalkInv'
  BY <1>1, <1>2, <1>3 DEF WalkInv, InFront
<1>5. HeldInv'
  BY <1>1, ToldStays DEF HeldInv, Started, Ended, EventOf
<1> QED
  BY <1>4, <1>5

\* A fiber hands its event on: at the first observer the span tracker takes it.
LEMMA HandKeeps ==
    ASSUME WalkInv, HeldInv, emitted \in [Emitters -> 0..Longest], NEW f \in Emitters, Hand(f)
    PROVE  WalkInv' /\ HeldInv'
<1>1. /\ at[f] \in {1, 2, 3} /\ at' = [at EXCEPT ![f] = at[f] + 1]
      /\ UNCHANGED <<script, sent, inner>>
  BY LayoutIs DEF Hand
<1>2. /\ at' \in [Emitters -> 1..4] /\ at'[f] = at[f] + 1 /\ sent[f] \in Nat \ {0}
      /\ \A g \in Emitters : g # f => at'[g] = at[g]
      /\ emitted[f] = sent[f] - 1
  BY <1>1 DEF WalkInv, InFront
<1>3. CASE at[f] = 3
  <2>1. /\ emitted' = [emitted EXCEPT ![f] = emitted[f] + 1] /\ open' = open
    BY <1>3, LayoutIs DEF Hand, Queue!Observe, observed, spans
  <2>2. emitted'[f] = sent[f] /\ \A g \in Emitters : g # f => emitted'[g] = emitted[g]
    BY <1>2, <2>1
  <2>3. WalkInv'
    BY <1>1, <1>2, <1>3, <2>2 DEF WalkInv, InFront
  <2>4. HeldInv'
    BY <1>1, <1>3, <2>1, ToldStays DEF HeldInv, Started, Ended, EventOf
  <2> QED
    BY <2>3, <2>4
<1>4. CASE at[f] = 2
  <2>1. emitted' = emitted /\ open' = open
    BY <1>4, LayoutIs DEF Hand, Give, buffer, spans
  <2>2. WalkInv'
    BY <1>1, <1>2, <1>4, <2>1 DEF WalkInv, InFront
  <2>3. HeldInv'
    BY <1>1, <1>4, <2>1, ToldStays DEF HeldInv, Started, Ended, EventOf
  <2> QED
    BY <2>2, <2>3
<1>5. CASE at[f] = 1
  <2>1. emitted' = emitted /\ SpansObserve(Item(f))
    BY <1>5, LayoutIs DEF Hand, Give, buffer
  <2>2. WalkInv'
    BY <1>1, <1>2, <1>5, <2>1 DEF WalkInv, InFront
  <2>3. PICK told : told = Told
    OBVIOUS
  <2>4. PICK item : item = Item(f)
    OBVIOUS
  <2>5. PICK id : id = EventOf(item).SpanID
    OBVIOUS
  <2>6. Told' = told \cup {item}
    <3>1. at' = [at EXCEPT ![f] = 2]
      BY <1>1, <1>5
    <3> QED
      BY <1>1, <1>5, <2>3, <2>4, <3>1, ToldGrows
  <2>7. /\ Started(Told)' = Started(told \cup {item})
        /\ Ended(Told)' = Ended(told \cup {item})
    BY <1>1, <2>6 DEF Started, Ended, EventOf
  <2>8. DOMAIN open = Started(told) \ Ended(told)
    BY <2>3 DEF HeldInv
  <2>9. CASE EventOf(item).Kind = "started"
    <3>1. id \notin Ended(told)
      <4> SUFFICES ASSUME NEW e \in Told, EventOf(e).Kind = "ended", EventOf(e).SpanID = id
                   PROVE  FALSE
        BY <2>3 DEF Ended
      <4>1. /\ IsProgram(script) /\ item[1] = f /\ item[2] = sent[f]
            /\ e[1] \in Emitters /\ e[2] \in 1..sent[e[1]]
        BY <2>4, WatchAssumption DEF WalkInv, Told, Item
      <4>3. sent[f] \in DOMAIN script[f] /\ e[2] \in DOMAIN script[e[1]]
        <5>1. sent[f] \in 1..sent[f]
          BY <1>2
        <5> QED
          BY <4>1, <5>1, ToldIsScripted
      <4>4. f = e[1] /\ sent[f] < e[2]
        BY <2>5, <2>9, <4>1, <4>3 DEF IsProgram, EventOf
      <4> QED
        BY <1>2, <4>1, <4>4
    <3>2. DOMAIN open' = DOMAIN open \cup {id}
      BY <2>1, <2>4, <2>5, <2>9, TrackerHolds
    <3>3. Started(told \cup {item}) = Started(told) \cup {id} /\ Ended(told \cup {item}) = Ended(told)
      BY <2>5, <2>9, OneMore, ZenonT(40)
    <3> QED
      BY <2>2, <2>7, <2>8, <3>1, <3>2, <3>3 DEF HeldInv
  <2>10. CASE EventOf(item).Kind = "ended"
    <3>1. DOMAIN open' = DOMAIN open \ {id}
      BY <2>1, <2>4, <2>5, <2>10, TrackerHolds
    <3>2. Started(told \cup {item}) = Started(told) /\ Ended(told \cup {item}) = Ended(told) \cup {id}
      BY <2>5, <2>10, OneMore, ZenonT(40)
    <3> QED
      BY <2>2, <2>7, <2>8, <3>1, <3>2 DEF HeldInv
  <2>11. CASE EventOf(item).Kind \notin {"started", "ended"}
    <3>1. DOMAIN open' = DOMAIN open
      BY <2>1, <2>4, <2>11, TrackerHolds
    <3>2. Started(told \cup {item}) = Started(told) /\ Ended(told \cup {item}) = Ended(told)
      BY <2>11, OneMore, ZenonT(40)
    <3> QED
      BY <2>2, <2>7, <2>8, <3>1, <3>2 DEF HeldInv
  <2> QED
    BY <2>9, <2>10, <2>11
<1> QED
  BY <1>1, <1>3, <1>4, <1>5

\* Everything behind Hand leaves the trackers and the walks in front as they are.
LEMMA RestKeeps ==
    ASSUME WalkInv, HeldInv, UNCHANGED <<script, sent, at, emitted, open>>,
           inner' \in [Deliverers -> {1, 2}]
    PROVE  WalkInv' /\ HeldInv'
<1>1. WalkInv'
  BY DEF WalkInv, InFront
<1>2. Told' = Told
  BY WatchAssumption, ToldStays
<1> QED
  BY <1>1, <1>2 DEF HeldInv, Started, Ended, EventOf

\* Every step keeps the trackers up with the emitters.
LEMMA StepKeeps == IInv /\ [Next]_vars => IInv'
<1> SUFFICES ASSUME IInv, [Next]_vars PROVE IInv'
  OBVIOUS
<1> USE DEF IInv
<1>1. Of!OrderInv'
  BY BufferMoves, BufferIsOne, Of!OrderStep
<1>2. emitted \in [Emitters -> 0..Longest] /\ inner \in [Deliverers -> {1, 2}]
  BY DEF Of!OrderInv, Of!TypeOK, WalkInv
<1>3. ASSUME NEW f \in Emitters, Emit(f) PROVE IInv'
  BY <1>1, <1>3, EmitKeeps
<1>4. ASSUME NEW f \in Emitters, Hand(f) PROVE IInv'
  BY <1>1, <1>2, <1>4, HandKeeps
<1>5. ASSUME NEW f \in Emitters, Offer(f) PROVE IInv'
  <2>1. UNCHANGED <<script, sent, at, emitted, open, inner>>
    BY <1>5, OnlyObserveCounts DEF Offer, observed, spans
  <2> QED
    BY <1>1, <1>2, <2>1, RestKeeps
<1>6. ASSUME NEW a \in Deliverers, Deliver(a) PROVE IInv'
  <2>1. inner[a] \in {1, 2} /\ layout.behind[inner[a]] # "spans"
    BY <1>2, LayoutIs
  <2>2. UNCHANGED <<script, sent, at, open>>
    BY <1>6, <2>1 DEF Deliver, Give, spans
  <2>3. emitted' = emitted
    BY <1>6, OnlyObserveCounts DEF Deliver, Deliverers, buffer
  <2>4. inner' \in [Deliverers -> {1, 2}]
    BY <1>2, <1>6, <2>1, LayoutIs DEF Deliver
  <2> QED
    BY <1>1, <2>2, <2>3, <2>4, RestKeeps
<1>7. CASE Receive \/ Close \/ CloseStep \/ Deadline
  <2>1. UNCHANGED <<script, sent, at, emitted, open, inner>>
    BY <1>7, OnlyObserveCounts DEF Receive, Close, CloseStep, Deadline, observed, spans
  <2> QED
    BY <1>1, <1>2, <2>1, RestKeeps
<1>8. CASE UNCHANGED vars
  <2>1. UNCHANGED <<script, sent, at, emitted, open, inner>>
    BY <1>8 DEF vars, buffer, observed, spans
  <2> QED
    BY <1>1, <1>2, <2>1, RestKeeps
<1> QED
  BY <1>3, <1>4, <1>5, <1>6, <1>7, <1>8 DEF Next, Over

-----------------------------------------------------------------------------
\* What has reached the Buffer, or come out of it, the trackers have been given.
LEMMA QueuedIsTold == IInv => Queued \subseteq Told /\ Handed \subseteq Told
<1> SUFFICES ASSUME IInv PROVE Queued \subseteq Told /\ Handed \subseteq Told
  OBVIOUS
<1>1. /\ at \in [Emitters -> 1..4] /\ sent \in [Emitters -> Nat]
      /\ \A f \in Emitters : emitted[f] = IF at[f] \in {1, 2, 3} THEN sent[f] - 1 ELSE sent[f]
  BY DEF IInv, WalkInv, InFront
<1>2. Queued \subseteq Told
  <2> SUFFICES ASSUME NEW e \in Queued PROVE e \in Told
    OBVIOUS
  <2>1. e \in Emitters \X (1..Longest) /\ e[2] <= sent[e[1]] /\ e \notin Walking
    BY DEF Queued, Emitted
  <2>2. e[1] \in Emitters /\ e[2] \in Nat /\ e[2] >= 1 /\ e = <<e[1], e[2]>> /\ e \in Emitters \X Nat
    BY <2>1, LongestBounds
  <2>3. at[e[1]] = 1 => e[2] # sent[e[1]]
    BY <2>1, <2>2, LayoutIs DEF Walking, Item
  <2> QED
    BY <1>1, <2>1, <2>2, <2>3 DEF Told
<1>3. Handed \subseteq Told
  <2> SUFFICES ASSUME NEW e \in Range(delivered) \cup inlined PROVE e \in Told
    BY DEF Handed
  <2>1. e \in Of!Emitted
    BY DEF IInv, Of!OrderInv, Of!Placed, Of!Range, Range
  <2>2. e \in Emitters \X (1..Longest) /\ e[2] <= emitted[e[1]]
    BY <2>1 DEF Of!Emitted, Of!Event
  <2>3. e[1] \in Emitters /\ e[2] \in Nat /\ e[2] >= 1 /\ e \in Emitters \X Nat
    BY <2>2, LongestBounds
  <2>4. at[e[1]] \in 1..4 /\ sent[e[1]] \in Nat
        /\ emitted[e[1]] = IF at[e[1]] \in {1, 2, 3} THEN sent[e[1]] - 1 ELSE sent[e[1]]
    BY <1>1, <2>3
  <2> QED
    BY <2>2, <2>3, <2>4 DEF Told
<1> QED
  BY <1>2, <1>3

\* What the trackers have been given has been emitted.
LEMMA ToldIsEmitted == IInv => Told \subseteq Emitted
<1> SUFFICES ASSUME IInv, NEW e \in Told PROVE e \in Emitted
  OBVIOUS
<1>1. /\ e \in Emitters \X Nat /\ e[1] \in Emitters /\ e[2] \in 1..sent[e[1]]
      /\ sent[e[1]] \in Nat /\ sent[e[1]] <= Len(script[e[1]]) /\ script \in Scripts
  BY DEF Told, IInv, WalkInv
<1>2. e[2] \in 1..Longest /\ e[2] <= sent[e[1]]
  BY <1>1, LongestBounds
<1> QED
  BY <1>1, <1>2 DEF Emitted

\* The live trackers are never behind what came through the queue, for every program,
\* number of fibers and size of queue, and whatever is evicted, refused or overtaken.
THEOREM TrackersNeverLag == Spec => []LiveNeverLags
<1>1. IInv => LiveNeverLags
  <2> SUFFICES ASSUME IInv PROVE LiveNeverLags
    OBVIOUS
  <2>1. Held = Started(Told) \ Ended(Told)
    BY DEF IInv, HeldInv, Held
  <2>2. \A items : items \subseteq Told => /\ Started(items) \subseteq Started(Told)
                                         /\ Ended(items) \subseteq Ended(Told)
    BY DEF Started, Ended
  <2>3. Ended(Told) \subseteq Ended(Emitted)
    BY ToldIsEmitted DEF Ended
  <2>4. Passed \subseteq Handed
    BY DEF Passed, Handed
  <2> QED
    BY <2>1, <2>2, <2>3, <2>4, QueuedIsTold DEF LiveNeverLags
<1> QED
  BY <1>1, InitHolds, StepKeeps, PTL DEF Spec

-----------------------------------------------------------------------------
(* What is behind the queue: who is delivering which event.                  *)

\* Who is delivering, and what.
Busy == {a \in Deliverers : Delivering(a)}
Hands == [a \in Busy |-> InHandOf(a)]

\* Nobody delivers what another one delivers, and all of it came out of the Buffer; a
\* deliverer is past the aggregate only while it has an event.
HandsInv == /\ \A a, b \in Busy : Hands[a] = Hands[b] => a = b
            /\ \A a \in Busy : Hands[a] \in Handed
            /\ \A a \in Deliverers : inner[a] = 2 => a \in Busy

\* Somebody takes an event, and lets it go.
Takes(a, e) == /\ a \in Deliverers \ Busy /\ e \notin Handed
               /\ Handed' = Handed \cup {e} /\ Busy' = Busy \cup {a}
               /\ Hands'[a] = e /\ \A b \in Busy : Hands'[b] = Hands[b]
Returns(a) == /\ a \in Busy /\ Handed' = Handed /\ Busy' = Busy \ {a}
              /\ \A b \in Busy \ {a} : Hands'[b] = Hands[b]
HandsStay == Handed' = Handed /\ Busy' = Busy /\ Hands' = Hands

\* A fiber that goes on inside the Buffer, without the event being delivered.
LEMMA OfferStays ==
    ASSUME Of!TypeOK, NEW f \in Emitters, Queue!Observe(f) \/ Queue!Admit(f) \/ Queue!Offer(f)
    PROVE  HandsStay
<1>1. /\ pc \in [Emitters -> {"idle", "entering", "inline"} \cup Of!Sending]
      /\ emitted \in [Emitters -> 0..Longest]
  BY DEF Of!TypeOK
<1>2. PICK where \in {"entering", "offering", "idle", "evicting", "counting", "retrying"} :
        pc' = [pc EXCEPT ![f] = where]
  BY DEF Queue!Observe, Queue!Admit, Queue!Offer, Queue!Send, Queue!MakeRoom, Queue!Evict,
         Queue!EvictNothing, Queue!CountEviction, Queue!Refuse, Queue!Goto
<1>3. /\ pc[f] # "inline" /\ UNCHANGED <<worker, delivered, inlined>>
      /\ emitted' = emitted \/ emitted' = [emitted EXCEPT ![f] = emitted[f] + 1]
  BY DEF Queue!Observe, Queue!Admit, Queue!Offer, Queue!Send, Queue!MakeRoom, Queue!Evict,
         Queue!EvictNothing, Queue!CountEviction, Queue!Refuse, Queue!LastAttempt
<1>4. \A g \in Emitters : pc'[g] = "inline" <=> pc[g] = "inline"
  BY <1>1, <1>2, <1>3
<1>5. \A g \in Emitters : pc[g] = "inline" => emitted'[g] = emitted[g]
  BY <1>1, <1>3
<1>6. \A a \in Deliverers : Delivering(a)' <=> Delivering(a)
  <2> SUFFICES ASSUME NEW a \in Deliverers PROVE Delivering(a)' <=> Delivering(a)
    OBVIOUS
  <2>1. a = "worker" \/ a \in Emitters
    BY DEF Deliverers
  <2> QED
    BY <1>3, <1>4, <2>1 DEF Delivering
<1>7. Busy' = Busy
  BY <1>6 DEF Busy, Deliverers
<1>8. \A a \in Busy : InHandOf(a)' = InHandOf(a)
  <2> SUFFICES ASSUME NEW a \in Busy PROVE InHandOf(a)' = InHandOf(a)
    OBVIOUS
  <2>1. a = "worker" \/ (a \in Emitters /\ pc[a] = "inline")
    BY DEF Busy, Deliverers, Delivering
  <2> QED
    BY <1>3, <1>5, <2>1 DEF InHandOf
<1> QED
  BY <1>3, <1>7, <1>8 DEF HandsStay, Handed, Hands

\* The worker stopping, and Close.
LEMMA OthersStay ==
    ASSUME \/ Queue!WorkerExit
           \/ Queue!FlushLock(Main) \/ Queue!FlushStep(Main) \/ Queue!FlushExpire(Main)
           \/ UNCHANGED buffer
    PROVE  HandsStay
<1>1. /\ UNCHANGED <<pc, emitted, delivered, inlined>>
      /\ worker' = "delivering" <=> worker = "delivering"
  BY DEF Queue!WorkerExit, Queue!FlushLock, Queue!FlushStep, Queue!FlushStop, Queue!FlushAgain,
         Queue!FlushDrained, Queue!FlushExpire, buffer
<1>2. Busy' = Busy
  BY <1>1 DEF Busy, Delivering
<1>3. \A a \in Busy : InHandOf(a)' = InHandOf(a)
  BY <1>1 DEF InHandOf
<1> QED
  BY <1>1, <1>2, <1>3 DEF HandsStay, Handed, Hands

\* After the stop a fiber delivers its own event, which nobody has had yet.
LEMMA InlineTakes ==
    ASSUME Of!OrderInv, NEW f \in Emitters, Queue!AdmitInline(f)
    PROVE  Takes(f, <<f, emitted[f]>>)
<1>1. /\ pc \in [Emitters -> {"idle", "entering", "inline"} \cup Of!Sending]
      /\ emitted \in [Emitters -> 0..Longest]
  BY DEF Of!OrderInv, Of!TypeOK
<1>2. /\ pc[f] = "entering" /\ pc' = [pc EXCEPT ![f] = "inline"]
      /\ inlined' = inlined \cup {<<f, emitted[f]>>} /\ UNCHANGED <<worker, delivered, emitted>>
  BY DEF Queue!AdmitInline, Queue!Goto, Queue!Item
<1>3. <<f, emitted[f]>> \notin Handed
  <2>1. <<f, emitted[f]>> \in Of!InHand
    BY <1>2 DEF Of!InHand, Of!Item
  <2> QED
    BY <2>1 DEF Of!OrderInv, Of!Placed, Of!Range, Range, Handed
<1>4. f # "worker" /\ f \in Deliverers
  BY WatchAssumption DEF Deliverers
<1>5. pc'[f] = "inline" /\ \A g \in Emitters : g # f => pc'[g] = pc[g]
  BY <1>1, <1>2
<1>6. f \notin Busy /\ Busy' = Busy \cup {f}
  BY <1>2, <1>4, <1>5 DEF Busy, Deliverers, Delivering
<1>7. InHandOf(f)' = <<f, emitted[f]>> /\ \A b \in Busy : InHandOf(b)' = InHandOf(b)
  BY <1>2, <1>4 DEF InHandOf
<1>8. Handed' = Handed \cup {<<f, emitted[f]>>}
  BY <1>2 DEF Handed
<1> QED
  BY <1>3, <1>4, <1>6, <1>7, <1>8 DEF Takes, Hands

\* The worker takes the head of the queue, which nobody has had yet.
LEMMA WorkerTakes ==
    ASSUME Of!OrderInv, Queue!WorkerReceive PROVE Takes("worker", Head(queue))
<1>1. /\ queue \in Seq(Of!Event) /\ delivered \in Seq(Of!Event)
  BY DEF Of!OrderInv, Of!TypeOK
<1>2. /\ worker = "ranging" /\ worker' = "delivering" /\ queue # <<>>
      /\ delivered' = Append(delivered, Head(queue)) /\ UNCHANGED <<pc, emitted, inlined>>
  BY DEF Queue!WorkerReceive
<1>3. Head(queue) \in Of!Event
  BY <1>1, <1>2
<1>4. Head(queue) \notin Handed
  BY <1>2, BufferIsOne, Of!HeadIsAlone DEF Of!Range, Range, Handed
<1>5. Range(delivered') = Range(delivered) \cup {Head(queue)} /\ Last(delivered') = Head(queue)
  <2>1. PICK e \in Of!Event : e = Head(queue)
    BY <1>3
  <2>2. /\ DOMAIN delivered' = 1..(Len(delivered) + 1) /\ Len(delivered') = Len(delivered) + 1
        /\ DOMAIN delivered = 1..Len(delivered) /\ Len(delivered) \in Nat
        /\ delivered'[Len(delivered) + 1] = e
        /\ \A i \in 1..Len(delivered) : delivered'[i] = delivered[i]
    BY <1>1, <1>2, <2>1
  <2>3. Range(delivered') = Range(delivered) \cup {e}
    <3>1. Range(delivered') \subseteq Range(delivered) \cup {e}
      BY <2>2 DEF Range
    <3>2. Range(delivered) \subseteq Range(delivered')
      BY <2>2 DEF Range
    <3>3. e \in Range(delivered')
      BY <2>2 DEF Range
    <3> QED
      BY <3>1, <3>2, <3>3
  <2> QED
    BY <2>1, <2>2, <2>3 DEF Last
<1>6. "worker" \notin Busy /\ "worker" \in Deliverers /\ Busy' = Busy \cup {"worker"}
  BY <1>2, WatchAssumption DEF Busy, Deliverers, Delivering
<1>7. InHandOf("worker")' = Head(queue)
  BY <1>5 DEF InHandOf
<1>8. \A b \in Busy : InHandOf(b)' = InHandOf(b)
  BY <1>2, <1>6 DEF InHandOf
<1>9. Handed' = Handed \cup {Head(queue)}
  BY <1>2, <1>5 DEF Handed
<1> QED
  BY <1>4, <1>6, <1>7, <1>8, <1>9 DEF Takes, Hands

\* Whoever delivered goes on.
LEMMA DelivererReturns ==
    ASSUME Of!TypeOK, NEW a \in Busy,
           IF a = "worker" THEN Queue!WorkerReturn ELSE Queue!InlineReturn(a)
    PROVE  Returns(a)
<1>1. pc \in [Emitters -> {"idle", "entering", "inline"} \cup Of!Sending]
  BY DEF Of!TypeOK
<1>2. CASE a = "worker"
  <2>1. worker' = "ranging" /\ UNCHANGED <<pc, emitted, delivered, inlined>>
    BY <1>2 DEF Queue!WorkerReturn
  <2>2. Busy' = Busy \ {a} /\ Handed' = Handed
    BY <1>2, <2>1, WatchAssumption DEF Busy, Delivering, Handed
  <2>3. \A b \in Busy : InHandOf(b)' = InHandOf(b)
    BY <2>1 DEF InHandOf
  <2> QED
    BY <2>2, <2>3 DEF Returns, Hands
<1>3. CASE a # "worker"
  <2>1. /\ a \in Emitters /\ pc' = [pc EXCEPT ![a] = "idle"]
        /\ UNCHANGED <<worker, emitted, delivered, inlined>>
    BY <1>3 DEF Queue!InlineReturn, Queue!Goto, Busy, Deliverers
  <2>2. pc'[a] = "idle" /\ \A g \in Emitters : g # a => pc'[g] = pc[g]
    BY <1>1, <2>1
  <2>3. Busy' = Busy \ {a} /\ Handed' = Handed
    BY <1>3, <2>1, <2>2 DEF Busy, Deliverers, Delivering, Handed
  <2>4. \A b \in Busy : InHandOf(b)' = InHandOf(b)
    BY <2>1 DEF InHandOf
  <2> QED
    BY <2>3, <2>4 DEF Returns, Hands
<1> QED
  BY <1>2, <1>3

-----------------------------------------------------------------------------
(* The accounts.                                                             *)

\* What the aggregate has counted: all that came out but what is on its way to it.
Collected == Handed \ {Hands[a] : a \in {b \in Busy : inner[b] = 1}}

\* Between two moments of rest the accounts differ by what is being delivered: the
\* aggregate has counted what has passed it, the window what has passed both.
LedgerInv == /\ HandsInv
             /\ counts \in [Kinds -> Nat]
             /\ Sum(counts, Kinds) = Cardinality(Collected)
             /\ count = Cardinality(Passed)
             /\ Sum(sent, Emitters) = Cardinality(Emitted)

\* What has passed the window, said by the hands.
LEMMA PassedIs == /\ Passed = Handed \ {Hands[a] : a \in Busy}
                  /\ Passed' = Handed' \ {Hands'[a] : a \in Busy'}
  BY DEF Passed, Handed, Hands, Busy

\* An event that is taken has passed neither the aggregate nor the window.
LEMMA TakenIsPassedLater ==
    ASSUME HandsInv, inner \in [Deliverers -> {1, 2}], inner' = inner, NEW a, NEW e, Takes(a, e)
    PROVE  HandsInv' /\ Collected' = Collected /\ Passed' = Passed
<1>1. /\ a \in Deliverers /\ a \notin Busy /\ e \notin Handed /\ inner[a] = 1 /\ inner'[a] = 1
      /\ Handed' = Handed \cup {e} /\ Busy' = Busy \cup {a}
      /\ Hands'[a] = e /\ \A b \in Busy : Hands'[b] = Hands[b] /\ Hands[b] \in Handed
  BY DEF HandsInv, Takes
<1>2. HandsInv'
  BY <1>1 DEF HandsInv
<1>3. Passed' = Passed
  BY <1>1, PassedIs
<1>4. Collected' = Collected
  BY <1>1 DEF Collected
<1> QED
  BY <1>2, <1>3, <1>4

\* Where nobody takes or lets go of anything, nothing passes.
LEMMA NothingPasses ==
    ASSUME HandsInv, inner' = inner, HandsStay
    PROVE  HandsInv' /\ Collected' = Collected /\ Passed' = Passed
  BY PassedIs DEF HandsInv, HandsStay, Collected

\* The aggregate counts an event that it had not counted.
LEMMA CountedIsNew ==
    ASSUME HandsInv, inner \in [Deliverers -> {1, 2}], HandsStay, NEW a \in Busy, inner[a] = 1,
           inner' = [inner EXCEPT ![a] = 2]
    PROVE  /\ HandsInv' /\ Passed' = Passed
           /\ Hands[a] \notin Collected /\ Collected' = Collected \cup {Hands[a]}
<1>1. /\ a \in Deliverers /\ inner'[a] = 2 /\ \A b \in Deliverers : b # a => inner'[b] = inner[b]
      /\ Handed' = Handed /\ Busy' = Busy /\ Hands' = Hands /\ Busy \subseteq Deliverers
  BY DEF HandsStay, Busy
<1>2. HandsInv' /\ Passed' = Passed
  BY <1>1, PassedIs DEF HandsInv
<1>3. /\ Hands[a] \notin Collected
      /\ Hands[a] \in Handed /\ \A b \in Busy : b # a => Hands[b] # Hands[a]
  BY DEF HandsInv, Collected
<1>4. Collected' = Collected \cup {Hands[a]}
  BY <1>1, <1>3 DEF Collected
<1> QED
  BY <1>2, <1>3, <1>4

\* Whoever is done with the window has an event that it had not been shown.
LEMMA ShownIsNew ==
    ASSUME HandsInv, inner \in [Deliverers -> {1, 2}], NEW a \in Busy, inner[a] = 2,
           inner' = [inner EXCEPT ![a] = 1], Returns(a)
    PROVE  /\ HandsInv' /\ Collected' = Collected
           /\ Hands[a] \notin Passed /\ Passed' = Passed \cup {Hands[a]}
<1>1. /\ a \in Deliverers /\ inner'[a] = 1 /\ \A b \in Deliverers : b # a => inner'[b] = inner[b]
      /\ Handed' = Handed /\ Busy' = Busy \ {a} /\ \A b \in Busy \ {a} : Hands'[b] = Hands[b]
      /\ Busy \subseteq Deliverers
  BY DEF Returns, Busy
<1>2. HandsInv'
  BY <1>1 DEF HandsInv
<1>3. /\ Hands[a] \notin Passed
      /\ Hands[a] \in Handed /\ \A b \in Busy : b # a => Hands[b] # Hands[a]
  BY PassedIs DEF HandsInv
<1>4. Passed' = Passed \cup {Hands[a]}
  BY <1>1, <1>3, PassedIs
<1>5. Collected' = Collected
  BY <1>1 DEF Collected
<1> QED
  BY <1>2, <1>3, <1>4, <1>5

\* What has come out is part of what was emitted, and all that is finite.
LEMMA AccountsAreFinite ==
    IInv => /\ IsFiniteSet(Emitted) /\ IsFiniteSet(Collected) /\ IsFiniteSet(Passed)
            /\ Handed \subseteq Emitted
<1> SUFFICES ASSUME IInv
             PROVE  /\ IsFiniteSet(Emitted) /\ IsFiniteSet(Collected) /\ IsFiniteSet(Passed)
                    /\ Handed \subseteq Emitted
  OBVIOUS
<1>1. IsFiniteSet(Emitters \X (1..Longest))
  <2>1. IsFiniteSet(1..Longest)
    BY LongestBounds, FS_Interval
  <2> QED
    BY <2>1, WatchAssumption, FS_Product
<1>2. Emitted \subseteq Emitters \X (1..Longest)
  BY DEF Emitted
<1>3. Handed \subseteq Emitted
  BY QueuedIsTold, ToldIsEmitted
<1>4. Collected \subseteq Handed /\ Passed \subseteq Handed
  BY PassedIs DEF Collected
<1> QED
  BY <1>1, <1>2, <1>3, <1>4, FS_Subset

\* What is delivered is of a known kind.
LEMMA KindsAreKnown == IInv => \A e \in Handed : EventOf(e).Kind \in Kinds
<1> SUFFICES ASSUME IInv, NEW e \in Handed PROVE EventOf(e).Kind \in Kinds
  OBVIOUS
<1>1. e[1] \in Emitters /\ e[2] \in 1..sent[e[1]] /\ WalkInv
  BY QueuedIsTold DEF Told, IInv
<1>2. e[2] \in DOMAIN script[e[1]] /\ IsProgram(script)
  BY <1>1, ToldIsScripted
<1> QED
  BY <1>1, <1>2 DEF IsProgram, EventOf

\* Nothing has been emitted or counted in the beginning.
LEMMA LedgerInit == Init => LedgerInv
<1> SUFFICES ASSUME Init PROVE LedgerInv
  OBVIOUS
<1>1. /\ worker = "ranging" /\ pc = [f \in Emitters |-> "idle"] /\ delivered = <<>> /\ inlined = {}
      /\ inner = [a \in Deliverers |-> 1] /\ sent = [f \in Emitters |-> 0]
      /\ counts = [kind \in Kinds |-> 0] /\ count = 0
  BY DEF Init, Queue!Init, Recent!Init
<1>2. Busy = {} /\ Handed = {} /\ Emitted = {}
  <2>1. Busy = {} /\ Handed = {}
    BY <1>1 DEF Busy, Deliverers, Delivering, Handed, Range
  <2>2. Emitted = {}
    BY <1>1, LongestBounds DEF Emitted
  <2> QED
    BY <2>1, <2>2
<1>3. HandsInv
  BY <1>1, <1>2 DEF HandsInv
<1>4. Collected = {} /\ Passed = {}
  BY <1>2, PassedIs DEF Collected
<1>5. /\ counts \in [Kinds -> Nat] /\ \A kind \in Kinds : counts[kind] = 0
      /\ sent \in [Emitters -> Nat] /\ \A f \in Emitters : sent[f] = 0
  BY <1>1
<1>6. Sum(counts, Kinds) = 0 /\ Sum(sent, Emitters) = 0
  BY <1>5, WatchAssumption, SumType
<1> QED
  BY <1>1, <1>2, <1>3, <1>4, <1>5, <1>6, FS_EmptySet DEF LedgerInv

\* An emitter's next event is one more.
LEMMA EmitIsCounted ==
    ASSUME IInv, LedgerInv, NEW f \in Emitters, Emit(f)
    PROVE  Sum(sent', Emitters) = Cardinality(Emitted')
<1>1. PICK e : e = <<f, sent[f] + 1>>
  OBVIOUS
<1>2. /\ sent' = [sent EXCEPT ![f] = sent[f] + 1] /\ sent[f] < Len(script[f])
      /\ sent \in [Emitters -> Nat] /\ script \in Scripts
  BY DEF Emit, IInv, WalkInv
<1>3. /\ sent[f] + 1 \in 1..Longest /\ sent'[f] = sent[f] + 1
      /\ \A g \in Emitters : g # f => sent'[g] = sent[g]
  BY <1>2, LongestBounds
<1>4. e \notin Emitted /\ Emitted' = Emitted \cup {e}
  <2>1. /\ e \in Emitters \X (1..Longest) /\ e[1] = f /\ e[2] = sent[f] + 1 /\ e[2] \in Nat
    BY <1>1, <1>2, <1>3
  <2>2. \A x \in Emitters \X (1..Longest) :
          /\ x[1] \in Emitters /\ x[2] \in Nat
          /\ x[1] = f /\ x[2] = sent[f] + 1 => x = e
    BY <1>1, LongestBounds
  <2>3. \A x \in Emitters \X (1..Longest) : x[2] <= sent'[x[1]] <=> x[2] <= sent[x[1]] \/ x = e
    <3> SUFFICES ASSUME NEW x \in Emitters \X (1..Longest)
                 PROVE  x[2] <= sent'[x[1]] <=> x[2] <= sent[x[1]] \/ x = e
      OBVIOUS
    <3>1. CASE x[1] = f
      BY <1>2, <1>3, <2>1, <2>2, <3>1
    <3>2. CASE x[1] # f
      BY <1>3, <2>1, <2>2, <3>2
    <3> QED
      BY <3>1, <3>2
  <2> QED
    BY <1>2, <2>1, <2>3 DEF Emitted
<1>5. Cardinality(Emitted') = Cardinality(Emitted) + 1
  BY <1>4, AccountsAreFinite, FS_AddElement
<1>6. Sum(sent', Emitters) = Sum(sent, Emitters) + 1
  BY <1>2, WatchAssumption, SumGrows
<1> QED
  BY <1>5, <1>6 DEF LedgerInv

\* Where nothing passes and nothing is emitted the accounts stand still.
LEMMA LedgerStays ==
    ASSUME LedgerInv, HandsInv', Collected' = Collected, Passed' = Passed,
           UNCHANGED <<counts, count, sent>>
    PROVE  LedgerInv'
<1>1. Emitted' = Emitted
  BY DEF Emitted
<1> QED
  BY <1>1 DEF LedgerInv

\* A deliverer's step: the aggregate counts the event, or the window is shown it.
LEMMA DeliverIsCounted ==
    ASSUME IInv, LedgerInv, NEW a \in Deliverers, Deliver(a) PROVE LedgerInv'
<1>1. /\ inner \in [Deliverers -> {1, 2}] /\ HandsInv /\ a \in Busy
      /\ Hands[a] = InHandOf(a) /\ Hands[a] \in Handed
      /\ Emitted' = Emitted /\ sent' = sent
  BY DEF IInv, WalkInv, LedgerInv, HandsInv, Deliver, Busy, Hands, Emitted
<1>2. PICK e : e = Hands[a]
  OBVIOUS
<1>3. CASE inner[a] = 1
  <2>1. PICK kind \in Kinds : kind = EventOf(e).Kind
    BY <1>1, <1>2, KindsAreKnown
  <2>2. /\ counts' = [counts EXCEPT ![kind] = counts[kind] + 1] /\ count' = count
        /\ inner' = [inner EXCEPT ![a] = 2] /\ UNCHANGED buffer
    BY <1>1, <1>2, <1>3, <2>1, LayoutIs DEF Deliver, Give, window
  <2>3. HandsInv' /\ Passed' = Passed /\ e \notin Collected /\ Collected' = Collected \cup {e}
    BY <1>1, <1>2, <1>3, <2>2, OthersStay, CountedIsNew
  <2>4. Cardinality(Collected') = Cardinality(Collected) + 1
    BY <2>3, AccountsAreFinite, FS_AddElement
  <2>5. counts' \in [Kinds -> Nat] /\ Sum(counts', Kinds) = Sum(counts, Kinds) + 1
    <3>1. counts \in [Kinds -> Nat]
      BY DEF LedgerInv
    <3>2. Sum([counts EXCEPT ![kind] = counts[kind] + 1], Kinds) = Sum(counts, Kinds) + 1
      BY <3>1, WatchAssumption, SumGrows
    <3> QED
      BY <2>2, <3>1, <3>2
  <2> QED
    BY <1>1, <2>2, <2>3, <2>4, <2>5 DEF LedgerInv
<1>4. CASE inner[a] = 2
  <2>1. /\ counts' = counts /\ count' = count + 1 /\ inner' = [inner EXCEPT ![a] = 1]
        /\ IF a = "worker" THEN Queue!WorkerReturn ELSE Queue!InlineReturn(a)
    BY <1>1, <1>4, LayoutIs DEF Deliver, Give, Recent!Arrive
  <2>2. Of!TypeOK
    BY DEF IInv, Of!OrderInv
  <2>3. HandsInv' /\ Collected' = Collected /\ e \notin Passed /\ Passed' = Passed \cup {e}
    BY <1>1, <1>2, <1>4, <2>1, <2>2, DelivererReturns, ShownIsNew
  <2>4. Cardinality(Passed') = Cardinality(Passed) + 1
    BY <2>3, AccountsAreFinite, FS_AddElement
  <2> QED
    BY <1>1, <2>1, <2>3, <2>4 DEF LedgerInv
<1> QED
  BY <1>1, <1>3, <1>4

\* Every step keeps the accounts.
LEMMA LedgerStep == IInv /\ LedgerInv /\ [Next]_vars => LedgerInv'
<1> SUFFICES ASSUME IInv, LedgerInv, [Next]_vars PROVE LedgerInv'
  OBVIOUS
<1>1. /\ inner \in [Deliverers -> {1, 2}] /\ HandsInv /\ Of!OrderInv /\ Of!TypeOK
  BY DEF IInv, WalkInv, LedgerInv, Of!OrderInv
<1>2. ASSUME HandsStay, UNCHANGED <<counts, count, sent, inner>> PROVE LedgerInv'
  BY <1>1, <1>2, NothingPasses, LedgerStays
<1>3. ASSUME NEW a, NEW e, Takes(a, e), UNCHANGED <<counts, count, sent, inner>> PROVE LedgerInv'
  BY <1>1, <1>3, TakenIsPassedLater, LedgerStays
<1>4. ASSUME NEW f \in Emitters, Emit(f) PROVE LedgerInv'
  <2>1. UNCHANGED buffer /\ UNCHANGED <<counts, count, inner>>
    BY <1>4 DEF Emit, observed, window
  <2>2. HandsInv' /\ Collected' = Collected /\ Passed' = Passed
    BY <1>1, <2>1, OthersStay, NothingPasses
  <2>3. Sum(sent', Emitters) = Cardinality(Emitted')
    BY <1>4, EmitIsCounted
  <2> QED
    BY <2>1, <2>2, <2>3 DEF LedgerInv
<1>5. ASSUME NEW f \in Emitters, Hand(f) PROVE LedgerInv'
  <2>1. UNCHANGED <<counts, count, sent, inner>> /\ (Queue!Observe(f) \/ UNCHANGED buffer)
    <3>1. layout.front[at[f]] \in {"spans", "fibers", "buffer"}
      BY <1>5, LayoutIs DEF Hand
    <3> QED
      BY <1>5, <3>1 DEF Hand, Give, observed, window
  <2>2. HandsStay
    BY <1>1, <2>1, OfferStays, OthersStay
  <2> QED
    BY <1>2, <2>1, <2>2
<1>6. ASSUME NEW f \in Emitters, Offer(f) PROVE LedgerInv'
  <2>1. UNCHANGED <<counts, count, sent, inner>>
    BY <1>6 DEF Offer, observed, window
  <2>2. CASE Queue!AdmitInline(f)
    BY <1>1, <1>3, <2>1, <2>2, InlineTakes
  <2>3. CASE Queue!Admit(f) \/ Queue!Offer(f)
    BY <1>1, <1>2, <2>1, <2>3, OfferStays
  <2> QED
    BY <1>6, <2>2, <2>3 DEF Offer
<1>7. ASSUME NEW a \in Deliverers, Deliver(a) PROVE LedgerInv'
  BY <1>7, DeliverIsCounted
<1>8. CASE Receive
  <2>1. UNCHANGED <<counts, count, sent, inner>>
    BY <1>8 DEF Receive, observed, window
  <2>2. CASE Queue!WorkerReceive
    BY <1>1, <1>3, <2>1, <2>2, WorkerTakes
  <2>3. CASE Queue!WorkerExit
    BY <1>2, <2>1, <2>3, OthersStay
  <2> QED
    BY <1>8, <2>2, <2>3 DEF Receive
<1>9. CASE Close \/ CloseStep \/ Deadline
  <2>1. UNCHANGED <<counts, count, sent, inner>>
    BY <1>9 DEF Close, CloseStep, Deadline, observed, window
  <2>2. HandsStay
    BY <1>9, OthersStay DEF Close, CloseStep, Deadline
  <2> QED
    BY <1>2, <2>1, <2>2
<1>10. CASE UNCHANGED vars
  <2>1. UNCHANGED buffer /\ UNCHANGED <<counts, count, sent, inner>>
    BY <1>10 DEF vars, observed, window
  <2> QED
    BY <1>2, <2>1, OthersStay
<1> QED
  BY <1>4, <1>5, <1>6, <1>7, <1>8, <1>9, <1>10 DEF Next, Over

\* What is neither lost nor delivered is in a fiber's hands or in the queue: where both
\* are empty the losses are the difference between what was emitted and what came out.
LEMMA RestIsLost ==
    IInv /\ Quiet => Of!Missing = Emitted \ Handed /\ Of!Counting = {} /\ Busy = {}
<1> SUFFICES ASSUME IInv, Quiet
             PROVE  Of!Missing = Emitted \ Handed /\ Of!Counting = {} /\ Busy = {}
  OBVIOUS
<1>1. /\ \A f \in Emitters : at[f] = 4 /\ pc[f] = "idle" /\ emitted[f] = sent[f]
      /\ queue = <<>> /\ worker # "delivering"
  BY LayoutIs DEF Quiet, IInv, WalkInv, InFront
<1>2. Of!Counting = {} /\ Of!InHand = {}
  BY <1>1 DEF Of!Counting, Of!InHand
<1>3. Busy = {}
  BY <1>1 DEF Busy, Deliverers, Delivering
<1>4. Of!Emitted = Emitted
  <2>1. \A e \in Emitters \X (1..Longest) : e[1] \in Emitters
    OBVIOUS
  <2> QED
    BY <1>1, <2>1 DEF Of!Emitted, Of!Event, Emitted
<1>5. Of!Range(queue) = {} /\ Of!Range(delivered) = Range(delivered)
  BY <1>1 DEF Of!Range, Range
<1>6. Of!Missing = Emitted \ Handed
  BY <1>2, <1>4, <1>5 DEF Of!Missing, Handed
<1> QED
  BY <1>2, <1>3, <1>6

\* Whenever nothing is on its way the accounts add up, for every program, number of
\* fibers and size of the queue and of the window: every event was counted by the
\* aggregate and shown to the window, or is one of the drops.
THEOREM AccountsAddUp == Spec => []TotalsReconcile
<1>1. ASSUME IInv, LedgerInv, Of!LossInv PROVE TotalsReconcile
  <2> SUFFICES ASSUME Quiet
               PROVE  /\ Total + drops = MapThenSumSet(LAMBDA f : sent[f], Emitters)
                      /\ count = Total
    BY DEF TotalsReconcile
  <2>1. Of!Missing = Emitted \ Handed /\ Of!Counting = {} /\ Busy = {}
    BY <1>1, RestIsLost
  <2>2. Collected = Handed /\ Passed = Handed
    BY <2>1, PassedIs DEF Collected
  <2>3. Cardinality(Of!Missing) = drops
    <3>1. Cardinality(Of!Missing) = drops + Cardinality({})
      BY <1>1, <2>1 DEF Of!LossInv, Of!DropsAccountForLosses, Of!Counting, Of!Cardinality, Cardinality
    <3>2. drops \in Nat
      BY <1>1 DEF IInv, Of!OrderInv, Of!TypeOK
    <3> QED
      BY <3>1, <3>2, FS_EmptySet
  <2>4. /\ IsFiniteSet(Emitted) /\ Handed \subseteq Emitted /\ IsFiniteSet(Handed)
    BY <1>1, <2>2, AccountsAreFinite
  <2>5. /\ Cardinality(Emitted \ Handed) = Cardinality(Emitted) - Cardinality(Handed)
        /\ Cardinality(Emitted) \in Nat /\ Cardinality(Handed) \in Nat
    <3>1. Emitted \cap Handed = Handed
      BY <2>4
    <3> QED
      BY <2>4, <3>1, FS_Difference, FS_CardinalityType
  <2>6. /\ Sum(counts, Kinds) = Cardinality(Handed) /\ count = Cardinality(Handed)
        /\ Sum(sent, Emitters) = Cardinality(Emitted)
    BY <1>1, <2>2 DEF LedgerInv
  <2>7. Total = Sum(counts, Kinds) /\ MapThenSumSet(LAMBDA f : sent[f], Emitters) = Sum(sent, Emitters)
    BY DEF Total, Sum
  <2>8. Sum(counts, Kinds) + drops = Sum(sent, Emitters)
    BY <2>1, <2>3, <2>5, <2>6
  <2> QED
    BY <2>6, <2>7, <2>8
<1>2. Init => Of!Init
  BY DEF Init, Queue!Init, Of!Init
<1>3. Init => Of!LossInv
  BY <1>2, BufferIsOne, Of!LossInit
<1>4. Of!LossInv /\ [Next]_vars => Of!LossInv'
  BY BufferMoves, BufferIsOne, Of!LossStep
<1> QED
  BY <1>1, <1>3, <1>4, InitHolds, StepKeeps, LedgerInit, LedgerStep, PTL DEF Spec

-----------------------------------------------------------------------------
(* What the window has forgotten.                                            *)

\* The events that came through the queue and have passed the window.
Lined == Range(delivered) \cap Passed

\* Of the events of L, those of one fiber are in s in its order, and none is missing
\* after one that is there: what s has forgotten are the first.
InLine(s, L) ==
    /\ \A p, q \in DOMAIN s :
          p < q /\ s[p] \in L /\ s[q] \in L /\ s[p][1] = s[q][1] => s[p][2] < s[q][2]
    /\ \A d, e \in L : d \in Range(s) /\ d[1] = e[1] /\ d[2] < e[2] => e \in Range(s)

\* The window holds some of the events that have passed it, all of them unless there
\* were too many, and of those that were queued the last.
WindowInv == /\ kept \in Seq(Passed)
             /\ count \in Nat
             /\ count <= Remembered => Len(kept) = count /\ Passed \subseteq Range(kept)
             /\ InLine(kept, Lined)

\* One thing more behind a sequence.
LEMMA OneBehind ==
    ASSUME NEW S, NEW s \in Seq(S), NEW x
    PROVE  Len(Append(s, x)) = Len(s) + 1 /\ Range(Append(s, x)) = Range(s) \cup {x}
<1>1. s \in Seq(S \cup {x})
  OBVIOUS
<1>2. Of!Range(Append(s, x)) = Of!Range(s) \cup {x}
  BY <1>1, BufferIsOne, Of!RangeAppend
<1> QED
  BY <1>2 DEF Of!Range, Range

\* t is s without its first gone, with x behind the other n.
IsSlid(s, t, x, gone, n) ==
    /\ gone \in Nat /\ n \in Nat
    /\ DOMAIN s = 1..(n + gone) /\ DOMAIN t = 1..(n + 1)
    /\ t[n + 1] = x /\ \A p \in 1..n : t[p] = s[p + gone]

\* A sequence that has a head is one longer than its tail.
LEMMA HeadIsOne ==
    ASSUME NEW S, NEW s \in Seq(S), s # <<>> PROVE \E n \in Nat : Len(s) = n + 1
<1>1. Len(s) \in Nat /\ Len(s) # 0
  OBVIOUS
<1>2. Len(s) - 1 \in Nat /\ Len(s) = (Len(s) - 1) + 1
  BY <1>1
<1> QED
  BY <1>2

\* What forgetting the head of a sequence leaves, and what comes behind it.
LEMMA SlidIs ==
    ASSUME NEW P, NEW s \in Seq(P), NEW x, NEW t,
           t = Append(s, x) \/ (s # <<>> /\ t = Append(Tail(s), x))
    PROVE  \E gone, n : IsSlid(s, t, x, gone, n)
<1>1. Len(s) \in Nat /\ DOMAIN s = 1..Len(s) /\ s \in Seq(P \cup {x})
  OBVIOUS
<1>2. CASE t = Append(s, x)
  <2>1. DOMAIN t = 1..(Len(s) + 1) /\ t[Len(s) + 1] = x /\ \A p \in 1..Len(s) : t[p] = s[p]
    BY <1>1, <1>2
  <2>2. IsSlid(s, t, x, 0, Len(s))
    BY <1>1, <2>1 DEF IsSlid
  <2> QED
    BY <2>2
<1>3. CASE s # <<>> /\ t = Append(Tail(s), x)
  <2>1. PICK n \in Nat : Len(s) = n + 1
    BY <1>1, <1>3, HeadIsOne
  <2>2. /\ Tail(s) \in Seq(P \cup {x}) /\ Len(Tail(s)) = n
        /\ \A p \in 1..n : Tail(s)[p] = s[p + 1]
    BY <1>1, <1>3, <2>1
  <2>3. DOMAIN t = 1..(n + 1) /\ t[n + 1] = x /\ \A p \in 1..n : t[p] = Tail(s)[p]
    BY <1>3, <2>2
  <2>4. IsSlid(s, t, x, 1, n)
    BY <1>1, <2>1, <2>2, <2>3 DEF IsSlid
  <2> QED
    BY <2>4
<1> QED
  BY <1>2, <1>3

\* M is L, with x or without it, and x the newest of its fiber.
IsNewest(L, M, x) == M = L \/ (M = L \cup {x} /\ \A e \in L : e[1] = x[1] => e[2] < x[2])

\* One more event that is new, and behind all of its fiber if it is of L.
LEMMA SlidInLine ==
    ASSUME NEW P, P \subseteq Emitters \X Nat, NEW x \in (Emitters \X Nat) \ P,
           NEW s \in Seq(P), NEW t, NEW gone, NEW n, IsSlid(s, t, x, gone, n),
           NEW L \in SUBSET P, InLine(s, L), NEW M, IsNewest(L, M, x)
    PROVE  InLine(t, M)
<1>1. /\ gone \in Nat /\ n \in Nat
      /\ DOMAIN s = 1..(n + gone) /\ DOMAIN t = 1..(n + 1)
      /\ t[n + 1] = x /\ \A p \in 1..n : t[p] = s[p + gone]
  BY DEF IsSlid
<1>2. /\ \A p \in DOMAIN s : s[p] \in P
      /\ \A e \in L \cup {x} : e[2] \in Nat
  OBVIOUS
<1>3. /\ \A p \in 1..n : p + gone \in DOMAIN s /\ t[p] \in P /\ t[p] # x
      /\ \A e \in M : e \in L \/ e = x
      /\ x \in M => \A e \in L : e[1] = x[1] => e[2] < x[2]
  BY <1>1, <1>2 DEF IsNewest
<1>4. ASSUME NEW p \in DOMAIN t, NEW q \in DOMAIN t, p < q, t[p] \in M, t[q] \in M, t[p][1] = t[q][1]
      PROVE  t[p][2] < t[q][2]
  <2>1. p \in 1..n /\ p + gone \in DOMAIN s /\ t[p] = s[p + gone] /\ t[p] \in L
    BY <1>1, <1>3, <1>4, SMTT(40)
  <2>2. CASE q = n + 1
    BY <1>1, <1>3, <1>4, <2>1, <2>2
  <2>3. CASE q \in 1..n
    <3>1. q + gone \in DOMAIN s /\ t[q] = s[q + gone] /\ t[q] \in L
      BY <1>1, <1>3, <1>4, <2>3
    <3>2. p + gone < q + gone
      BY <1>1, <1>4, <2>1, <2>3
    <3> QED
      BY <1>4, <2>1, <3>1, <3>2 DEF InLine
  <2> QED
    BY <1>1, <2>2, <2>3
<1>5. ASSUME NEW d \in M, NEW e \in M, d \in Range(t), d[1] = e[1], d[2] < e[2] PROVE e \in Range(t)
  <2>1. CASE e = x
    <3>1. n + 1 \in DOMAIN t
      BY <1>1
    <3> QED
      BY <1>1, <2>1, <3>1 DEF Range
  <2>2. CASE e # x
    <3>1. e \in L /\ d # x /\ d \in L
      <4>1. e \in L
        BY <1>3, <2>2
      <4>2. d = x => e[2] < d[2]
        BY <1>3, <1>5, <4>1
      <4>3. d[2] \in Nat /\ e[2] \in Nat
        BY <1>2, <1>3
      <4> QED
        BY <1>3, <1>5, <4>1, <4>2, <4>3
    <3>2. PICK p \in 1..n : d = t[p]
      <4>1. PICK p \in DOMAIN t : d = t[p]
        BY <1>5 DEF Range
      <4>2. p \in 1..n
        BY <1>1, <3>1, <4>1, SMTT(40)
      <4> QED
        BY <4>1, <4>2
    <3>3. p + gone \in DOMAIN s /\ d = s[p + gone]
      BY <1>1, <1>3, <3>2
    <3>4. e \in Range(s)
      BY <1>5, <3>1, <3>3 DEF InLine, Range
    <3>5. PICK q \in DOMAIN s : e = s[q]
      BY <3>4 DEF Range
    <3>6. ~(q < p + gone)
      <4>1. q < p + gone => e[2] < d[2]
        BY <1>5, <3>1, <3>3, <3>5 DEF InLine
      <4> QED
        BY <1>2, <1>5, <3>1, <4>1
    <3>7. q - gone \in 1..n /\ (q - gone) + gone = q
      BY <1>1, <3>2, <3>5, <3>6, SMTT(40)
    <3>8. t[q - gone] = e /\ q - gone \in DOMAIN t
      BY <1>1, <3>5, <3>7
    <3> QED
      BY <3>8 DEF Range
  <2> QED
    BY <2>1, <2>2
<1> QED
  BY <1>4, <1>5 DEF InLine

-----------------------------------------------------------------------------
\* In the beginning nothing has passed the window.
LEMMA WindowInit == Init => WindowInv
<1> SUFFICES ASSUME Init PROVE WindowInv
  OBVIOUS
<1>1. kept = <<>> /\ count = 0 /\ delivered = <<>> /\ inlined = {}
  BY DEF Init, Queue!Init, Recent!Init
<1>2. Handed = {}
  BY <1>1 DEF Handed, Range
<1>3. Passed = {} /\ Lined = {}
  BY <1>2, PassedIs DEF Lined
<1>4. kept \in Seq(Passed) /\ Len(kept) = 0 /\ DOMAIN kept = {}
  BY <1>1
<1> QED
  BY <1>1, <1>3, <1>4 DEF WindowInv, InLine

\* The last the worker took is the newest of its fiber that it ever had.
LEMMA LastIsNewest ==
    ASSUME Of!OrderInv, delivered # <<>>
    PROVE  /\ Last(delivered) \in Range(delivered)
           /\ \A e \in Range(delivered) :
                e # Last(delivered) /\ e[1] = Last(delivered)[1] => e[2] < Last(delivered)[2]
<1>1. queue \in Seq(Of!Event) /\ delivered \in Seq(Of!Event) /\ Of!InOrder(delivered \o queue)
  BY DEF Of!OrderInv, Of!TypeOK, Of!FiberOrder, Of!InOrder, Of!Arrivals
<1>2. PICK n \in Nat : Len(delivered) = n + 1
  BY <1>1, HeadIsOne
<1>3. DOMAIN delivered = 1..(n + 1) /\ Last(delivered) = delivered[n + 1]
  BY <1>1, <1>2 DEF Last
<1>4. ASSUME NEW i \in 1..n, delivered[i][1] = delivered[n + 1][1]
      PROVE  delivered[i][2] < delivered[n + 1][2]
  <2>1. /\ i \in DOMAIN (delivered \o queue) /\ (delivered \o queue)[i] = delivered[i]
        /\ n + 1 \in DOMAIN (delivered \o queue) /\ (delivered \o queue)[n + 1] = delivered[n + 1]
        /\ i < n + 1
    BY <1>1, <1>2
  <2> QED
    BY <1>1, <1>4, <2>1 DEF Of!InOrder
<1>5. ASSUME NEW e \in Range(delivered), e # Last(delivered), e[1] = Last(delivered)[1]
      PROVE  e[2] < Last(delivered)[2]
  <2>1. PICK i \in DOMAIN delivered : e = delivered[i]
    BY DEF Range
  <2>2. i \in 1..n
    BY <1>3, <1>5, <2>1
  <2> QED
    BY <1>3, <1>4, <1>5, <2>1, <2>2
<1> QED
  BY <1>3, <1>5 DEF Range

\* Where nothing passes the window it remembers what it did.
LEMMA WindowStays ==
    ASSUME WindowInv, UNCHANGED <<kept, count>>, Passed' = Passed, Lined' = Lined
    PROVE  WindowInv'
  BY DEF WindowInv

\* One event more passes the window.
LEMMA WindowTakes ==
    ASSUME IInv, WindowInv, HandsInv, NEW a \in Deliverers, Deliver(a), inner[a] = 2
    PROVE  WindowInv'
<1>1. /\ inner \in [Deliverers -> {1, 2}] /\ a \in Busy /\ Hands[a] = InHandOf(a)
      /\ Hands[a] \in Handed /\ Of!OrderInv /\ Of!TypeOK
  BY DEF IInv, WalkInv, HandsInv, Deliver, Busy, Hands, Of!OrderInv
<1>2. PICK x : x = Hands[a]
  OBVIOUS
<1>3. /\ Recent!Arrive(x) /\ inner' = [inner EXCEPT ![a] = 1]
      /\ IF a = "worker" THEN Queue!WorkerReturn ELSE Queue!InlineReturn(a)
  BY <1>1, <1>2, LayoutIs DEF Deliver, Give
<1>4. x \notin Passed /\ Passed' = Passed \cup {x}
  BY <1>1, <1>2, <1>3, DelivererReturns, ShownIsNew
<1>5. Handed \subseteq Emitters \X Nat /\ Passed \subseteq Emitters \X Nat /\ x \in Emitters \X Nat
  BY <1>1, <1>2, QueuedIsTold, PassedIs DEF Told
<1>6. delivered' = delivered
  BY <1>3 DEF Queue!WorkerReturn, Queue!InlineReturn
<1>7. IsNewest(Lined, Lined', x)
  <2>1. CASE x \notin Range(delivered)
    BY <1>4, <1>6, <2>1 DEF Lined, IsNewest
  <2>2. CASE x \in Range(delivered)
    <3>1. ASSUME NEW e \in Range(delivered), e # x, e[1] = x[1] PROVE e[2] < x[2]
      <4>1. CASE a = "worker"
        <5>1. x = Last(delivered) /\ delivered # <<>>
          BY <1>1, <1>2, <2>2, <4>1 DEF InHandOf, Range
        <5> QED
          BY <1>1, <3>1, <5>1, LastIsNewest
      <4>2. CASE a # "worker"
        <5>1. a \in Emitters /\ x = <<a, emitted[a]>>
          BY <1>1, <1>2, <4>2 DEF InHandOf, Deliverers
        <5>2. e \in Of!Emitted
          BY <1>1 DEF Of!OrderInv, Of!Placed, Of!Range, Range
        <5>3. e = <<e[1], e[2]>> /\ e[2] \in Nat /\ emitted[a] \in Nat /\ e[2] <= emitted[e[1]]
          BY <1>1, <5>1, <5>2, LongestBounds DEF Of!Emitted, Of!Event, Of!TypeOK
        <5> QED
          BY <3>1, <5>1, <5>3
      <4> QED
        BY <4>1, <4>2
    <3>4. Lined' = Lined \cup {x} /\ x \notin Lined
      BY <1>4, <1>6, <2>2 DEF Lined
    <3> QED
      BY <3>1, <3>4 DEF Lined, IsNewest
  <2> QED
    BY <2>1, <2>2
<1>8. /\ kept \in Seq(Passed) /\ kept' \in Seq(Passed') /\ count' = count + 1
      /\ kept' = Append(kept, x) \/ (kept # <<>> /\ kept' = Append(Tail(kept), x))
      /\ Len(kept) < Remembered => kept' = Append(kept, x)
  BY <1>3, <1>4, WatchAssumption DEF WindowInv, Recent!Arrive, Recent!Slid
<1>9. InLine(kept', Lined')
  <2>1. PICK gone, n : IsSlid(kept, kept', x, gone, n)
    BY <1>8, SlidIs
  <2>2. Lined \in SUBSET Passed /\ InLine(kept, Lined)
    BY DEF WindowInv, Lined
  <2> QED
    BY <1>4, <1>5, <1>7, <1>8, <2>1, <2>2, SlidInLine
<1>10. ASSUME count' <= Remembered PROVE Len(kept') = count' /\ Passed' \subseteq Range(kept')
  <2>1. count \in Nat /\ count <= Remembered /\ Len(kept) = count /\ Passed \subseteq Range(kept)
        /\ Len(kept) < Remembered
    BY <1>8, <1>10, WatchAssumption DEF WindowInv
  <2>2. kept' = Append(kept, x)
    BY <1>8, <2>1
  <2>3. Len(kept') = Len(kept) + 1 /\ Range(kept') = Range(kept) \cup {x}
    BY <1>8, <2>2, OneBehind
  <2> QED
    BY <1>4, <1>8, <2>1, <2>3
<1>11. count' \in Nat
  BY <1>8 DEF WindowInv
<1> QED
  BY <1>8, <1>9, <1>10, <1>11 DEF WindowInv

\* Every step keeps what the window remembers in line.
LEMMA WindowStep == IInv /\ LedgerInv /\ WindowInv /\ [Next]_vars => WindowInv'
<1> SUFFICES ASSUME IInv, LedgerInv, WindowInv, [Next]_vars PROVE WindowInv'
  OBVIOUS
<1>1. /\ inner \in [Deliverers -> {1, 2}] /\ HandsInv /\ Of!OrderInv /\ Of!TypeOK
  BY DEF IInv, WalkInv, LedgerInv, Of!OrderInv
<1>2. ASSUME HandsStay, UNCHANGED <<kept, count, delivered, inner>> PROVE WindowInv'
  <2>1. Passed' = Passed
    BY <1>1, <1>2, NothingPasses
  <2> QED
    BY <1>2, <2>1, WindowStays DEF Lined
<1>3. ASSUME NEW f \in Emitters, Emit(f) PROVE WindowInv'
  <2>1. UNCHANGED buffer /\ UNCHANGED <<kept, count, delivered, inner>>
    BY <1>3 DEF Emit, observed, window, buffer
  <2> QED
    BY <1>2, <2>1, OthersStay
<1>4. ASSUME NEW f \in Emitters, Hand(f) PROVE WindowInv'
  <2>1. UNCHANGED <<kept, count, inner>> /\ (Queue!Observe(f) \/ UNCHANGED buffer)
    <3>1. layout.front[at[f]] \in {"spans", "fibers", "buffer"}
      BY <1>4, LayoutIs DEF Hand
    <3> QED
      BY <1>4, <3>1 DEF Hand, Give, observed, window
  <2>2. HandsStay /\ delivered' = delivered
    BY <1>1, <2>1, OfferStays, OthersStay DEF Queue!Observe, buffer
  <2> QED
    BY <1>2, <2>1, <2>2
<1>5. ASSUME NEW f \in Emitters, Offer(f) PROVE WindowInv'
  <2>1. UNCHANGED <<kept, count, inner>>
    BY <1>5 DEF Offer, observed, window
  <2>2. CASE Queue!AdmitInline(f)
    <3>1. Passed' = Passed
      BY <1>1, <2>1, <2>2, InlineTakes, TakenIsPassedLater
    <3>2. delivered' = delivered
      BY <2>2 DEF Queue!AdmitInline
    <3> QED
      BY <2>1, <3>1, <3>2, WindowStays DEF Lined
  <2>3. CASE Queue!Admit(f) \/ Queue!Offer(f)
    <3>1. delivered' = delivered
      BY <2>3 DEF Queue!Admit, Queue!Offer, Queue!Send, Queue!MakeRoom, Queue!Evict,
                  Queue!EvictNothing, Queue!CountEviction, Queue!Refuse
    <3> QED
      BY <1>1, <1>2, <2>1, <2>3, <3>1, OfferStays
  <2> QED
    BY <1>5, <2>2, <2>3 DEF Offer
<1>6. ASSUME NEW a \in Deliverers, Deliver(a) PROVE WindowInv'
  <2>1. CASE inner[a] = 1
    <3>1. UNCHANGED <<kept, count>> /\ UNCHANGED buffer /\ inner' = [inner EXCEPT ![a] = 2]
      BY <1>6, <2>1, LayoutIs DEF Deliver, Give, window
    <3>2. a \in Busy
      BY <1>6 DEF Deliver, Busy
    <3>3. Passed' = Passed
      BY <1>1, <2>1, <3>1, <3>2, OthersStay, CountedIsNew
    <3> QED
      BY <3>1, <3>3, WindowStays DEF Lined, buffer
  <2>2. CASE inner[a] = 2
    BY <1>1, <1>6, <2>2, WindowTakes
  <2> QED
    BY <1>1, <2>1, <2>2
<1>7. CASE Receive
  <2>1. UNCHANGED <<kept, count, inner>>
    BY <1>7 DEF Receive, observed, window
  <2>2. CASE Queue!WorkerReceive
    <3>1. Passed' = Passed
      BY <1>1, <2>1, <2>2, WorkerTakes, TakenIsPassedLater
    <3>2. Lined' = Lined
      <4>1. /\ queue \in Seq(Of!Event) /\ delivered \in Seq(Of!Event) /\ queue # <<>>
            /\ delivered' = Append(delivered, Head(queue)) /\ Head(queue) \in Of!Event
        BY <1>1, <2>2 DEF Queue!WorkerReceive, Of!TypeOK
      <4>2. Range(delivered') = Range(delivered) \cup {Head(queue)}
        BY <4>1, OneBehind
      <4>3. Head(queue) \notin Passed
        BY <1>1, <2>2, WorkerTakes, PassedIs DEF Takes
      <4> QED
        BY <3>1, <4>2, <4>3 DEF Lined
    <3> QED
      BY <2>1, <3>1, <3>2, WindowStays
  <2>3. CASE Queue!WorkerExit
    BY <1>2, <2>1, <2>3, OthersStay DEF Queue!WorkerExit
  <2> QED
    BY <1>7, <2>2, <2>3 DEF Receive
<1>8. CASE Close \/ CloseStep \/ Deadline
  <2>1. UNCHANGED <<kept, count, delivered, inner>>
    BY <1>8 DEF Close, CloseStep, Deadline, observed, window, Queue!FlushLock, Queue!FlushStep,
                Queue!FlushStop, Queue!FlushAgain, Queue!FlushDrained, Queue!FlushExpire
  <2>2. HandsStay
    BY <1>8, OthersStay DEF Close, CloseStep, Deadline
  <2> QED
    BY <1>2, <2>1, <2>2
<1>9. CASE UNCHANGED vars
  <2>1. UNCHANGED buffer /\ UNCHANGED <<kept, count, delivered, inner>>
    BY <1>9 DEF vars, observed, window, buffer
  <2> QED
    BY <1>2, <2>1, OthersStay
<1> QED
  BY <1>3, <1>4, <1>5, <1>6, <1>7, <1>8, <1>9 DEF Next, Over

-----------------------------------------------------------------------------
(* What the trace says is open.                                              *)

Recorded == [i \in DOMAIN kept |-> EventOf(kept[i])]

\* The trace calls a span open whose start the window holds and whose end it does not.
LEMMA CalledOpenIs ==
    ASSUME IInv, WindowInv, NEW id \in CalledOpen
    PROVE  /\ id \in Started(Range(kept))
           /\ \A e \in Range(kept) : ~(EventOf(e).Kind = "ended" /\ EventOf(e).SpanID = id)
<1>1. id \in started(Recorded) /\ EndOf(Recorded, id).Timestamp = -1
  <2>1. trace.Spans = subtrees(Recorded)
    BY DEF trace, Assemble, Recorded
  <2>2. DOMAIN subtrees(Recorded) = started(Recorded)
    BY DEF subtrees
  <2>3. id \in started(Recorded) /\ IsOpen(subtrees(Recorded)[id])
    BY <2>1, <2>2 DEF CalledOpen
  <2>4. subtrees(Recorded)[id].EndTime = EndOf(Recorded, id).Timestamp
    BY <2>3 DEF subtrees
  <2> QED
    BY <2>3, <2>4 DEF IsOpen
<1>2. id \in Started(Range(kept))
  BY <1>1 DEF started, ToSet, Recorded, Started, Range
<1>3. /\ DOMAIN kept = 1..Len(kept) /\ Len(kept) \in Nat
      /\ \A i \in DOMAIN kept : kept[i] \in Told
  BY QueuedIsTold, PassedIs DEF WindowInv
<1>4. ASSUME NEW e \in Range(kept), EventOf(e).Kind = "ended", EventOf(e).SpanID = id PROVE FALSE
  <2> DEFINE S == {i \in DOMAIN Recorded : Recorded[i].Kind = "ended" /\ Recorded[i].SpanID = id}
  <2>1. PICK i \in DOMAIN kept : e = kept[i]
    BY DEF Range
  <2>2. i \in S /\ S \subseteq 1..Len(kept)
    BY <1>3, <1>4, <2>1 DEF Recorded
  <2>3. IsFiniteSet(S) /\ S \subseteq Nat /\ S # {}
    <3>1. IsFiniteSet(1..Len(kept))
      BY <1>3, FS_Interval
    <3> HIDE DEF S
    <3>2. IsFiniteSet(S)
      BY <2>2, <3>1, FS_Subset
    <3> QED
      BY <1>3, <2>2, <3>2
  <2>4. Max(S) \in S
    <3> HIDE DEF S
    <3> QED
      BY <2>3, LargestIsThere
  <2>5. EndOf(Recorded, id) = Recorded[Max(S)]
    BY <2>3 DEF EndOf
  <2>6. PICK k \in DOMAIN kept : Recorded[Max(S)] = EventOf(kept[k])
    BY <2>4 DEF Recorded
  <2>7. EventOf(kept[k]).Timestamp \in Nat
    <3>1. kept[k] \in Told
      BY <1>3
    <3>2. kept[k][1] \in Emitters /\ kept[k][2] \in 1..sent[kept[k][1]] /\ WalkInv
      BY <3>1 DEF Told, IInv
    <3>3. kept[k][2] \in DOMAIN script[kept[k][1]] /\ IsProgram(script)
      BY <3>2, ToldIsScripted
    <3> QED
      BY <3>2, <3>3 DEF IsProgram, EventOf
  <2> QED
    BY <1>1, <2>5, <2>6, <2>7
<1> QED
  BY <1>2, <1>4

\* A span that the tracker was told began, and holds no longer, was ended later by
\* the fiber that began it, with an event the tracker was told of.
LEMMA EndIsTold ==
    ASSUME IInv, NEW d \in Told, EventOf(d).Kind = "started", EventOf(d).SpanID \notin Held
    PROVE  \E e \in Told : /\ EventOf(e).Kind = "ended" /\ EventOf(e).SpanID = EventOf(d).SpanID
                           /\ e[1] = d[1] /\ d[2] < e[2]
<1>1. EventOf(d).SpanID \in Ended(Told)
  BY DEF IInv, HeldInv, Held, Started
<1>2. PICK e \in Told : EventOf(e).Kind = "ended" /\ EventOf(e).SpanID = EventOf(d).SpanID
  BY <1>1 DEF Ended
<1>3. /\ d[1] \in Emitters /\ d[2] \in 1..sent[d[1]] /\ e[1] \in Emitters /\ e[2] \in 1..sent[e[1]]
      /\ WalkInv
  BY DEF Told, IInv
<1>4. d[2] \in DOMAIN script[d[1]] /\ e[2] \in DOMAIN script[e[1]] /\ IsProgram(script)
  BY <1>3, ToldIsScripted
<1>5. e[1] = d[1] /\ d[2] < e[2]
  BY <1>2, <1>3, <1>4 DEF IsProgram, EventOf
<1> QED
  BY <1>2, <1>5

\* An event that has passed the window and is not there was delivered inline, and too
\* many have passed -- if an earlier one of its fiber is there.
LEMMA ForgottenIs ==
    ASSUME IInv, WindowInv, Of!InlineInv,
           NEW d \in Range(kept), NEW e \in Passed \ Range(kept), d[1] = e[1], d[2] < e[2]
    PROVE  e \in inlined /\ count > Remembered
<1>1. d \in Passed /\ Passed \subseteq Handed /\ d[2] \in Nat /\ e[2] \in Nat
  BY QueuedIsTold, PassedIs DEF WindowInv, Range, Told
<1>2. count > Remembered
  BY WatchAssumption DEF WindowInv
<1>3. ASSUME e \in Range(delivered) PROVE FALSE
  <2>1. d \notin inlined
    BY <1>1, <1>3 DEF Of!InlineInv, Of!Range, Range
  <2>2. d \in Lined /\ e \in Lined
    BY <1>1, <1>3, <2>1 DEF Lined, Handed
  <2> QED
    BY <2>2 DEF WindowInv, InLine
<1> QED
  BY <1>1, <1>2, <1>3 DEF Handed

\* What is missing at rest has been counted.
LEMMA MissingIsCounted ==
    ASSUME IInv, Of!LossInv, Quiet, NEW e \in Of!Missing PROVE drops > 0
<1>1. Of!Counting = {} /\ Of!Missing \subseteq Emitted
  BY RestIsLost
<1>2. IsFiniteSet(Of!Missing) /\ Of!Missing # {}
  BY <1>1, AccountsAreFinite, FS_Subset
<1>3. Cardinality(Of!Missing) \in Nat \ {0}
  BY <1>2, FS_EmptySet, FS_CardinalityType
<1>4. Cardinality(Of!Missing) = drops + Cardinality({})
  BY <1>1 DEF Of!LossInv, Of!DropsAccountForLosses, Of!Counting, Of!Cardinality, Cardinality
<1>5. drops \in Nat
  BY DEF IInv, Of!OrderInv, Of!TypeOK
<1> QED
  BY <1>3, <1>4, <1>5, FS_EmptySet

\* Every span the trace calls open and the tracker has forgotten has an end that is on
\* its way, was dropped, or left the window before its start came, for every program,
\* number of fibers and size of the queue and of the window.
THEOREM TraceIsExplained == Spec => []OpenIsExplained
<1>1. ASSUME IInv, WindowInv, Of!InlineInv, Of!LossInv PROVE OpenIsExplained
  <2> SUFFICES ASSUME NEW id \in CalledOpen \ Held
               PROVE  \E item \in Emitted :
                        /\ EventOf(item).Kind = "ended" /\ EventOf(item).SpanID = id
                        /\ \/ item \notin Passed /\ item \notin Queue!Missing
                           \/ item \in Queue!Missing /\ (Quiet => drops > 0)
                           \/ item \in inlined /\ count > Remembered
    BY DEF OpenIsExplained
  <2>1. PICK d \in Range(kept) : EventOf(d).Kind = "started" /\ EventOf(d).SpanID = id
    BY <1>1, CalledOpenIs DEF Started
  <2>2. d \in Told
    BY <1>1, QueuedIsTold, PassedIs DEF WindowInv, Range
  <2>3. PICK e \in Told : /\ EventOf(e).Kind = "ended" /\ EventOf(e).SpanID = id
                          /\ e[1] = d[1] /\ d[2] < e[2]
    BY <1>1, <2>1, <2>2, EndIsTold
  <2>4. e \in Emitted
    BY <1>1, ToldIsEmitted
  <2>5. e \notin Range(kept)
    BY <1>1, <2>3, CalledOpenIs
  <2>6. e \in Passed => e \in inlined /\ count > Remembered
    BY <1>1, <2>1, <2>3, <2>5, ForgottenIs
  <2>7. Queue!Missing = Of!Missing
    BY DEF Queue!Missing, Of!Missing, Queue!Emitted, Of!Emitted, Queue!Event, Of!Event,
           Queue!InHand, Of!InHand, Queue!Item, Of!Item, Queue!Range, Of!Range
  <2>8. e \in Queue!Missing => (Quiet => drops > 0)
    BY <1>1, <2>7, MissingIsCounted
  <2> QED
    BY <2>3, <2>4, <2>6, <2>8
<1>2. Init => Of!Init
  BY DEF Init, Queue!Init, Of!Init
<1>3. Init => Of!LossInv /\ Of!InlineInv
  BY <1>2, BufferIsOne, Of!LossInit, Of!InlineInit
<1>4. Of!LossInv /\ [Next]_vars => Of!LossInv'
  BY BufferMoves, BufferIsOne, Of!LossStep
<1>5. IInv /\ Of!InlineInv /\ [Next]_vars => Of!InlineInv'
  BY BufferMoves, BufferIsOne, Of!InlineStep DEF IInv
<1> QED
  BY <1>1, <1>3, <1>4, <1>5, InitHolds, StepKeeps, LedgerInit, LedgerStep,
     WindowInit, WindowStep, PTL DEF Spec

==============================================================================
