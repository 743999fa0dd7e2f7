------------------------------- MODULE Series -------------------------------
(* process.Series: readings of the process taken by whoever looks at it, in  *)
(* a ring under one mutex.  Sample reads the counters first and locks the    *)
(* ring afterwards, so another sampler's reading may be added in between.    *)
(* The ring is the one Recent keeps, slot for slot.                          *)
EXTENDS Sequences, Change

CONSTANTS Samplers,   \* the goroutines that call Sample
          Capacity,   \* len(slots); NewSeries refuses fewer than two
          Zero,       \* an unwritten slot
          None,       \* a sampler with no reading in hand
          Limit,      \* bound: how far the clock runs
          MaxTotal    \* bound: how many readings are added

\* A reading, as far as Diff can tell two apart.
Reading == [Time : 0..Limit, Counters : [{"AllocBytes"} -> 0..Limit],
            CPU : [total : 0..(2 * Limit), idle : 0..Limit, gc : 0..Limit], Threads : {1}]

ASSUME SeriesAssumption == /\ Capacity \in Nat \ {0, 1}
                           /\ Limit \in Nat
                           /\ MaxTotal \in Nat
                           /\ Width \in Nat /\ Limit < Width
                           /\ IsFiniteSet(Samplers)
                           /\ Zero \notin Reading /\ None \notin Reading

VARIABLES slots, next, full, total,   \* the ring
          now,                        \* the process's counters as they stand
          inHand                      \* what each sampler has read and not added

vars == <<slots, next, full, total, now, inHand>>

Ring == INSTANCE Recent WITH Thing <- Reading, wrapped <- full

Init == /\ Ring!Init
        /\ now = [Time |-> 0, Counters |-> [c \in {"AllocBytes"} |-> 0],
                  CPU |-> [total |-> 0, idle |-> 0, gc |-> 0], Threads |-> 1]
        /\ inHand = [s \in Samplers |-> None]

\* A unit of time on one thread: idle, spent on work that allocates -- its CPU time
\* may be accounted late, and so exceed what the clock allowed -- or collecting.
Idle == [now EXCEPT !.CPU.total = @ + 1, !.CPU.idle = @ + 1]
Busily == [now EXCEPT !.CPU.total = @ + 2, !.Counters["AllocBytes"] = @ + 1]
Collecting == [now EXCEPT !.CPU.total = @ + 1, !.CPU.gc = @ + 1]

Tick == /\ now.Time < Limit
        /\ \E later \in {Idle, Busily, Collecting} : now' = [later EXCEPT !.Time = @ + 1]
        /\ UNCHANGED <<slots, next, full, total, inHand>>

\* Read: the counters as they stand, into the sampler's hand.
Read(s) == /\ inHand[s] = None
           /\ inHand' = [inHand EXCEPT ![s] = now]
           /\ UNCHANGED <<slots, next, full, total, now>>

\* Add: the reading enters the ring in one locked step and Sample returns.
Add(s) == /\ inHand[s] # None
          /\ Ring!Observe(inHand[s])
          /\ inHand' = [inHand EXCEPT ![s] = None]
          /\ UNCHANGED now

Finished == total = MaxTotal /\ UNCHANGED vars

Next == \/ Tick
        \/ \E s \in Samplers : Read(s) \/ Add(s)
        \/ Finished

Spec == Init /\ [][Next]_vars

-----------------------------------------------------------------------------
(* What a reader computes from one locked copy of the ring.                  *)

Readings == Ring!Events

HasChange == Len(Readings) >= 2
WholeChange == Diff(Readings[1], Readings[Len(Readings)])

-----------------------------------------------------------------------------
\* A change never reports more than the process ever did, of memory, of CPU or of
\* collecting, although two samplers may add their readings in the wrong order and
\* the counters are unsigned: a difference taken backwards is zero and not 2^64
\* bytes.  Its shares stay between nothing and everything, its rate is never
\* negative, even then and when CPU time is accounted late.
ChangeIsPossible ==
    HasChange =>
      LET change == WholeChange
          share(ratio) == 0 <= ratio[1] /\ ratio[1] <= ratio[2]
      IN  /\ change.Spent["AllocBytes"] <= now.Counters["AllocBytes"]
          /\ change.CPUSeconds <= workSeconds(now)
          /\ change.GCCPUSeconds <= now.CPU.gc
          /\ share(Busy(change)) /\ share(GCShare(change))
          /\ AllocationRate(change)[1] >= 0 /\ AllocationRate(change)[2] > 0

\* series.go:60: "Readings are what the series holds, oldest first."  With one
\* sampler they are.  Sample reads the clock before it takes the lock, so several
\* can add theirs in another order, but each sampler's own stay in order, and so
\* no more readings than there are samplers are ever each older than the last.
OldestFirst ==
    \A run \in kSubset(Cardinality(Samplers) + 1, DOMAIN Readings) :
        \E i, j \in run : i < j /\ Readings[i].Time <= Readings[j].Time
=============================================================================
