------------------------------- MODULE Fibers -------------------------------
(* trace.Fibers: the fibers running right now, in a map under one mutex, and *)
(* the tree a reader is given of them.  A fiber is numbered when it is       *)
(* forked; its start is stamped and reported later, on its own goroutine, by *)
(* when its parent may have completed and younger siblings may have started. *)
EXTENDS Integers, SequencesExt

CONSTANTS MaxFibers,  \* bound: how many fibers the run forks
          Limit       \* bound: how far the clock runs

ASSUME FibersAssumption == MaxFibers \in Nat /\ Limit \in Nat

VARIABLES live,       \* fiber ID -> parent and start time, of the fibers held
          starts,     \* how many starts were seen
          ends,       \* how many ends of held fibers were seen
          stage,      \* where each forked fiber is in its life
          parent,     \* who forked it; 0 for a run nothing forked
          stamped,    \* the time its last boundary was stamped with
          now,        \* the runtime's clock
          installed,  \* the tracker is the runtime's observer by now
          seen        \* history: the fibers whose start was observed

tracker == <<live, starts, ends>>
vars == <<tracker, stage, parent, stamped, now, installed, seen>>

IDs == 1..MaxFibers
Forked == DOMAIN stage

\* NewFibers, with nothing running yet.
Init == /\ live = <<>>
        /\ starts = 0
        /\ ends = 0
        /\ stage = <<>>
        /\ parent = <<>>
        /\ stamped = <<>>
        /\ now = 0
        /\ installed = FALSE
        /\ seen = {}

Tick == /\ now < Limit
        /\ now' = now + 1
        /\ UNCHANGED <<tracker, stage, parent, stamped, installed, seen>>

Install == /\ ~installed
           /\ installed' = TRUE
           /\ UNCHANGED <<tracker, stage, parent, stamped, now, seen>>

\* A running fiber forks another, or the runtime runs an effect of its own.
Fork(p) == /\ Len(stage) < MaxFibers
           /\ p = 0 \/ (p \in Forked /\ stage[p] = "running")
           /\ stage' = Append(stage, "forked")
           /\ parent' = Append(parent, p)
           /\ stamped' = Append(stamped, 0)
           /\ UNCHANGED <<tracker, now, installed, seen>>

\* The runtime stamps a boundary of fiber f; its goroutine has yet to report it.
Stamp(f, from, to) == /\ stage[f] = from
                      /\ stage' = [stage EXCEPT ![f] = to]
                      /\ stamped' = [stamped EXCEPT ![f] = now]
                      /\ UNCHANGED <<tracker, parent, now, installed, seen>>

FiberStarted(f) == Stamp(f, "forked", "starting")
FiberCompleted(f) == Stamp(f, "running", "ending")

With(m, x, v) == [y \in DOMAIN m \cup {x} |-> IF y = x THEN v ELSE m[y]]
Without(m, x) == [y \in DOMAIN m \ {x} |-> m[y]]

\* Remember the fiber.
begin(f) == /\ live' = With(live, f, [ParentID |-> parent[f], StartTime |-> stamped[f]])
            /\ starts' = starts + 1
            /\ UNCHANGED ends

\* The definitions named ...Mutant are bugs this code could have had, each beside
\* the definition it would replace; no action uses them.
finishMutant(f) == /\ live' = Without(live, f)           \* unknown ends counted
                   /\ ends' = ends + 1
                   /\ UNCHANGED starts
\* Forget the fiber; an end whose start was not seen changes nothing.
finish(f) == IF f \in DOMAIN live
             THEN /\ live' = Without(live, f)
                  /\ ends' = ends + 1
                  /\ UNCHANGED starts
             ELSE UNCHANGED tracker

\* Observe, called on the fiber's own goroutine once the tracker is installed.
ObserveStart(f) == /\ stage[f] = "starting"
                   /\ stage' = [stage EXCEPT ![f] = "running"]
                   /\ IF installed THEN begin(f) /\ seen' = seen \cup {f}
                      ELSE UNCHANGED <<tracker, seen>>
                   /\ UNCHANGED <<parent, stamped, now, installed>>

ObserveEnd(f) == /\ stage[f] = "ending"
                 /\ stage' = [stage EXCEPT ![f] = "over"]
                 /\ IF installed THEN finish(f) ELSE UNCHANGED tracker
                 /\ UNCHANGED <<parent, stamped, now, installed, seen>>

Done == /\ Len(stage) = MaxFibers
        /\ \A f \in Forked : stage[f] = "over"
        /\ UNCHANGED vars

Next == \/ Tick \/ Install
        \/ \E p \in Forked \cup {0} : Fork(p)
        \/ \E f \in Forked : \/ FiberStarted(f) \/ ObserveStart(f)
                             \/ FiberCompleted(f) \/ ObserveEnd(f)
        \/ Done

Spec == Init /\ [][Next]_vars

-----------------------------------------------------------------------------
(* What a reader gets from one locked look.                                  *)

Count == Cardinality(DOMAIN live)

sortOldestFirstMutant(ids) == SetToSortSeq(ids, <)       \* by identity alone

\* By the runtime's timestamp, the identity breaking a tie.
Older(f, g) == \/ live[f].StartTime < live[g].StartTime
               \/ live[f].StartTime = live[g].StartTime /\ f < g
sortOldestFirst(ids) ==
    CHOOSE s \in [1..Cardinality(ids) -> ids] :
        \A i, j \in 1..Cardinality(ids) : i < j => Older(s[i], s[j])

IsChildMutant(f) == live[f].ParentID # 0        \* forked by anybody, alive or not

\* A fiber hangs under its parent while the parent is held too.
IsChild(f) == live[f].ParentID \in DOMAIN live /\ live[f].ParentID # f

Children(f) == {g \in DOMAIN live : IsChild(g) /\ live[g].ParentID = f}
Roots == {f \in DOMAIN live : ~IsChild(f)}

\* A fiber and, after it and one deeper, what hangs under it: its children oldest
\* first, each with its own before the next.
Deeper(rows) == [i \in DOMAIN rows |-> [rows[i] EXCEPT !.depth = @ + 1]]
subtree[f \in IDs] ==
    LET childIDs == sortOldestFirst(Children(f))
    IN  <<[ID |-> f, depth |-> 0]>> \o
        FlattenSeq([i \in DOMAIN childIDs |-> Deeper(subtree[childIDs[i]])])

\* The tree, walked from the top.
Tree == LET roots == sortOldestFirst(Roots)
        IN  FlattenSeq([i \in DOMAIN roots |-> subtree[roots[i]]])

-----------------------------------------------------------------------------
\* The tracker holds exactly the fibers it saw start and has not seen complete,
\* whenever it was installed, and Starts and Ends differ by what Count reports:
\* once every fiber is over it holds nothing.
HoldsWhatRuns ==
    /\ DOMAIN live = {f \in seen : stage[f] \in {"running", "ending"}}
    /\ starts - ends = Count
    /\ starts = Cardinality(seen)

\* The tree shows every fiber held exactly once, whatever order parents and
\* children completed in: one whose parent has gone is a root, and every other
\* comes after its parent, one level deeper, with nothing of the parent's own
\* level or above between them.
ListsEachOnce ==
    /\ Len(Tree) = Count
    /\ {Tree[i].ID : i \in DOMAIN Tree} = DOMAIN live
    /\ \A j \in DOMAIN Tree :
         LET up == live[Tree[j].ID].ParentID
         IN  IF up \in DOMAIN live
             THEN \E i \in 1..(j - 1) :
                    /\ Tree[i].ID = up
                    /\ Tree[j].depth = Tree[i].depth + 1
                    /\ \A k \in (i + 1)..(j - 1) : Tree[k].depth > Tree[i].depth
             ELSE Tree[j].depth = 0

\* The fiber listed first is the one that has been running longest of all that
\* are held: roots are sorted by start, and no fiber starts before its parent.
LongestRunningFirst ==
    Tree # <<>> => \A f \in DOMAIN live : live[Tree[1].ID].StartTime <= live[f].StartTime
=============================================================================
