------------------------------- MODULE Trace -------------------------------
(* A live tool's trace: events of a concurrent program, kept by a bounded    *)
(* window and assembled into a tree whenever somebody looks.  Events are     *)
(* stamped where they happen and arrive later, so the window holds them in   *)
(* arrival order and begins wherever the program happened to be.             *)
EXTENDS Assemble

Statuses == {"none", "success", "failure", "defect", "interrupted"}

CONSTANTS Scales,     \* bounds: the runs considered, each by how many events the
                      \*   window has room for and how many spans, other events
                      \*   and ticks of the clock there may be
          Emitters,   \* bound: how many fibers are reporting an event at once
          Outcomes    \* how each span ends, if it does

ASSUME TraceAssumption ==
    /\ Scales \subseteq [room : Nat \ {0}, spans : Nat, said : Nat, ticks : Nat]
    /\ \A s \in Scales : 1..s.spans \subseteq DOMAIN Outcomes
    /\ Range(Outcomes) \subseteq Statuses
    /\ Emitters \in Nat

VARIABLES scale,      \* the bounds of this run
          stage,      \* where each span is in its life
          parentOf,   \* the span each one was opened in; 0 for none
          since,      \* when each one started
          pending,    \* the events stamped and not yet observed
          said,       \* how many other events were emitted
          now,        \* the runtime's clock
          kept,       \* the window's contents
          count       \* how many events the window ever saw

vars == <<scale, stage, parentOf, since, pending, said, now, kept, count>>

Event == [Kind : {"started", "ended", "said"}, SpanID : Nat, ParentID : Nat,
          Timestamp : Nat, Duration : Nat, Status : Statuses, Number : Nat]

Window == INSTANCE Window WITH room <- scale.room, Thing <- Event

Opened == DOMAIN stage

Init == /\ scale \in Scales
        /\ stage = <<>>
        /\ parentOf = <<>>
        /\ since = <<>>
        /\ pending = {}
        /\ said = 0
        /\ now = 0
        /\ Window!Init

Tick == /\ now < scale.ticks
        /\ now' = now + 1
        /\ UNCHANGED <<scale, stage, parentOf, since, pending, said, kept, count>>

\* A fiber reports an event before it goes on, so only so many are pending.
Emit(event) ==
    /\ Cardinality(pending) < Emitters
    /\ pending' = pending \cup {event}
    /\ UNCHANGED <<scale, now, kept, count>>

Boundary(kind, id, parent) ==
    [Kind |-> kind, SpanID |-> id, ParentID |-> parent, Timestamp |-> now,
     Duration |-> 0, Status |-> "none", Number |-> 0]

\* A span opens inside a running one, on its fiber or on one forked from it.
SpanStarted(parent) == /\ Len(stage) < scale.spans
                       /\ parent = 0 \/ (parent \in Opened /\ stage[parent] = "running")
                       /\ stage' = Append(stage, "starting")
                       /\ parentOf' = Append(parentOf, parent)
                       /\ since' = Append(since, now)
                       /\ Emit(Boundary("started", Len(stage) + 1, parent))
                       /\ UNCHANGED said

\* Anything else happens inside a span, on any of the fibers inside it, or outside.
Said(id) == /\ said < scale.said
            /\ id = 0 \/ (id \in Opened /\ stage[id] = "running")
            /\ said' = said + 1
            /\ Emit([Boundary("said", id, 0) EXCEPT !.Number = said + 1])
            /\ UNCHANGED <<stage, parentOf, since>>

\* The runtime measures a span when it ends.
SpanEnded(id) == /\ stage[id] = "running"
                 /\ stage' = [stage EXCEPT ![id] = "ending"]
                 /\ Emit([Boundary("ended", id, parentOf[id]) EXCEPT
                             !.Duration = now - since[id], !.Status = Outcomes[id]])
                 /\ UNCHANGED <<parentOf, since, said>>

\* An event reaches the window.  The fiber that opened a span reports its start
\* before anything happens in it.
Arrive == \E event \in pending :
            /\ UNCHANGED <<scale, parentOf, since, said, now>>
            /\ Window!Arrive(event)
            /\ pending' = pending \ {event}
            /\ stage' = CASE event.Kind = "started" -> [stage EXCEPT ![event.SpanID] = "running"]
                          [] event.Kind = "ended" -> [stage EXCEPT ![event.SpanID] = "over"]
                          [] OTHER -> stage

Next == \/ Tick
        \/ \E id \in Opened \cup {0} : SpanStarted(id) \/ Said(id)
        \/ \E id \in Opened : SpanEnded(id)
        \/ Arrive

Spec == Init /\ [][Next]_vars

-----------------------------------------------------------------------------
trace == Assemble(kept)
lines == Render(trace)

\* Every event of the window is told once: a start as its span's line, an end as
\* that span being over, anything else as a line inside its span -- or, when its
\* span's start is not in the window, as loose.  Nothing is told that the window
\* does not hold.
EveryEventOnce ==
    LET tree == trace
        told == Render(tree)
        heads == SelectSeq(told, LAMBDA l : l.Number = 0)
        inside == SelectSeq(told, LAMBDA l : l.Number # 0)
        over == {id \in DOMAIN tree.Spans : ~IsOpen(tree.Spans[id])}
    IN  /\ [i \in DOMAIN heads |-> [ID |-> heads[i].ID, depth |-> heads[i].depth]] = Walk(tree)
        /\ Len(heads) + Len(inside) + Len(tree.Loose) + Cardinality(over) = Len(kept)
        /\ {heads[i].ID : i \in DOMAIN heads} = started(kept)
        /\ {inside[i].Number : i \in DOMAIN inside} \cup
             {e.Number : e \in {f \in ToSet(tree.Loose) : f.Kind = "said"}}
             = {e.Number : e \in {f \in ToSet(kept) : f.Kind = "said"}}

\* The tree agrees with the program: of the spans whose start the window still
\* holds, those it calls open are those whose end has not arrived, and those it
\* calls unsuccessful are those that ended so, however many events the window has
\* forgotten in between; and a parent is named before what it enclosed.
OpenIsTrue ==
    LET tree == trace
        known(stages) == {id \in started(kept) : stage[id] \in stages}
        parentsFirst(ids) == \A i, j \in DOMAIN ids : parentOf[ids[i]] = ids[j] => j < i
    IN  /\ ToSet(Open(tree)) = known({"running", "ending"})
        /\ ToSet(Unsuccessful(tree)) = {id \in known({"over"}) :
                                          Outcomes[id] \notin {"none", "success"}}
        /\ parentsFirst(Open(tree)) /\ parentsFirst(Unsuccessful(tree))

\* Every span is shown once, under its parent if the window holds the parent's
\* start and as a root otherwise; and Descendants counts what is shown beneath it.
NestedAsOpened ==
    LET tree == trace
        told == Render(tree)
        beneath(j) == {k \in DOMAIN told : /\ k > j /\ told[k].Number = 0
                                           /\ \A i \in (j + 1)..k : told[i].depth > told[j].depth}
    IN
    \A j \in DOMAIN told :
        LET id == told[j].ID
            up == IF told[j].Number = 0 THEN parentOf[id] ELSE id
        IN  /\ IF up \in started(kept)
               THEN \E i \in 1..(j - 1) :
                      /\ told[i].ID = up /\ told[i].Number = 0
                      /\ told[j].depth = told[i].depth + 1
                      /\ \A k \in (i + 1)..(j - 1) : told[k].depth > told[i].depth
               ELSE told[j].depth = 0
            /\ told[j].Number = 0 => Descendants(tree, id) = Cardinality(beneath(j))

\* span.go:74-75, Self is "how long the span took that its children did not".  It
\* is at most the time the span ran with no finished child of the window running,
\* and just that as long as those children ran inside it and one after the other.
Ran(span) == span.StartTime..(span.EndTime - 1)
SelfIsTimeAlone ==
    LET tree == trace IN
    \A id \in DOMAIN tree.Spans :
        LET span == tree.Spans[id]
            over == {c \in ToSet(span.Children) : ~IsOpen(tree.Spans[c])}
            alone == Ran(span) \ UNION {Ran(tree.Spans[c]) : c \in over}
            nested == /\ \A c \in over : Ran(tree.Spans[c]) \subseteq Ran(span)
                      /\ \A c, d \in over :
                            c # d => Ran(tree.Spans[c]) \cap Ran(tree.Spans[d]) = {}
        IN  ~IsOpen(span) => /\ Self(tree, id) <= Cardinality(alone)
                             /\ nested => Self(tree, id) = Cardinality(alone)

\* Inside one span, and among the roots, lines are in the order things happened,
\* though they arrived in another and children and events are merged.
Chronological ==
    LET told == lines IN
    \A i, j \in DOMAIN told :
        /\ i < j
        /\ told[i].depth = told[j].depth
        /\ \A k \in i..j : told[k].depth >= told[i].depth
        => told[i].Time <= told[j].Time

\* The order of arrival makes no difference to the tree, only to what it tells of
\* one span at one instant: any two events may arrive the other way round.
Swapped(i) == [kept EXCEPT ![i] = kept[i + 1], ![i + 1] = kept[i]]
SameMoment(e, f) == e.Kind = "said" /\ f.Kind = "said"
                      /\ e.SpanID = f.SpanID /\ e.Timestamp = f.Timestamp
ArrivalIsIrrelevant ==
    LET told == lines IN
    \A i \in 1..(Len(kept) - 1) :
        ~SameMoment(kept[i], kept[i + 1]) => Render(Assemble(Swapped(i))) = told
=============================================================================
