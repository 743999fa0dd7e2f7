------------------------------ MODULE Assemble ------------------------------
(* trace.Assemble and trace.Trace: a finite sequence of events folded into   *)
(* the forest of spans they came from, and that forest read back as lines.   *)
(* Pure operators over a sequence of events                                  *)
(*   [Kind, SpanID, ParentID, Timestamp, Duration, Status, Number],          *)
(* Kind "started", "ended" or anything else.                                 *)
EXTENDS Integers, SequencesExt

\* EndTime.IsZero()
IsOpen(span) == span.EndTime = -1

StartOf(events, id) ==
    events[Max({i \in DOMAIN events : events[i].Kind = "started" /\ events[i].SpanID = id})]

\* First pass: the spans whose start is among the events.
started(events) == {e.SpanID : e \in {f \in ToSet(events) : f.Kind = "started"}}

NoEnd == [Timestamp |-> -1, Duration |-> 0, Status |-> "none"]

\* The definitions named ...Mutant are bugs this code could have had, each beside
\* the definition it would replace; nothing uses them.
EndOfMutant(events, id) ==                             \* the parent's end ends it too
    LET at == {i \in DOMAIN events : /\ events[i].Kind = "ended"
                                     /\ events[i].SpanID \in {id, StartOf(events, id).ParentID}}
    IN  IF at = {} THEN NoEnd ELSE events[Max(at)]

\* endSpan: what its end says of a span, the zero values while it has none.
EndOf(events, id) ==
    LET at == {i \in DOMAIN events : events[i].Kind = "ended" /\ events[i].SpanID = id}
    IN  IF at = {} THEN NoEnd ELSE events[Max(at)]

\* A span's own events, in the order of their timestamps and then of arrival.
OwnEvents(events, id) ==
    LET at == {i \in DOMAIN events : /\ events[i].Kind \notin {"started", "ended"}
                                     /\ events[i].SpanID = id}
        inTime == SetToSortSeq(at, LAMBDA i, j :
                     \/ events[i].Timestamp < events[j].Timestamp
                     \/ events[i].Timestamp = events[j].Timestamp /\ i < j)
    IN  [k \in DOMAIN inTime |-> events[inTime[k]]]

LooseMutant(events) ==                                 \* an end is never loose
    SelectSeq(events, LAMBDA e : e.Kind \notin {"started", "ended"} /\ e.SpanID \notin started(events))

\* Second pass: what belongs to no span of this collection.
Loose(events) ==
    SelectSeq(events, LAMBDA e : e.Kind # "started" /\ e.SpanID \notin started(events))

\* nest: a span hangs under its parent when the parent is in the collection too.
EnclosedMutant(events, id) ==                          \* an ended parent gives it up
    LET parent == StartOf(events, id).ParentID
    IN  parent \in started(events) /\ EndOf(events, parent) = NoEnd

Enclosed(events, id) ==
    LET parent == StartOf(events, id).ParentID
    IN  parent \in started(events) /\ parent # id

inOrderMutant(events, ids) ==                          \* as they arrived
    LET arrived == SelectSeq(events, LAMBDA e : e.Kind = "started" /\ e.SpanID \in ids)
    IN  [i \in DOMAIN arrived |-> arrived[i].SpanID]

\* byStart: siblings by start time, the identity breaking a tie.
inOrder(events, ids) ==
    SetToSortSeq(ids, LAMBDA s, t :
        LET a == StartOf(events, s).Timestamp
            b == StartOf(events, t).Timestamp
        IN  a < b \/ (a = b /\ s < t))

\* The spans by identity, each with its children's identities.
subtrees(events) ==
    [id \in started(events) |->
        [ID |-> id,
         StartTime |-> StartOf(events, id).Timestamp,
         EndTime |-> EndOf(events, id).Timestamp,
         Duration |-> EndOf(events, id).Duration,
         Status |-> EndOf(events, id).Status,
         Events |-> OwnEvents(events, id),
         Children |-> inOrder(events, {s \in started(events) :
                                         /\ Enclosed(events, s)
                                         /\ StartOf(events, s).ParentID = id})]]

Assemble(events) ==
    [Roots |-> inOrder(events, {s \in started(events) : ~Enclosed(events, s)}),
     Spans |-> subtrees(events),
     Loose |-> Loose(events)]

-----------------------------------------------------------------------------
(* The forest read back: renderSpan and renderInside, which visit what Walk  *)
(* visits, in its order.  A line is a span, or an event inside one.          *)

SpanLine(span, depth) == [depth |-> depth, ID |-> span.ID, Number |-> 0,
                          Time |-> span.StartTime]
EventLine(event, depth) == [depth |-> depth, ID |-> event.SpanID, Number |-> event.Number,
                            Time |-> event.Timestamp]

takeEventMutant(trace, span, events, children) ==      \* every event, then every child
    events < Len(span.Events)

\* Whether the next line inside a span is an event rather than a child.
takeEvent(trace, span, events, children) ==
    \/ children = Len(span.Children)
    \/ /\ events < Len(span.Events)
       /\ span.Events[events + 1].Timestamp
            <= trace.Spans[span.Children[children + 1]].StartTime

Render(trace) ==
    LET size == Cardinality(DOMAIN trace.Spans)
        renderSpan[id \in DOMAIN trace.Spans, depth \in 0..size] ==
            LET span == trace.Spans[id]
                renderInside[events \in 0..Len(span.Events),
                             children \in 0..Len(span.Children)] ==
                    IF events = Len(span.Events) /\ children = Len(span.Children) THEN <<>>
                    ELSE IF takeEvent(trace, span, events, children)
                    THEN <<EventLine(span.Events[events + 1], depth + 1)>>
                           \o renderInside[events + 1, children]
                    ELSE renderSpan[span.Children[children + 1], depth + 1]
                           \o renderInside[events, children + 1]
            IN  <<SpanLine(span, depth)>> \o renderInside[0, 0]
    IN  FlattenSeq([i \in DOMAIN trace.Roots |-> renderSpan[trace.Roots[i], 0]])

-----------------------------------------------------------------------------
(* Asking the forest: Walk and the questions spansWhere answers by it.       *)

\* Every span with its depth, parents before children, siblings oldest first.
Walk(trace) ==
    LET size == Cardinality(DOMAIN trace.Spans)
        walk[id \in DOMAIN trace.Spans, depth \in 0..size] ==
            LET children == trace.Spans[id].Children
            IN  <<[ID |-> id, depth |-> depth]>> \o
                FlattenSeq([i \in DOMAIN children |-> walk[children[i], depth + 1]])
    IN  FlattenSeq([i \in DOMAIN trace.Roots |-> walk[trace.Roots[i], 0]])

IsUnsuccessful(span) == span.Status \in {"failure", "defect", "interrupted"}

Spans(trace) == LET visited == Walk(trace) IN [i \in DOMAIN visited |-> visited[i].ID]
Open(trace) == SelectSeq(Spans(trace), LAMBDA id : IsOpen(trace.Spans[id]))
Unsuccessful(trace) == SelectSeq(Spans(trace), LAMBDA id : IsUnsuccessful(trace.Spans[id]))

Descendants(trace, id) ==
    LET beneath[s \in DOMAIN trace.Spans] ==
            FoldSeq(LAMBDA child, n : 1 + beneath[child] + n, 0, trace.Spans[s].Children)
    IN  beneath[id]

SelfMutant(trace, id) ==                                  \* its longest child alone
    LET span == trace.Spans[id]
        longest == Max({trace.Spans[c].Duration : c \in ToSet(span.Children)} \cup {0})
    IN  IF IsOpen(span) \/ longest >= span.Duration THEN 0 ELSE span.Duration - longest

\* How long the span took that its children did not; zero while it is open.
Self(trace, id) ==
    LET span == trace.Spans[id]
        inside == FoldSeq(LAMBDA child, n : trace.Spans[child].Duration + n, 0, span.Children)
    IN  IF IsOpen(span) \/ inside >= span.Duration THEN 0 ELSE span.Duration - inside
=============================================================================
