-------------------------------- MODULE Spans --------------------------------
(* trace.Spans: the spans open right now, in two maps under one mutex.  The  *)
(* runtime stamps a boundary on the fiber that crosses it and only then      *)
(* calls the observer, so boundaries of different fibers are stamped in one  *)
(* order and may be observed in another.  A tracker may be installed while   *)
(* the program is running: it never sees some of the starts.                 *)
EXTENDS Integers, SequencesExt

CONSTANTS SpanIDs,    \* the spans of the run; each starts and ends once
          Limit       \* bound: how far the clock runs

ASSUME SpansAssumption == IsFiniteSet(SpanIDs) /\ Limit \in Nat

VARIABLES open,       \* span ID -> start time, of the spans held
          order,      \* span ID -> opening number
          next,       \* the next opening number
          starts,     \* how many starts were seen
          ends,       \* how many ends of held spans were seen
          stage,      \* where each span is in its life
          stamped,    \* the time its last boundary was stamped with
          now,        \* the runtime's clock
          seen        \* history: the spans whose start was observed, in order

tracker == <<open, order, next, starts, ends>>
vars == <<tracker, stage, stamped, now, seen>>

Stages == {"before", "starting", "running", "ending", "over"}

Without(f, x) == [y \in DOMAIN f \ {x} |-> f[y]]
With(f, x, v) == [y \in DOMAIN f \cup {x} |-> IF y = x THEN v ELSE f[y]]

\* NewSpans, installed before the run or in the middle of it.
Init == /\ open = <<>>
        /\ order = <<>>
        /\ next = 0
        /\ starts = 0
        /\ ends = 0
        /\ stage \in [SpanIDs -> {"before", "running"}]
        /\ stamped = [s \in SpanIDs |-> 0]
        /\ now = 0
        /\ seen = <<>>

Tick == /\ now < Limit
        /\ now' = now + 1
        /\ UNCHANGED <<tracker, stage, stamped, seen>>

\* The runtime stamps a boundary of span s; its fiber has yet to report it.
Stamp(s, from, to) == /\ stage[s] = from
                      /\ stage' = [stage EXCEPT ![s] = to]
                      /\ stamped' = [stamped EXCEPT ![s] = now]
                      /\ UNCHANGED <<tracker, now, seen>>

SpanStarted(s) == Stamp(s, "before", "starting")
SpanEnded(s) == Stamp(s, "running", "ending")

\* The definitions named ...Mutant are bugs this code could have had, each beside
\* the definition it would replace; no action uses them.
beginMutant(s) == /\ open' = With(open, s, stamped[s])      \* numbered by how many are open
                  /\ order' = With(order, s, Cardinality(DOMAIN open))
                  /\ next' = next + 1
                  /\ starts' = starts + 1
                  /\ UNCHANGED ends

\* Remember the span and the order it came in.
begin(s) == /\ open' = With(open, s, stamped[s])
            /\ order' = With(order, s, next)
            /\ next' = next + 1
            /\ starts' = starts + 1
            /\ UNCHANGED ends

finishMutant1(s) == IF s \in DOMAIN open              \* its order kept
                    THEN /\ open' = Without(open, s)
                         /\ ends' = ends + 1
                         /\ UNCHANGED <<order, next, starts>>
                    ELSE UNCHANGED tracker
finishMutant2(s) == /\ open' = Without(open, s)       \* unknown ends counted
                    /\ order' = Without(order, s)
                    /\ ends' = ends + 1
                    /\ UNCHANGED <<next, starts>>

\* Forget the span; an end whose start was not seen changes nothing.
finish(s) == IF s \in DOMAIN open
             THEN /\ open' = Without(open, s)
                  /\ order' = Without(order, s)
                  /\ ends' = ends + 1
                  /\ UNCHANGED <<next, starts>>
             ELSE UNCHANGED tracker

\* Observe, called by the fiber that crossed the boundary.
ObserveStart(s) == /\ stage[s] = "starting"
                   /\ stage' = [stage EXCEPT ![s] = "running"]
                   /\ begin(s)
                   /\ seen' = Append(seen, s)
                   /\ UNCHANGED <<stamped, now>>

ObserveEnd(s) == /\ stage[s] = "ending"
                 /\ stage' = [stage EXCEPT ![s] = "over"]
                 /\ finish(s)
                 /\ UNCHANGED <<stamped, now, seen>>

Done == /\ \A s \in SpanIDs : stage[s] = "over"
        /\ UNCHANGED vars

Next == \/ Tick
        \/ \E s \in SpanIDs : \/ SpanStarted(s) \/ ObserveStart(s)
                              \/ SpanEnded(s) \/ ObserveEnd(s)
        \/ Done

Spec == Init /\ [][Next]_vars

-----------------------------------------------------------------------------
(* What a reader gets from one locked look.                                  *)

Count == Cardinality(DOMAIN open)

\* The spans held, sorted by their numbers.
Open == CHOOSE sorted \in [1..Count -> DOMAIN open] :
            /\ ToSet(sorted) = DOMAIN open
            /\ \A i, j \in 1..Count : i < j => order[sorted[i]] <= order[sorted[j]]

-----------------------------------------------------------------------------
TypeOK == /\ DOMAIN open \subseteq SpanIDs
          /\ \A s \in DOMAIN open : open[s] \in 0..Limit
          /\ DOMAIN order = DOMAIN open
          /\ \A s \in DOMAIN order : order[s] \in 0..(next - 1)
          /\ next \in Nat /\ starts \in Nat /\ ends \in Nat
          /\ stage \in [SpanIDs -> Stages]
          /\ stamped \in [SpanIDs -> 0..Limit]
          /\ now \in 0..Limit
          /\ seen \in Seq(SpanIDs)

\* The tracker holds exactly the spans it saw start and has not seen end, each
\* with the time it started, whatever else was going on when it was installed;
\* and the gap between Starts and Ends is the number Count reports.
HoldsWhatIsOpen ==
    /\ DOMAIN open = {s \in ToSet(seen) : stage[s] \in {"running", "ending"}}
    /\ \A s \in DOMAIN open : stage[s] = "running" => open[s] = stamped[s]
    /\ starts - ends = Count
    /\ starts = Len(seen)

\* Open lists the spans in the order their starts were observed, so two spans
\* never swap places between two readings however many others come and go.
OpenInOrderSeen ==
    /\ ToSet(Open) = DOMAIN open /\ IsInjective(Open)
    /\ \A i, j \in DOMAIN Open : \A m, n \in DOMAIN seen :
         i < j /\ Open[i] = seen[m] /\ Open[j] = seen[n] => m < n
=============================================================================
