------------------------------ MODULE Collector ------------------------------
(* metrics.Collector: counts and histograms per bounded label, under one     *)
(* mutex held for the whole of Observe and the whole of Snapshot, so each is *)
(* one step.                                                                 *)
EXTENDS Integers, SequencesExt, Distribution

CONSTANTS Declared,    \* the names given to NewVocabulary
          Bounds,      \* the bounds given to NewCollector
          Default,     \* DefaultBoundaries
          Shares,      \* the shares a reader asks quantiles for
          Loads        \* bounds: which events may arrive, and how many

Other == "other"
Anonymous == ""

\* NewVocabulary: the two reserved names cannot be declared.
operations == Declared \ {Anonymous, Other}
boundaries == sortBoundaries(Bounds, Default)

ASSUME CollectorAssumption ==
    /\ \A load \in Loads : load.most \in Nat
    /\ \A share \in Shares : share[1] \in Int /\ share[2] \in Nat \ {0}

VARIABLES load,        \* one of Loads
          counts,      \* label -> how many events carried it
          durations,   \* label -> histogram, where an event had a duration
          delays,      \* label -> histogram, where an event had a delay
          arrived      \* history: event -> how often it arrived

vars == <<load, counts, durations, delays, arrived>>

Init == /\ load \in Loads
        /\ counts = <<>>
        /\ durations = <<>>
        /\ delays = <<>>
        /\ arrived = [event \in load.events |-> 0]

\* The definitions named ...Mutant are bugs this code could have had, each beside
\* the definition it would replace; no action uses them.
labelForMutant(event) ==                               \* every name its own label
    [Kind |-> event.Kind, Status |-> event.Status, Operation |-> event.Operation]

labelFor(event) ==
    [Kind |-> event.Kind, Status |-> event.Status,
     Operation |-> CASE event.Operation = Anonymous -> Anonymous
                     [] event.Operation \in operations -> event.Operation
                     [] OTHER -> Other]

With(m, x, v) == [y \in DOMAIN m \cup {x} |-> IF y = x THEN v ELSE m[y]]

histogramFor(histograms, label) ==
    IF label \in DOMAIN histograms THEN histograms[label] ELSE newHistogram(boundaries)

\* A measurement the event does not carry is not recorded.
measured(histograms, label, value) ==
    IF value > 0 THEN With(histograms, label, add(histogramFor(histograms, label), value))
    ELSE histograms

Arrivals(these) == MapThenSumSet(LAMBDA event : arrived[event], these)

Observe(event) ==
    LET label == labelFor(event)
    IN  /\ Arrivals(load.events) < load.most
        /\ counts' = With(counts, label,
                          IF label \in DOMAIN counts THEN counts[label] + 1 ELSE 1)
        /\ durations' = measured(durations, label, event.Duration)
        /\ delays' = measured(delays, label, event.Delay)
        /\ arrived' = [arrived EXCEPT ![event] = @ + 1]
        /\ UNCHANGED load

Done == Arrivals(load.events) = load.most /\ UNCHANGED vars

Next == (\E event \in load.events : Observe(event)) \/ Done

Spec == Init /\ [][Next]_vars

-----------------------------------------------------------------------------
(* What a reader gets from one locked look.                                  *)

Labels == DOMAIN counts \cup DOMAIN durations \cup DOMAIN delays

Total(kind) ==
    MapThenSumSet(LAMBDA label : counts[label], {l \in DOMAIN counts : l.Kind = kind})

Unsuccessful(kind) ==
    MapThenSumSet(LAMBDA label : counts[label],
                  {l \in DOMAIN counts : /\ l.Kind = kind
                                         /\ l.Status \in {"failure", "defect", "interrupted"}})

-----------------------------------------------------------------------------
(* Reference definitions, over the events themselves.                        *)

\* The events an accurate account of a label's durations is taken from.
Timed(label) == {event \in load.events : /\ arrived[event] > 0 /\ event.Duration > 0
                                         /\ labelFor(event) = label}

\* How many of a label's measurements are at or below a value, and the k-th smallest.
AtOrBelow(label, value) == Arrivals({event \in Timed(label) : event.Duration <= value})
Ranked(label, k) == Min({event.Duration : event \in {e \in Timed(label) :
                                                       AtOrBelow(label, e.Duration) >= k}})

\* Every count and every exact field of a distribution is what the events say:
\* nothing is counted twice, under two labels, or measured when the event did
\* not carry it, and the buckets are cumulative.
CountsEveryEvent ==
    /\ \A kind \in {event.Kind : event \in load.events} :
         LET alike == {event \in load.events : event.Kind = kind}
         IN  /\ Total(kind) = Arrivals(alike)
             /\ Unsuccessful(kind) = Arrivals({e \in alike : e.Status # "success"})
    /\ \A label \in DOMAIN counts :
         LET timed == Timed(label)
             values == {event.Duration : event \in timed}
         IN  IF timed = {} THEN label \notin DOMAIN durations
             ELSE LET dist == snapshot(durations[label])
                  IN  /\ dist.Count = Arrivals(timed)
                      /\ dist.Sum = MapThenSumSet(LAMBDA e : arrived[e] * e.Duration, timed)
                      /\ dist.Min = Min(values)
                      /\ dist.Max = Max(values)
                      /\ \A i \in DOMAIN dist.Buckets :
                           dist.Buckets[i].Count = AtOrBelow(label, dist.Buckets[i].AtMost)

\* A share float64 has exactly: a half, three quarters, the whole.
IsExact(share) == 2^Doublings(<<1, share[2]>>) = share[2]

\* A quantile is a true upper bound on the measurement at its nearest rank k, as
\* long as that is not past the last boundary, and tight: neither a smaller boundary
\* nor the maximum would do.  Where the share of the count is a whole number, which
\* the float64 product may overshoot, it may be the bound of the next measurement
\* instead, though never a looser one.
QuantileIsTight ==
    \A label \in DOMAIN durations : \A share \in Shares :
        LET dist == snapshot(durations[label])
            n == Arrivals(Timed(label))
            answer == Quantile(dist, share)
            k == Min({i \in 1..n : i * share[2] >= share[1] * n})
            mayOvershoot == k * share[2] = share[1] * n /\ ~IsExact(share)
            next == Ranked(label, IF mayOvershoot THEN k + 1 ELSE k)
        IN  ~Outside(share) /\ Ranked(label, k) <= Last(boundaries)
                => /\ Ranked(label, k) <= answer
                   /\ \A limit \in ToSet(boundaries) \cup {dist.Max} :
                        limit >= next => answer <= limit

\* The number of labels is fixed before the program runs: of one kind and status
\* there are the declared names, one for the undeclared and one for the unnamed.
Alike(label) == {l \in Labels : l.Kind = label.Kind /\ l.Status = label.Status}
LabelsBounded == \A l \in Labels : Cardinality(Alike(l)) <= Cardinality(operations) + 2
=============================================================================
