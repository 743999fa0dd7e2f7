-------------------------------- MODULE Costs --------------------------------
(* process.Costs, filled by process.Track: each tracked run reads the        *)
(* process's counters when it begins and again in a finalizer, and records   *)
(* the difference under its name in one locked step.  The counters belong to *)
(* the whole process, so runs that overlap are in each other's figures, and  *)
(* the scalars and the size histogram are read one after the other.  Measure *)
(* is Track inside a span of the same name.                                  *)
EXTENDS Sizes

CONSTANTS Runners,     \* what may have a tracked run open at the same time
          Names,       \* the names work is tracked under
          Declared,    \* the names given to NewCosts
          MaxRuns,     \* how many runs of a name are kept (256 in the code)
          Alphabet,    \* the accounts' names, in the order names are compared in
          Boundaries,  \* the edges of the histogram's buckets
          Program,     \* what the process does at each tick of the clock
          Modes        \* how Costs is used: with NewCostsWithSizes or without, with
                       \*   Measure or Track; and, bounds, the names used and how
                       \*   many runs there are

Other == "other"
names == Declared \ {"", Other}

Limit == Len(Program)
Counters == {"AllocBytes", "AllocObjects", "GCCycles"}

ASSUME CostsAssumption ==
    /\ MaxRuns \in Nat \ {0}
    /\ Width \in Nat \ {0}
    /\ IsFiniteSet(Runners)
    /\ Boundaries \in Seq(Nat) \ {<<>>}
    /\ \A i, j \in DOMAIN Boundaries : i < j => Boundaries[i] < Boundaries[j]
    /\ \A i \in DOMAIN Boundaries : Boundaries[i] <= Unbounded
    /\ Alphabet \in Seq(Names \cup Declared \cup {Other})
    /\ names \cup {Other} \subseteq Range(Alphabet)
    /\ Program \in Seq([objects : Seq(1..Unbounded), GCCycles : {0, 1}, used : Nat, gc : Nat])
    /\ Modes \subseteq [keepsSizes : BOOLEAN, measured : BOOLEAN, under : SUBSET Names, runs : Nat]

VARIABLES mode,        \* one of Modes
          totals,      \* name -> the account's sums
          sizes,       \* name -> upper edge of a size class -> allocations
          rings,       \* name -> the ring of its runs
          now,         \* the clock: what the process did by then is Program's beginning
          run,         \* what each runner has read so far
          recorded,    \* history: name -> every change recorded, in order
          spans        \* history: the spans of Measure, with the run each enclosed

vars == <<mode, totals, sizes, rings, now, run, recorded, spans>>

Buckets == 1..(Len(Boundaries) - 1)

\* Which sizes bucket i is for: Go's are closed below and open above, with edges one
\* past its size classes (1, 9, 17, ..., 65, ...).
InBucket(size, i) == Boundaries[i] <= size /\ size < boundOf(Boundaries, i)
\* What the process did up to a tick, added up.
SoFar(tick, Of(_)) == SumFunction([t \in 1..tick |-> Of(Program[t])])

\* Read and ReadSizes, by tick: one call each, so each is consistent in itself.
ReadAt == [tick \in 0..Limit |->
    [Time |-> tick,
     Counters |-> [AllocBytes |-> SoFar(tick, LAMBDA did : SumFunction(did.objects)),
                   AllocObjects |-> SoFar(tick, LAMBDA did : Len(did.objects)),
                   GCCycles |-> SoFar(tick, LAMBDA did : did.GCCycles)],
     CPU |-> [total |-> SoFar(tick, LAMBDA did : did.used), idle |-> 0,
              gc |-> SoFar(tick, LAMBDA did : did.gc)],
     Threads |-> 1]]
ReadSizesAt == [tick \in 0..Limit |->
    [Boundaries |-> Boundaries,
     Counts |-> [i \in Buckets |->
                   SoFar(tick, LAMBDA did :
                     Cardinality({k \in DOMAIN did.objects : InBucket(did.objects[k], i)}))]]]

\* The counters are unsigned numbers of Width values, and have not run over.
ASSUME CountersFit ==
    \A tick \in 0..Limit :
        /\ \A c \in Counters : ReadAt[tick].Counters[c] < Width
        /\ \A i \in Buckets : ReadSizesAt[tick].Counts[i] < Width

Read == ReadAt[now]
ReadSizes == ReadSizesAt[now]

Idle == [stage |-> "idle"]
NotRead == {}

Init == /\ mode \in Modes
        /\ totals = <<>>
        /\ sizes = <<>>
        /\ rings = <<>>
        /\ now = 0
        /\ run = [r \in Runners |-> Idle]
        /\ recorded = <<>>
        /\ spans = <<>>

\* The process does what it does next.
Work == /\ now < Limit
        /\ now' = now + 1
        /\ UNCHANGED <<mode, totals, sizes, rings, run, recorded, spans>>

-----------------------------------------------------------------------------
(* Track: the effect is interpreted, runs, and its finalizer records it.     *)

Accounts == <<mode, totals, sizes, rings, now, recorded>>
Goto(r, value) == /\ run' = [run EXCEPT ![r] = value]
                  /\ UNCHANGED <<Accounts, spans>>

\* Within the bound, one more may be begun.
MayBegin == MapThenSumSet(LAMBDA k : totals[k].Times, DOMAIN totals)
              + Cardinality({r \in Runners : run[r].stage \notin {"idle", "closing"}}) < mode.runs

\* Measure opens a span around all of it.
SpanStarted(r) ==
    /\ mode.measured /\ run[r].stage = "idle" /\ MayBegin
    /\ \E name \in mode.under :
         /\ run' = [run EXCEPT ![r] = [stage |-> "opened", name |-> name, span |-> Len(spans) + 1]]
         /\ spans' = Append(spans, [name |-> name, start |-> now, end |-> -1,
                                   run |-> [Duration |-> 0, EndTime |-> -1]])
    /\ UNCHANGED Accounts

\* Described under a name; interpreted when its turn comes.
Interpreted(r, name) ==
    IF mode.measured THEN run[r].stage = "opened" /\ run[r].name = name
                     ELSE run[r].stage = "idle" /\ MayBegin

\* The definitions named ...Mutant are bugs this code could have had, each beside
\* the definition it would replace; no action uses them.
ReadBeforeMutant(r) ==                                  \* read when Track is called
    \E name \in mode.under :
        /\ Interpreted(r, name)
        /\ Goto(r, [stage |-> IF mode.keepsSizes THEN "begun" ELSE "running", name |-> name,
                    before |-> [Read EXCEPT !.Time = 0, !.Counters = [c \in Counters |-> 0]],
                    sizesBefore |-> NotRead, span |-> Len(spans)])

ReadBefore(r) ==
    \E name \in mode.under :
        /\ Interpreted(r, name)
        /\ Goto(r, [stage |-> IF mode.keepsSizes THEN "begun" ELSE "running", name |-> name,
                    before |-> Read, sizesBefore |-> NotRead,
                    span |-> IF mode.measured THEN run[r].span ELSE 0])

ReadSizesBefore(r) == /\ run[r].stage = "begun"
                      /\ Goto(r, [run[r] EXCEPT !.stage = "running", !.sizesBefore = ReadSizes])

\* The finalizer: it runs whether the work succeeded, failed or was interrupted.
ReadAfter(r) == /\ run[r].stage = "running"
                /\ Goto(r, [stage |-> IF mode.keepsSizes THEN "ended" ELSE "recording",
                            name |-> run[r].name, sizesBefore |-> run[r].sizesBefore,
                            change |-> Diff(run[r].before, Read),
                            spread |-> NoSpread, span |-> run[r].span])

ReadSizesAfter(r) ==
    /\ run[r].stage = "ended"
    /\ Goto(r, [run[r] EXCEPT !.stage = "recording",
                              !.spread = DiffSizes(run[r].sizesBefore, ReadSizes)])

-----------------------------------------------------------------------------
(* The account.                                                              *)

Slots == 0..(MaxRuns - 1)

addMutant(ring, change) ==                              \* never full
    [ring EXCEPT !.slots = [@ EXCEPT ![ring.next] = change],
                 !.next = (@ + 1) % MaxRuns]

\* runs.add: into the ring, which is full once next comes round to zero.
add(ring, change) ==
    [ring EXCEPT !.slots = [@ EXCEPT ![ring.next] = change],
                 !.next = (@ + 1) % MaxRuns,
                 !.full = @ \/ (ring.next + 1) % MaxRuns = 0]

NoRuns == [slots |-> [i \in Slots |-> {}], next |-> 0, full |-> FALSE]

\* runs.recent: the kept runs, the one recorded last first.
recent(ring) ==
    LET count == IF ring.full THEN MaxRuns ELSE ring.next
    IN  [step \in 1..count |-> ring.slots[(ring.next - step + MaxRuns) % MaxRuns]]

NoCost == [Times |-> 0, Spent |-> [c \in Counters |-> 0], CPUSeconds |-> 0,
           Duration |-> 0, Longest |-> 0]

summed(cost, change) ==
    [Times |-> cost.Times + 1,
     Spent |-> [c \in Counters |-> cost.Spent[c] + change.Spent[c]],
     CPUSeconds |-> cost.CPUSeconds + change.CPUSeconds,
     Duration |-> cost.Duration + change.Duration,
     Longest |-> Max({change.Duration, cost.Longest})]

\* m[x], or what a map answers for a key it does not hold.
At(m, x, default) == IF x \in DOMAIN m THEN m[x] ELSE default
With(m, x, v) == [y \in DOMAIN m \cup {x} |-> IF y = x THEN v ELSE m[y]]

\* One run's spread summed by class into an account's.
CountAt(spread, edge) == CountWhere(spread.Classes, LAMBDA class : class.AtMost = edge)
merged(classes, spread) ==
    [edge \in DOMAIN classes \cup {class.AtMost : class \in Range(spread.Classes)} |->
        At(classes, edge, 0) + CountAt(spread, edge)]

keyForMutant(name) == name                              \* a series per name
keyFor(name) == IF name \in names THEN name ELSE Other

\* record, under the lock; and the finalizer returns.
Record(r) ==
    LET key == keyFor(run[r].name)
        change == run[r].change
        spread == run[r].spread
    IN  /\ run[r].stage = "recording"
        /\ totals' = With(totals, key, summed(At(totals, key, NoCost), change))
        /\ rings' = With(rings, key, add(At(rings, key, NoRuns), change))
        /\ sizes' = IF ~mode.keepsSizes \/ spread.Total = 0 THEN sizes
                    ELSE With(sizes, key, merged(At(sizes, key, <<>>), spread))
        /\ recorded' = With(recorded, key,
                            Append(At(recorded, key, <<>>), [change |-> change, spread |-> spread]))
        /\ IF mode.measured
           THEN /\ run' = [run EXCEPT ![r] = [stage |-> "closing", span |-> run[r].span]]
                /\ spans' = [spans EXCEPT ![run[r].span].run =
                               [Duration |-> change.Duration, EndTime |-> change.EndTime]]
           ELSE run' = [run EXCEPT ![r] = Idle] /\ UNCHANGED spans
        /\ UNCHANGED <<mode, now>>

SpanEndedMutant(r) ==                                   \* the span inside Track
    /\ mode.measured
    /\ \/ run[r].stage = "running" /\ spans[run[r].span].end = -1 /\ UNCHANGED run
          /\ spans' = [spans EXCEPT ![run[r].span].end = now]
       \/ /\ run[r].stage = "closing"
          /\ run' = [run EXCEPT ![r] = Idle] /\ UNCHANGED spans
    /\ UNCHANGED Accounts

\* The span of Measure ends after the finalizers of what it encloses.
SpanEnded(r) == /\ run[r].stage = "closing"
                /\ run' = [run EXCEPT ![r] = Idle]
                /\ spans' = [spans EXCEPT ![run[r].span].end = now]
                /\ UNCHANGED Accounts

Next == \/ Work
        \/ \E r \in Runners : \/ SpanStarted(r) \/ SpanEnded(r)
                              \/ ReadBefore(r) \/ ReadSizesBefore(r)
                              \/ ReadAfter(r) \/ ReadSizesAfter(r) \/ Record(r)

Spec == Init /\ [][Next]_vars

-----------------------------------------------------------------------------
(* What a reader gets from one locked look.                                  *)

\* One name's size classes, smallest first.
spreadOf(classes) ==
    LET edges == Ascending(DOMAIN classes)
        inOrder == [i \in DOMAIN edges |-> [AtMost |-> edges[i], Count |-> classes[edges[i]]]]
    IN  [Classes |-> inOrder, Total |-> Counted(inOrder)]

Place(name) == CHOOSE i \in DOMAIN Alphabet : Alphabet[i] = name
Before(k, l) == LET bytes(key) == totals[key].Spent["AllocBytes"]
                IN  bytes(k) > bytes(l) \/ (bytes(k) = bytes(l) /\ Place(k) < Place(l))

\* The accounts as they stand, the most allocated first.
Snapshot ==
    LET keys == CHOOSE ks \in [1..Cardinality(DOMAIN totals) -> DOMAIN totals] :
                    \A i, j \in DOMAIN ks : i < j => Before(ks[i], ks[j])
        account(key) == [Name |-> key, Times |-> totals[key].Times, Spent |-> totals[key].Spent,
                         CPUSeconds |-> totals[key].CPUSeconds, Duration |-> totals[key].Duration,
                         Longest |-> totals[key].Longest,
                         Spread |-> spreadOf(At(sizes, key, <<>>)), Runs |-> recent(rings[key])]
    IN  [i \in DOMAIN keys |-> account(keys[i])]

PerRun(cost) == Mean(cost.Spent["AllocBytes"], cost.Times)
MeanObjectBytes(cost) == Mean(cost.Spent["AllocBytes"], cost.Spent["AllocObjects"])

-----------------------------------------------------------------------------
(* What a reader computes from a snapshot: a share <<n, d>> of the kept runs *)
(* by nearest rank.  The code rounds up by adding 0.9999999 and truncating,  *)
(* which is the same for every share a caller writes.                        *)

rankOfMutant(share, count) ==                           \* truncated, not rounded up
    LET rank == (share[1] * count) \div share[2]
    IN  IF rank < 1 THEN 1 ELSE rank

rankOf(share, count) ==
    IF share[1] <= 0 \/ share[1] > share[2] THEN count
    ELSE LET rank == (share[1] * count + share[2] - 1) \div share[2]
         IN  IF rank < 1 THEN 1 ELSE IF rank > count THEN count ELSE rank

DurationOf(change) == IF change.Duration < 0 THEN 0 ELSE change.Duration

atShare(values, share) ==
    IF values = <<>> THEN 0
    ELSE LET sorted == CHOOSE p \in Bijection(DOMAIN values, DOMAIN values) :
                         \A i, j \in DOMAIN values : i < j => values[p[i]] <= values[p[j]]
         IN  values[sorted[rankOf(share, Len(values))]]

\* What the kept runs measured, the last one's first, and each at a share of them.
Durations(cost) == [i \in DOMAIN cost.Runs |-> DurationOf(cost.Runs[i])]
Spendings(cost, c) == [i \in DOMAIN cost.Runs |-> cost.Runs[i].Spent[c]]
DurationAt(cost, share) == atShare(Durations(cost), share)
BytesAt(cost, share) == atShare(Spendings(cost, "AllocBytes"), share)
ObjectsAt(cost, share) == atShare(Spendings(cost, "AllocObjects"), share)

-----------------------------------------------------------------------------
Sum(key, Of(_)) == SumFunction([i \in DOMAIN recorded[key] |-> Of(recorded[key][i])])
Recorded(key, Of(_)) == {Of(entry.change) : entry \in Range(recorded[key])}
AllocatedBy(tick) == UNION {Range(Program[t].objects) : t \in 1..tick}
Edges == {boundOf(Boundaries, i) : i \in Buckets}

\* An account sums exactly the runs recorded under its name, however recordings of one
\* name interleave; so does its spread, class by class; and an average lies among what
\* it averages.
SumsItsRuns(cost) ==
    LET key == cost.Name
        bytes == Recorded(key, LAMBDA change : change.Spent["AllocBytes"])
    IN  /\ cost.Times = Len(recorded[key])
        /\ \A c \in Counters : cost.Spent[c] = Sum(key, LAMBDA e : e.change.Spent[c])
        /\ cost.CPUSeconds = Sum(key, LAMBDA e : e.change.CPUSeconds)
        /\ cost.Duration = Sum(key, LAMBDA e : e.change.Duration)
        /\ cost.Longest = Max(Recorded(key, LAMBDA change : change.Duration))
        /\ \A edge \in Edges :
             CountAt(cost.Spread, edge) = Sum(key, LAMBDA e : CountAt(e.spread, edge))
        /\ PerRun(cost) \in Min(bytes)..Max(bytes)
        /\ MeanObjectBytes(cost) \in 0..Max(AllocatedBy(now) \cup {0})

\* A snapshot has each account once, the most allocated first, the declared names under
\* their own and everything else under Other, and each sums its runs.
AccountsSumTheirRuns ==
    LET costs == Snapshot IN
    /\ DOMAIN recorded = {costs[i].Name : i \in DOMAIN costs}
    /\ DOMAIN recorded \subseteq names \cup {Other}
    /\ \A i, j \in DOMAIN costs :
         i < j => /\ costs[i].Name # costs[j].Name
                  /\ costs[i].Spent["AllocBytes"] >= costs[j].Spent["AllocBytes"]
    /\ \A i \in DOMAIN costs : SumsItsRuns(costs[i])

\* The runs kept behind an account are the last MaxRuns recorded, the last one
\* first, at every turn of the ring.
RunsAreTheLastRecorded ==
    \A key \in DOMAIN totals :
        LET all == recorded[key]
            Runs == recent(rings[key])
        IN  /\ Len(Runs) = Min({Len(all), MaxRuns})
            /\ \A i \in DOMAIN Runs : Runs[i] = all[Len(all) - i + 1].change

\* Concurrent work is in each other's figures, but only that often: all accounts
\* together never claim more than every runner could have seen, of any counter and
\* of any size class, although the two are read apart.
NeverOvercounts ==
    LET runners == Cardinality(Runners)
        ever == Read
        bySize == ReadSizes.Counts
    IN  /\ \A c \in Counters :
             SumFunction([k \in DOMAIN totals |-> totals[k].Spent[c]])
               <= runners * ever.Counters[c]
        /\ \A i \in Buckets :
             SumFunction([k \in DOMAIN sizes |-> At(sizes[k], boundOf(Boundaries, i), 0)])
               <= runners * bySize[i]

\* The answer is one of the values, at least the share of them are no more, and less
\* than the share are less.
NearestRank(values, share, answer) ==
    LET upTo == {i \in DOMAIN values : values[i] <= answer}
        below == {i \in DOMAIN values : values[i] < answer}
    IN  /\ \E i \in DOMAIN values : values[i] = answer
        /\ share[1] * Len(values) <= Cardinality(upTo) * share[2]
        /\ Cardinality(below) * share[2] < share[1] * Len(values)

\* A share of the runs is answered by a measurement that happened: at least that
\* share of the kept runs took no more, and less than that share took less.
Shares == {<<1, 100>>, <<1, 2>>, <<2, 3>>, <<99, 100>>, <<1, 1>>}
ShareIsNearestRank ==
    \A cost \in Range(Snapshot) : \A share \in Shares :
        /\ NearestRank(Durations(cost), share, DurationAt(cost, share))
        /\ NearestRank(Spendings(cost, "AllocBytes"), share, BytesAt(cost, share))
        /\ NearestRank(Spendings(cost, "AllocObjects"), share, ObjectsAt(cost, share))

\* Gathering a spread into bands loses no allocation and splits no class: below any
\* band's edge the bands count what the classes with no greater edge count, and none
\* is empty.  The largest class leads them all.  This is about the edges of classes,
\* which are above the sizes in them: an object as large as a band's edge is in a
\* class whose edge is one more, and so in the next band.
KeepsEveryAllocation(spread) ==
    LET coarse == Bands(spread)
        upTo(s, edge) == CountWhere(s.Classes, LAMBDA class : class.AtMost <= edge)
    IN  /\ \A edge \in Range(bands) \cup {Unbounded} : upTo(coarse, edge) = upTo(spread, edge)
        /\ coarse.Total = Counted(coarse.Classes)
        /\ \A i, j \in DOMAIN coarse.Classes :
             i < j => coarse.Classes[i].AtMost < coarse.Classes[j].AtMost
        /\ \A i \in DOMAIN coarse.Classes : coarse.Classes[i].Count > 0
        /\ spread.Classes # <<>> =>
             \A i \in DOMAIN spread.Classes : spread.Classes[i].Count <= Largest(spread).Count

\* So of every account's spread, in every snapshot.
BandsKeepEveryAllocation == \A cost \in Range(Snapshot) : KeepsEveryAllocation(cost.Spread)

\* runs.go:17-20: the window of a run Measure records, both of its ends, lies inside
\* the run's own span, though the span's fiber may wait between any two steps.
RunClosesInItsSpan ==
    \A i \in DOMAIN spans :
        LET span == spans[i]
        IN  span.run.EndTime # -1 =>
              /\ span.start <= span.run.EndTime - span.run.Duration
              /\ span.end # -1 => span.run.EndTime <= span.end

-----------------------------------------------------------------------------
(* What the documentation says and the code does not do.                     *)

\* docs/reference/process.md:153-154: "a run's window closes inside the span it
\* belonged to, so a caller holding both can say which run was which" -- no run
\* closes strictly inside another span of its name.
TellsWhichRunWasWhich ==
    \A i, j \in DOMAIN spans :
        /\ i # j /\ spans[i].name = spans[j].name /\ spans[i].run.EndTime # -1
        => ~ /\ spans[j].start < spans[i].run.EndTime
             /\ spans[j].end = -1 \/ spans[i].run.EndTime < spans[j].end
=============================================================================
