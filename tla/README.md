# Verification of effect-golang-observe

effect-golang-observe is a set of observers for the effect runtime
(`github.com/mbauer83/effect-golang`): the runtime calls one `Observer` at every boundary
an effectful program crosses -- a span or a fiber started or ended, a retry scheduled, a
resource released -- on the goroutine that crossed it. The library decides where these
events go (`observe`), what is open now and what happened (`trace`), how much of it there
was (`metrics`), and what the process spent meanwhile (`process`). Everything it keeps is
bounded and is read while the program runs, by goroutines that do not coordinate with it.

This directory holds TLA+ models of these components, TLC configurations that check them
on small instances, and TLAPS proofs for any size. Line numbers below are those of the
Go files; `PROJECT.json` maps every definition to the lines it translates.

## Inventory

| Component | State | Operations | Interacts with |
| --- | --- | --- | --- |
| `observe.Buffer` | channel, `stopped` under an RWMutex, atomic `drops`, `done` | `Observe`, `Flush`, `Drops`, the goroutine `deliver` | called by every fiber and by the runtime's Close; calls the observer behind it from its own goroutine, or from the fiber's after the stop |
| `observe.Fanout`, `observe.Filter` | none beyond the list or the predicate | `Observe`, `Flush` | hand each event on, on the calling fiber, without a lock |
| `observe.Recent` | ring `slots`, `next`, `wrapped`, `total` under a mutex | `Observe`, `Events`, `Count` | its events are what `trace.Assemble` reads |
| `trace.Spans` | maps `open` and `order`, `next`, `starts`, `ends` under a mutex | `Observe`, `Open`, `Count`, `Starts`, `Ends` | fed on the fiber, never through a queue |
| `trace.Fibers` | map `live`, `starts`, `ends` under a mutex | `Observe`, `Tree`, `Count`, `Render` | the same |
| `trace.Assemble`, `Trace` | none: a pure fold | `Assemble`, `Walk`, `Open`, `Unsuccessful`, `Self`, `Render` | reads what `Recent` kept |
| `trace.Identity` | a random number per process | `Identity` | names a root span |
| `metrics.Collector` | three maps by label under a mutex | `Observe`, `Snapshot` | labels by a declared `Vocabulary`; histograms are `Distribution`s |
| `process.Series` | a ring of readings under a mutex | `Sample`, `Add`, `Readings`, `Change` | reads the Go runtime's counters |
| `process.Diff`, `DiffSizes`, `Spread` | none: pure | `Diff`, `Busy`, `GCShare`, `AllocationRate`, `DiffSizes`, `Largest`, `Bands` | subtract two readings, taken by Series or by Track |
| `process.Costs`, `Track`, `Measure` | sums, size classes and a ring of runs by name under a mutex | `Record`, `RecordSpread`, `Snapshot`; `Track` reads before and in a finalizer, `Measure` is `Track` in a span | reads the counters twice around an effect |
| `telemetry.Watch` | the composition of the above | `NewWatch`, `Trace`, `Drops` | Fanout(Spans, Fibers, Buffer(Fanout(Collector, Recent))) |

What is hard in it:

- **Concurrency.** In `Buffer`, producers that evict are consumers too, Flush closes a
  channel others send into, and a blocked producer holds the lock Flush wants. In
  `Fanout`, walks interleave. In `Series` and `Track`, a value is read before a lock and
  recorded under it.
- **Ordering.** The runtime stamps an event before it reports it. Two fibers can report
  in the other order; a buffer can deliver later; a window can have forgotten the
  beginning. `Spans`, `Fibers` and `Assemble` each decide what to make of that.
- **Bounds.** Full queues, rings that turn over, ranks that are rounded, unsigned
  counters that must not wrap, labels that must not multiply with the traffic.
- **Failure and time.** Flush has a deadline; one of several flushes can fail; a tracker
  can be installed in the middle of a run.
- **Composition.** A reader of `Watch` asks the live trackers, the aggregate and the window
  about one program, and these answer from different distances: before the queue and
  behind it, each under its own lock.

What makes each component correct is stated with its module below; each hazard is listed
with its line and its properties under `hazards` in `PROJECT.json`.

## Modules

Every component has one module. `MC<Component>` extends it for TLC, and the `.cfg` files
give the constants. A definition named `...Mutant` next to another is a bug the code could
have had; no specification uses it, and each property is broken by one of them, so that a
property that cannot fail is noticed.

**`Buffer`** (`buffer.go`). One step is what another goroutine can see: a lock granted, a
channel operation, an atomic addition, the beginning and end of a call to the observer.
`pc[f]` is where a fiber is inside `Observe`/`offer` ("offering" the first send, "evicting"
the receive of DropOldest, "counting" its `drops.Add`, "retrying" the second send), `worker`
is `deliver`, `opc[o]` an owner inside `Flush`. The RWMutex blocks new readers behind a
waiting writer, as Go's does (`WriterWaits`). A send under `Block` is the same action as a
non-blocking one that finds room; a non-blocking one that finds none is `MakeRoom` or
`Refuse`. `RUnlock` is merged with the operation before it, after which the fiber touches
nothing. The policy is `overflow`, chosen in `Init` and never changed. `delivered` and
`inlined` are history: what was handed on, by the worker or by the fiber itself.

**`Delivery`** is what a buffering observer promises, with no locks or goroutines: a
bounded line, losses only where the policy allows them and none once it is closed,
delivery in order and eventually. `Buffer` implements it, with `queue` as the line and the
events in nobody's hands (`Missing`) as the lost ones: its safety part (`ImplementsDelivery`),
which is also proved, and its liveness (`QueueIsDelivered`), which is model-checked.

**`Fanout`** (`fanout.go`, `filter.go`). A walk is one action per observer; `Flush` walks
too, at the same time. A filter is an observer with the kinds its predicate keeps; it is
a Flusher whatever is behind it, and answers nil when that is not one, which is why a
target is only told apart by whether a flush reaches something that buffers.

**`Recent`** (`recent.go`) is the ring; **`Window`** is what it promises: the last `room`
arrivals, in order. `ImplementsWindow` maps `Events` to the window. `room` is a variable that
no step changes, so that `Trace` can look through windows of several sizes in one run.

**`Spans`**, **`Fibers`** (`spans.go`, `fibers.go`). The runtime is the environment: it
stamps a boundary (`SpanStarted`, `FiberStarted`, ...) and the fiber reports it in a later
step (`ObserveStart`, ...), so reports of different fibers overtake each other. Spans
may already be running when the tracker is made; fibers are forked by running fibers, and
the tracker is installed at any time. `Open` and `Tree` are what a reader gets from one
locked look. The tree is its rows in the order it is walked: `subtree`, a recursive function
as in the code, puts each child's rows one level `Deeper` after the fiber's own.

**`Assemble`** (`assemble.go`, `span.go`, `render.go`) is the fold, the questions a trace answers
and the renderer as pure operators; a line is the identity of a span or an event with its
depth. **`Trace`** runs a small concurrent program whose events reach a `Window` late and out
of order, and assembles the window's contents in every state. The two passes of `Assemble`
appear as the set of started spans and the three filters over the events; `nest`,
`subtree` and their stable sorts as `subtrees` and `inOrder`. `scale` is the size of the
window and of the program, chosen at the start of a behavior; a window larger than the
program never forgets, and there the numbers (`Self`, `Descendants`) are compared with the
program's own.

**`Distribution`** (`distribution.go`) and **`Collector`** (`collector.go`, `label.go`). Each
`Observe` is one locked step. A share is written as a fraction and stands for the float64
nearest to it, as a caller's decimal does. `distribution.go:75` takes the ceiling of a float64
product, and `rank` is that ceiling: where n/d of the count is not whole, the product is on
the same side of every whole number as the exact one; where it is the whole number k, the
product exceeds k when what the share has in excess, times the count, is more than half of
k's last place. `Excess` comes from the remainder of n * 2^(52 + e) by d, doubled step by step
modulo d, since the number itself is beyond TLC's integers. `load` says what arrives, and is
chosen at the start of a behavior: few events of every sort, or measurements of one label
enough for a product to overshoot, which for shares of two decimals are 25. `arrived` is
history: how often each event arrived, in whatever order.

**`Change`** (`change.go`) is subtraction with a floor at zero, of unsigned counters modulo
`Width` and of seconds, with the shares and rates taken of the result as fractions; **`Sizes`**
(`sizes.go`) the same of a histogram, and its classes gathered into bands. **`Series`**
(`series.go`) samples in two steps and uses `Recent`'s ring, which it repeats slot for slot; while
the clock ticks, the process idles, works (its CPU time accounted late) or collects.

**`Costs`** (`costs.go`, `runs.go`, `track.go`, `spread_of_runs.go`) runs under a `mode`: an account
that keeps sizes, with `Track`, reads the counters and the histogram separately at both ends
of a run; one without, with `Measure`, opens a span, reads, reads again in the finalizer and
closes the span. Both record in one locked step. The process does what `Program` says at each
tick, so a reading is a function of the time it is taken at (`ReadAt`); `reading.go:92` takes
the clock right after the counters, which is the same step here. That a span's end comes
after the finalizers of what it encloses is the effect runtime's, and external. `Snapshot`
is what a reader gets from one locked look, sorted as the code sorts it. `rankOf` adds
0.9999999 and truncates; the model takes the ceiling, which is the same for shares of up
to seven decimals.

**`Watch`** (`examples/telemetry/watch.go`) composes the modules above by `INSTANCE`: `Buffer` whole, with
the goroutine that closes the runtime as its owner and `DropOldest`; the steps `begin` and
`finish` of `Spans` and `Fibers`; `Window` for `Recent`; `Assemble` for `Trace()`; of the
Collector the counts by kind. `layout` says which observer is given which: an emitting
fiber walks `layout.front`, one observer a step (`Hand`), the last of which is the Buffer's
`Observe`; whoever delivers -- the worker, or a fiber after the stop, several at once --
walks `layout.behind` (`Deliver`). `Close` is the Flush of the Buffer, the only Flusher in
front; once it has answered, `runtime_closed` is emitted like any event. The programs are the
constant `Scripts`; `IsProgram` says what the runtime makes sure of in each: a span is ended by the
fiber that began it, afterwards. An event has the time its program gives it: what the clock
does is the subject of `Trace`.

## Runs

| Run | What it asks | Distinct states |
| --- | --- | --- |
| `buffer` | two fibers of two events, two owners, two slots, each of the three policies: every loss is counted and allowed, order is kept, nothing touches a closed channel, nothing is lost after the stop, `Delivery` is implemented, every `Observe` and `Flush` returns | 44 000 |
| `fanout` | two fibers of two events over four targets (one observer of five is nil) while an owner flushes | 141 000 |
| `recent` | nine arrivals of two sorts in four slots: two turns and a bit | 111 |
| `series` | two samplers over a ring of three that turns over, a clock of three ticks | 52 000 |
| `spans` | three spans, a clock of two ticks, the tracker made at any moment | 28 000 |
| `fibers` | three fibers in every shape, a clock of two ticks | 78 000 |
| `trace` | three spans, or two and two other events, through windows of three and four; three spans and two ticks through one of six that holds it all; two fibers reporting at once | 405 000 |
| `collector` | five out of eleven sorts of event in any order; 25 measurements of four durations in two buckets, one of them past the last bound | 28 000 |
| `costs` | two runners and two ticks: four tracked runs of two names, two size classes and what is larger, two bands, a ring of two; three measured runs of one name | 398 000 |
| `watch` | two fibers, with a span each or one with a span and one with a life of its own, and Close; a queue of one, a window of two | 188 000 |

What each property says stands above it in its module; these are the ones a test would
hardly reach.

- `buffer`: `DropsAccountForLosses` ties the atomic counter to the events that are nowhere any
  more, in every interleaving of evictions; `RefusalNeedsRival` says that under DropOldest an
  event is refused only to another fiber's event; `StopEndsLoss` and `DrainedMeansDelivered` are
  what a caller of Flush may rely on.
  `ImplementsDelivery` holds everything else a buffer promises: under Block nothing is
  lost, under DropNewest nothing already queued, and what is queued is delivered in order;
  that it is delivered in the end is `QueueIsDelivered`.
- `fanout`: `EachSeesItsShare` and `FlushReachesAll` hold although walks and flushes overlap.
- `recent`: `ImplementsWindow` is the whole contract of a ring, the one `series` uses too.
- `series`: `OldestFirst` is as much of "oldest first" as two samplers leave true;
  `ChangeIsPossible` needs the floor of `delta`, because of that race, and the clamps of `Busy`
  and `GCShare`, because CPU time is accounted late.
- `spans`, `fibers`: `HoldsWhatIsOpen` and `HoldsWhatRuns` compare the tracker with the program,
  `ListsEachOnce` says that no fiber vanishes from the tree when its parent does.
- `trace`: its properties say together that the tree is the same truth about the window
  whatever order the events arrived in; `SelfIsTimeAlone` compares `Self` with the instants at
  which no child ran, and states when it is exact.
- `collector`: `QuantileIsTight` says how far the buckets' answer may be from the measurement at
  the nearest rank, which the histogram does not keep: never below it and, where float64
  overshoots, no looser than for the next one.
- `collector`, `costs`: the accounts are compared with a history of what was recorded, and a
  share of the runs with their sorted measurements. `BandsKeepEveryAllocation` is about the
  edges of classes, which are above the sizes in them. `NeverOvercounts` is what remains true of
  process-wide counters when runs overlap; `RunClosesInItsSpan` is the premise of joining runs
  to spans by time, which holds, and `TellsWhichRunWasWhich` the conclusion, which does not.
- `watch`: `LiveNeverLags` is why the trackers are in front of the queue -- with the spans
  behind it an event delivered inline overtakes its span's queued start, and the tracker
  holds it for good. `OpenIsExplained` says when an "open" span of the trace may be believed;
  `TotalsReconcile` that three counts under three locks add up at rest; `ClosedIsTold`, a
  liveness property, that the last event gets through a flushed buffer.

The bounds are small because the hazards are: two fibers suffice for any race over the
last slot, four events for two slots fill and overflow it, one turn of a ring and a bit
reaches every position of `next`, three spans or fibers make a grandparent, a parent and a
child with the middle one gone, or a parent with two children, and a clock of one or two
ticks tells before, same and after apart. `Emitters` bounds how many fibers are between
stamping an event and the observer having it; two make every adjacent pair overtake.
In `costs` the program allocates objects of three classes (`Program`), one of them exactly as
large as a band's edge and one past the last band; the edges of the classes are one past
their sizes and none is a band's, as in Go's histogram. The runners are symmetric, and four records turn a
ring of two twice. In `watch` one slot and two emitters make every event of a span
evictable, and a window of two forgets a span's start as well as its end.
`CHECK_DEADLOCK FALSE` appears where a
program may simply stop: in `Trace` and `Costs`. Elsewhere the rest state is an
explicit step, so a deadlock is an error -- in the buffer it would be fibers, worker and
Flush all waiting for one another.

**Fairness** is assumed of `Buffer` and `Watch`. A goroutine that can run is run: weak fairness of
each fiber's step inside `Observe`, of the worker and of Flush's steps other than its
deadline. A blocked sender is strongly fair, since a Go channel serves its waiting senders
first come, first served. Nothing obliges a fiber to emit, an owner to flush or a deadline
to pass. The observer behind the buffer is assumed to return. `Watch` needs less: weak
fairness of a fiber's walk, of whoever delivers, of the worker and of Close's steps; under
DropOldest no send blocks. Whether the program ever emits or closes is left open, which is
why `ClosedIsTold` starts from the emission.

### Where the documentation and the code differ

Two statements are runs with `expect: violation`, whose property states the sentence.

| Run | The sentence | What happens |
| --- | --- | --- |
| `buffer_inline_early` | an event is delivered where it stands "once the queue has been drained" (`buffer.go:101-102`) | it is as soon as `stopped` is set: a fiber's second event is delivered while its first is queued |
| `costs_attribution` | "a run's window closes inside the span it belonged to, so a caller holding both can say which run was which" (`docs/reference/process.md:153-154`, `runs.go:17-18`) | two overlapping runs of one name each close inside both spans |

Others were noticed while modelling and have no run of their own:

- `spans.go:64-65`, an end whose start was not seen "is counted and otherwise ignored": it is
  not counted, and `test/unit/trace_spans_test.go:59-73` expects that. `HoldsWhatIsOpen`
  states what the code does.
- `label.go:31` and `collector.go:16-17`, "(names + 1) x kinds x statuses" labels: names + 2, since
  `Anonymous` is apart from `Other`. `LabelsBounded` states what the code does.
- `span.go:80`, "how long the span took that its children did not": less than that when a
  child outlives its parent or children overlap, which `SelfIsTimeAlone` allows for; the
  comment mentions the second case only.
- `span.go:44-48`, an open span "is where a hung program is": after Close, an end delivered
  inline ahead of its queued start may have left the window before the start enters it, and
  the trace calls a finished span open. `OpenIsExplained` lists this case, which can only
  arise after Close.
- `buffer.go:157`: DropOldest evicts although the worker has made room since line 148. The
  loss is counted and is the oldest event, which is what the properties ask of it.
- `buffer.go:153-155` says the second send fails because "the worker filled it again"; the
  worker never fills the queue, and `RefusalNeedsRival` shows that it is another fiber.
- `fanout.go:16-17`, "two observers cannot see the same run in two orders": they can, of two
  fibers' events, since a walk holds no lock.
- `docs/reference/trace.md:140-141`, the first of `Open` "has been running longest": the order is
  that of reporting (`OpenInOrderSeen`), which is not that of opening.
- `series.go:60`, "oldest first": `OldestFirst` holds in the weaker form stated there.
- `distribution.go:51-52`, the largest bound "is true of every measurement": not of one past
  the last boundary, which `QuantileIsTight` has to except.
- `distribution.go:41-43` and `docs/reference/metrics.md:63-64`, "the tightest bound this distribution can
  put on where the given share of measurements fell": 0.56 as float64 is above 0.56, so of 25
  measurements it is rank 15, and when 14 of them are in the first bucket the answer is the
  bound of the second. `QuantileIsTight` states how far that can go.
- `sizes.go:30-31`, a bucket counts what fell "at or below" its upper edge, and
  `docs/reference/process.md:124-125`, the bands are "≤64B, ≤256B, ≤1KiB, ...": the edges of Go's
  histogram are one past its size classes (..., 49, 65, ...) and belong to the bucket above, so
  an object of exactly 64 bytes has the edge 65 and is counted in the band of 256. `InBucket`
  has Go's buckets; `BandsKeepEveryAllocation` is about edges only and holds.
- `costs.go:50`, "newest first": runs are in the order of recording, which two overlapping
  runs need not share with their ending (`RunsAreTheLastRecorded`).
- A Flush after one that gave up at its deadline answers nil at once while events are
  still queued (`buffer.go:125-129`); the documentation says only that it does nothing.

## Proofs

The theorems hold for every value of the constants that satisfies the named assumption of
the component's module, and the runs evaluate that assumption; nothing else is assumed.

**`BufferProofs`**, for every set of fibers and owners, capacity, policy and bound
(`BufferAssumption`).

- `TypeCorrect`: `TypeOK` is inductive as it stands, with the conjunct that a fiber inside
  `Observe` has emitted something, which makes the event in its hands an event.
- `NeverSendsOnClosed`: the only step that sets `stopped` needs that no fiber is inside the
  read lock, and the only step that enters the offer needs `stopped` unset.
- `DeliversInOrder` proves `FiberOrder`, which is not inductive: nothing in it keeps a fiber from
  sending an event older than what it has in the queue. `OrderInv` adds that every event is in
  one place only -- a fiber's hands, the queue, delivered, inline -- and that those placed have
  been emitted, so that the next one of a fiber has a higher number than all of them.
- `DropsIsHonest` proves `DropsAccountForLosses` (`LossInv`): it is stated as an equation of
  cardinalities, and each step that moves an event moves one side exactly as the other. On the
  same lemmas about what a step does to `Missing` rests `NothingLostAfterStop`.
- `RefusedOnlyToRivals` proves the action property `RefusalNeedsRival` from `RivalInv`: while a
  fiber that has made room has not sent yet, the last event of a full queue is not its own.
- `DrainedIsDelivered` (`DrainInv`): the worker exits only from an empty queue that is closed, and
  closed means that nobody is inside the lock to fill it again.
- `BufferIsLine` is the refinement: under `OrderInv`, each of the sixteen steps is an `Accept`,
  `Deliver`, `LoseArriving`, `LoseOldest`, `HandThrough` or `Close` of `Delivery`, or stutters. An
  eviction is the loss of the oldest at the moment of the receive, before it is counted.
- `InlineInv`, which `WatchProofs` uses, says that what a fiber delivers itself comes after all it
  ever queued, since nothing is queued once `stopped` is set.

**`FanoutProofs`**, for every list of observers and filters, every number of fibers and events.
That nothing is left of the nil observers once they are skipped is stated as an assumption
(`TargetsAssumption`), since the prover has no definition of `SelectSeq` to expand.
`EachGetsItsShare` proves `EachSeesItsShare`, which becomes inductive once it is known that a
fiber's events are its own and numbered as it emitted them (`Numbered`): then the event being
handed round is behind all that an observer has of that fiber. `FlushSkipsNobody` proves
`FlushReachesAll` from `Answered`, what has been asked so far and whose error is in hand.

**`RecentProofs`**, for every capacity. `WindowIsFilled` says how many events the window holds;
no run repeats what the refinement implies. It alone is not inductive: it does not say
which slots have been written. `IInv` adds that `total` is at least `Capacity` exactly when
`wrapped`, that `next` is `total` until then, and that every slot below `next`, or every slot
once wrapped, holds an event. `FilledWindow` follows. `RingIsWindow` proves the refinement
`Spec => ImplementsWindow`: under `IInv`, an `Observe` appends to `Events`, dropping its head when
wrapped, by the three cases not full, becoming full and full; `Done` stutters.

**`SeriesProofs`**, for every capacity of at least two, clock, counter width and set of samplers.
The ring is `Recent`'s, so `Of == INSTANCE RecentProofs` brings what was proved of it.
`ChangesArePossible` proves `ChangeIsPossible` from `PastInv`: no reading in the ring or in a
sampler's hand is ahead of the process, counter by counter, so that the floors and the
clamps leave a possible answer whichever of two readings is subtracted from the other.
`DisorderIsBounded` proves `OldestFirst`, which is a pigeonhole argument: `OrderInv` says that
each reading was added by some sampler, each sampler's in the order it took them and none later
than what it holds now; of more readings than samplers two are by the same one.

**`SpansProofs`**, for every finite set of spans. `TypeCorrect` and `HoldsExactly` prove `Spec =>
[]TypeOK` and `Spec => []HoldsWhatIsOpen`. Neither is inductive alone: a start observed twice
would be remembered once and counted twice. `IInv` adds that a span seen has got past its
start, so the span whose start is being observed is new to the tracker; the lemma
`SeenGrows` says what appending to the history does to the set of spans seen.
`ListedInOrderSeen` proves `OpenInOrderSeen`: the numbers `Open` sorts by are in the order of
observation, because the i-th start seen got number i - 1 (`NumberInv`; a tracker that numbered
by what it holds would reuse numbers), and sorting by distinct numbers lists each span once.

**`FibersProofs`**, for every `MaxFibers` and clock. `HoldsExactly` proves `Spec =>
[]HoldsWhatRuns` by the same argument. `IInv` also needs that every fiber seen has been
forked and that nothing was seen before the tracker was installed, since `Install` may
come at any moment: a fiber whose start was missed and whose end is observed must not
disturb the map. The tree is what has to be read off that map:

- `OldestAtTheTop`: of the fibers held the oldest is a root. `AgeInv` says that a held parent
  started before its child was stamped, also while the child's start is still to be reported,
  and that parents were forked first, so following them upwards ends.
- `EachListedOnce` proves `ListsEachOnce`. That `subtree` is a function at all follows because a
  child is numbered after its parent: it is built from the last fiber to the first
  (`From`, `Below`). In the same order each fiber's rows are shown to be itself first and then
  only what hangs under it, once and under its own parent (`Hangs`), from its children's
  (`Shows`). That nobody is left out goes from the first fiber to the last: a fiber is a root, or
  its parent is shown and shows its children (`AllShown`). Where a list stands inside the
  flattened list of lists is a lemma of its own.
- `LongestIsFirst` proves `LongestRunningFirst`: the first row is the first root by start time, and
  the oldest fiber is a root.

**`CostsProofs`**, for every program, number of runners, list of names, of buckets and of bands, and
every size of the ring, under `CostsAssumption`, `SizesAssumption` and `CountersFit`: no counter has
run over its width. The code's counters have 64 bits.

- `ClosesInItsSpan` proves `RunClosesInItsSpan`. `SpanInv` follows a run through its stages: the
  span it belongs to is open and no other runner's, and what has been read of it was read since
  that span started; that a `Diff` ends when its second reading was taken and lasted since
  the first is a lemma about `Change`.
- `KeepsTheLastRuns` proves `RunsAreTheLastRecorded` (`RingInv`): the slot k places behind `next`,
  counted round the ring, holds the k-th last of all runs recorded under the name; the code's
  `%` arithmetic is the lemma `SlotFound`.
- `ClaimsAreCovered` proves `NeverOvercounts`, which is an argument about a ledger (`LedgerInv`). What
  the accounts claim is covered by shares, one for each runner, and a runner's share is
  never more than the counter showed when its open run began, or less what that run will
  claim once its end has been read. So a `Record` claims what it has room for, whichever other
  runs it overlapped. The size classes have shares of their own, since their histogram is read
  later than the counters. Without the shares the property is not inductive: it does not
  keep a run from being recorded twice.
- `SumsEveryRunOnce` proves `AccountsSumTheirRuns`. `TakenInv` says that what a run hands on is the
  difference of two readings taken in order, `AccountInv` that each account is the sum, the
  maximum and the class-by-class sum of what was recorded under its name. The averages lie
  where they must because an average of numbers lies among them, and because no reading
  saw more bytes than objects times the largest object. That the snapshot is sorted and
  complete follows from the names having places in `Alphabet`.
- `SharesAreMeasured` proves `ShareIsNearestRank`: a sorted list has at least m values up to its m-th
  and fewer below it, and `rankOf` is the least m that is at least the share.
- `BandsLoseNothing` proves `BandsKeepEveryAllocation`: what is summed band by band is the sum of the
  whole (`SumOfParts`), also when only the bands up to some edge are counted, since a class's
  band is up to an edge of `bands` exactly when the class is.

Sums are folds, of which the prover knows nothing; what they need is proved at the head of
the module by induction over the subsets of a finite set.

**`WatchProofs`**, for every finite set of emitters, every program that satisfies `IsProgram`, every
size of the queue and of the window. What the buffer does inside the composition is taken
from `BufferProofs` by `INSTANCE`.

- `TrackersNeverLag` proves `LiveNeverLags`. `WalkInv` ties a fiber's place in `layout.front` to its
  calls of the buffer; `HeldInv` says that the span tracker holds exactly what started and did
  not end among the events it was told of. Whatever is queued or passed has been told
  before, since the tracker stands in front; and a span's fiber tells both its boundaries, in
  order.
- `AccountsAddUp` proves `TotalsReconcile`. `LedgerInv` is the equation between two moments of rest:
  the aggregate has counted what has passed it, the window what has passed both, and
  `HandsInv` says that those delivering -- the worker, and fibers after the stop -- have different
  events in hand. At rest nothing is in hand, and the drops are what is missing
  (`BufferProofs`' `LossInv`). The sums over kinds and fibers are folds over sets, about which
  the prover knows nothing: `SumIsThere` and `SumGrows` are proved by induction over the subsets
  of a finite set, as the impossibility of a least counterexample (`SubsetInduction`).
- `TraceIsExplained` proves `OpenIsExplained`. A span in the trace began with an event the window
  holds, and the tracker, which was told of it first, holds the span until it is told of its
  end (`EndIsTold`); so an end exists, and the question is where it is. `WindowInv` says that the
  window holds everything that has passed it unless that was more than `Remembered`, and of
  what came through the queue the last of each fiber, in order: had the end come
  that way and gone, its start would have gone before it. What is left is an end on its way,
  one that is missing and hence counted (`MissingIsCounted`, from `LossInv`), or one delivered
  inline to a window that has forgotten something (`ForgottenIs`, from `InlineInv`). The theorem
  is about every span of the trace (`CalledOpen`), wherever `nest` hangs it; that `Open` lists
  them all is `Trace`'s `OpenIsTrue`.

Only model-checked:

- Liveness, which is out of TLAPS's reach: `QueueIsDelivered`, `CallsReturn`,
  `ClosedIsTold`.
- The properties of `Trace`. They are read off `Walk` and `Render`, two recursions of different
  shape over the window's contents, whose lists `SetToSortSeq` makes. What `ListsEachOnce` took for
  `Fibers` would have to be done for each of them, with events merged among the children, and
  `ArrivalIsIrrelevant` compares two such results as a whole.
- The properties of `Collector`. `CountsEveryEvent` and `QuantileIsTight` compare sums over the
  events that arrived with the maps, and `QuantileIsTight` rests on a remainder computed by
  recursion over the places of a float64 (`Excess`). `LabelsBounded` is within reach and has not
  been proved. Nothing interleaves within an `Observe`, so these are the properties for which a
  small instance says most.

## Not modelled

- `trace.Identity`: a hash of a random number, a counter and a time. That two traces never
  share one rests on SHA-256, which a model would only assume.
- The example programs `restock`, `gate` and `observedemo`: every line of them calls the
  effect runtime, which is not in this repository; of the runtime only what the observers
  depend on is modelled, as the environment of `Spans`, `Fibers`, `Trace`, `Costs` and `Watch`.
- Wording and layout of rendered text, ages, attributes of spans, the order `Labels` and
  `String` use, the names of the Go metrics: no property tells them apart.
- Floating point, except in the rank of a quantile: ratios and CPU seconds are fractions and
  whole units, and `Costs`' shares are fractions. A sum of CPU seconds that rounds is not
  told from one that does not.
- The cancellation that `Observe` strips from a context has no effect on what is delivered
  and is left out of `Buffer`.

## Plan

1. Done: every component above except those under "Not modelled", their runs, and the
   theorems of "Proofs".
2. Open, and within the prover's reach: `LabelsBounded` for every vocabulary; the totals of
   `CountsEveryEvent` by the sums over finite sets that `CostsProofs` has; `NestedAsOpened` along
   the argument of `EachListedOnce`, once the lists of `Assemble` are chosen the way
   `sortOldestFirst` chooses its own.
