------------------------------- MODULE Change -------------------------------
(* process.Diff: what happened between two readings of the process's         *)
(* counters.  A reading is [Time, Counters, CPU, Threads]: Counters and CPU  *)
(* are cumulative, the first unsigned numbers below Width (2^64 in the code),*)
(* the second seconds of CPU time, in whole units; a ratio is <<n, d>>.      *)
EXTENDS Integers, FiniteSetsExt

CONSTANT Width

\* The definition named ...Mutant is a bug this code could have had, beside the
\* definition it would replace; nothing uses it.
deltaMutant(before, after) == (after - before) % Width        \* no floor: it wraps

\* Subtracted with a floor at zero rather than allowed to wrap.
delta(before, after) == IF after < before THEN 0 ELSE (after - before) % Width

deltaSeconds(before, after) == IF after < before THEN 0 ELSE after - before

\* Everything but idle.
workSeconds(reading) == deltaSeconds(reading.CPU.idle, reading.CPU.total)

Diff(before, after) ==
    [Duration |-> after.Time - before.Time,
     EndTime |-> after.Time,
     Spent |-> [c \in DOMAIN after.Counters |-> delta(before.Counters[c], after.Counters[c])],
     CPUSeconds |-> deltaSeconds(workSeconds(before), workSeconds(after)),
     GCCPUSeconds |-> deltaSeconds(before.CPU.gc, after.CPU.gc),
     Threads |-> after.Threads]

Ratio(n, d) == IF d <= 0 THEN <<0, 1>> ELSE <<n, d>>
ClampedRatio(n, d) == IF d <= 0 THEN <<0, 1>> ELSE <<Min({n, d}), d>>

\* The share of the available CPU that was used, of the CPU used that the collector
\* took, and bytes per second.
Busy(change) == ClampedRatio(change.CPUSeconds, change.Duration * Max({change.Threads, 1}))
GCShare(change) == ClampedRatio(change.GCCPUSeconds, change.CPUSeconds)
AllocationRate(change) == Ratio(change.Spent["AllocBytes"], change.Duration)

\* The average size of the allocations, and of what many runs spent.
Mean(whole, count) == IF count = 0 THEN 0 ELSE whole \div count
=============================================================================
