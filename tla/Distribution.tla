---------------------------- MODULE Distribution ----------------------------
(* metrics.Distribution and the histogram it is read from: a fixed number of *)
(* cumulative buckets, and what a reader can say of a share of measurements  *)
(* from the buckets alone.  A share is written <<n, d>> for n/d with d > 0   *)
(* and stands for the float64 nearest to it, which need not be n/d.          *)
EXTENDS Integers, SequencesExt

\* sortBoundaries: ascending, without repeats; none stated takes the default.
sortBoundaries(bounds, default) ==
    IF bounds = <<>> THEN default ELSE SetToSortSeq(ToSet(bounds), <)

newHistogram(bounds) ==
    [boundaries |-> bounds, counts |-> [i \in DOMAIN bounds |-> 0],
     count |-> 0, sum |-> 0, least |-> 0, largest |-> 0]

\* The definitions named ...Mutant are bugs this code could have had, each beside
\* the definition it would replace; nothing uses them.
addMutant(h, duration) ==                              \* least starts at zero
    [h EXCEPT !.least = IF duration < @ THEN duration ELSE @,
              !.largest = IF duration > @ THEN duration ELSE @,
              !.count = @ + 1,
              !.sum = @ + duration,
              !.counts = [i \in DOMAIN @ |->
                            IF duration <= h.boundaries[i] THEN @[i] + 1 ELSE @[i]]]

\* One measurement, counted in its own bucket and in every wider one; past the
\* last bound it is counted in none.
add(h, duration) ==
    [h EXCEPT !.least = IF h.count = 0 \/ duration < @ THEN duration ELSE @,
              !.largest = IF duration > @ THEN duration ELSE @,
              !.count = @ + 1,
              !.sum = @ + duration,
              !.counts = [i \in DOMAIN @ |->
                            IF duration <= h.boundaries[i] THEN @[i] + 1 ELSE @[i]]]

snapshot(h) ==
    [Count |-> h.count, Sum |-> h.sum, Min |-> h.least, Max |-> h.largest,
     Buckets |-> [i \in DOMAIN h.boundaries |->
                    [AtMost |-> h.boundaries[i], Count |-> h.counts[i]]]]

\* A share outside (0, 1].
Outside(share) == share[1] <= 0 \/ share[1] > share[2]

\* How often a share must be doubled to reach one, and a whole number halved to go
\* down to one: their exponents as float64.
Doublings(share) ==
    CHOOSE e \in 0..share[2] :
        share[1] * 2^e >= share[2] /\ (e > 0 => share[1] * 2^(e - 1) < share[2])
Halvings(k) == CHOOSE l \in 0..k : 2^l <= k /\ k < 2^(l + 1)

\* A share as the caller has it is the float64 nearest to the fraction, whose last
\* place is worth 2^-(52 + Doublings).  By how much it is above the fraction, in
\* places divided by the denominator.
Excess(share) ==
    LET rest[i \in 0..(52 + Doublings(share))] ==
          IF i = 0 THEN share[1] % share[2] ELSE (2 * rest[i - 1]) % share[2]
        dropped == rest[52 + Doublings(share)]
    IN  IF 2 * dropped < share[2] THEN -dropped ELSE share[2] - dropped

\* Where the share of the count is a whole number k, the float64 product is above k
\* when what the share has in excess is more than half of k's own last place.
RoundsPast(share, count, k) ==
    2 * ((Excess(share) * count) \div share[2]) > 2^(Halvings(k) + Doublings(share))

rankMutant(share, count) == Max({1, (share[1] * count) \div share[2]})   \* truncated

\* The nearest rank, rounded up, and at least the first; and one more than that where
\* the float64 product ends up past the whole number it stands for.
rank(share, count) ==
    LET up == (share[1] * count + share[2] - 1) \div share[2]
        whole == (share[1] * count) % share[2] = 0
    IN  Max({1, IF whole /\ RoundsPast(share, count, up) THEN up + 1 ELSE up})

bound(dist, share) ==
    IF dist.Count = 0 \/ dist.Buckets = <<>> THEN 0
    ELSE LET reached == {i \in DOMAIN dist.Buckets :
                           dist.Buckets[i].Count >= rank(share, dist.Count)}
         IN  IF Outside(share) \/ reached = {} THEN Last(dist.Buckets).AtMost
             ELSE dist.Buckets[Min(reached)].AtMost

\* The tighter of a bucket's bound and the largest measurement.
atMost(dist, limit) == IF dist.Count > 0 /\ dist.Max < limit THEN dist.Max ELSE limit

Quantile(dist, share) == atMost(dist, bound(dist, share))
=============================================================================
