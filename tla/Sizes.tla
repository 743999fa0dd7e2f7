-------------------------------- MODULE Sizes --------------------------------
(* process.DiffSizes and process.Spread: which sizes the allocations between *)
(* two readings of Go's allocation-size histogram had.  A reading is         *)
(* [Boundaries, Counts], bucket i holding the sizes from Boundaries[i] up to *)
(* and without Boundaries[i + 1], as Go's histograms do; a spread is         *)
(* [Classes, Total], its classes [AtMost, Count] by size.                    *)
EXTENDS Change, SequencesExt

CONSTANTS bands,      \* the edges a spread is gathered by
          Unbounded   \* the edge of the last bucket, above every size

ASSUME SizesAssumption == /\ Unbounded \in Nat
                          /\ bands \in Seq(Nat)
                          /\ \A i, j \in DOMAIN bands : i < j => bands[i] < bands[j]
                          /\ \A i \in DOMAIN bands : bands[i] < Unbounded

\* A set of numbers as a sequence, the smaller before the larger.
Ascending(S) ==
    CHOOSE s \in [1..Cardinality(S) -> S] : \A i, j \in 1..Cardinality(S) : i < j => s[i] < s[j]

CountWhere(classes, P(_)) ==
    SumFunction([i \in {n \in DOMAIN classes : P(classes[n])} |-> classes[i].Count])
Counted(classes) == CountWhere(classes, LAMBDA class : TRUE)
Seen(classes) == LET those == Ascending({i \in DOMAIN classes : classes[i].Count # 0})
                 IN  [n \in DOMAIN those |-> classes[those[n]]]
NoSpread == [Classes |-> <<>>, Total |-> 0]

boundOf(bounds, index) == IF index + 1 \in DOMAIN bounds THEN bounds[index + 1] ELSE Unbounded

\* The classes that saw something, and how many allocations they saw together.
DiffSizes(before, after) ==
    LET classes == [i \in DOMAIN after.Counts |->
                      [AtMost |-> boundOf(after.Boundaries, i),
                       Count |-> delta(before.Counts[i], after.Counts[i])]]
    IN  IF Len(before.Counts) # Len(after.Counts) THEN NoSpread
        ELSE [Classes |-> Seen(classes), Total |-> Counted(classes)]

\* The class that holds the most allocations, the smallest of several.
Largest(spread) ==
    LET most == Max({spread.Classes[i].Count : i \in DOMAIN spread.Classes})
    IN  spread.Classes[Min({i \in DOMAIN spread.Classes : spread.Classes[i].Count = most})]

\* The definition named ...Mutant is a bug this code could have had, beside the
\* definition it would replace; nothing uses it.
bandOfMutant(atMost) ==                          \* no band past the last edge
    Min({i \in DOMAIN bands : atMost <= bands[i]} \cup {Len(bands)})

bandOf(atMost) == Min({i \in DOMAIN bands : atMost <= bands[i]} \cup {Len(bands) + 1})

\* Every band, with what the classes in it count together.
InBands(classes) ==
    [b \in 1..(Len(bands) + 1) |->
        [AtMost |-> IF b \in DOMAIN bands THEN bands[b] ELSE Unbounded,
         Count |-> CountWhere(classes, LAMBDA class : bandOf(class.AtMost) = b)]]

\* The classes gathered into the bands that saw something.
Bands(spread) == [Classes |-> Seen(InBands(spread.Classes)), Total |-> spread.Total]
=============================================================================
