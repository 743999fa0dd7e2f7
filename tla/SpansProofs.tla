----------------------------- MODULE SpansProofs -----------------------------
(* Theorems about Spans, for every finite set of spans and every clock.      *)
EXTENDS Spans, FiniteSetTheorems, TLAPS

\* What a tracker holds goes with what it saw: nothing it saw start is back before
\* its start, so a span is remembered at most once.
IInv == /\ TypeOK
        /\ HoldsWhatIsOpen
        /\ \A s \in ToSet(seen) : stage[s] \in {"running", "ending", "over"}

-----------------------------------------------------------------------------
(* The maps and the history.                                                 *)

\* Appending to the history adds one span to those seen.
LEMMA SeenGrows ==
    ASSUME NEW S, NEW s \in Seq(S), NEW x \in S
    PROVE  /\ Append(s, x) \in Seq(S)
           /\ Len(Append(s, x)) = Len(s) + 1
           /\ ToSet(Append(s, x)) = ToSet(s) \cup {x}
<1>1. DOMAIN Append(s, x) = 1..(Len(s) + 1) /\ DOMAIN s = 1..Len(s) /\ Len(s) \in Nat
  OBVIOUS
<1>2. \A i \in DOMAIN s : Append(s, x)[i] = s[i]
  OBVIOUS
<1>3. Append(s, x)[Len(s) + 1] = x
  OBVIOUS
<1>4. ToSet(Append(s, x)) \subseteq ToSet(s) \cup {x}
  BY <1>1, <1>2, <1>3 DEF ToSet
<1>5. ToSet(s) \subseteq ToSet(Append(s, x))
  BY <1>1, <1>2 DEF ToSet
<1>6. x \in ToSet(Append(s, x))
  BY <1>1, <1>3 DEF ToSet
<1> QED
  BY <1>4, <1>5, <1>6

\* The tracker never holds more spans than there are.
LEMMA HeldIsFinite == ASSUME TypeOK PROVE IsFiniteSet(DOMAIN open)
  BY SpansAssumption, FS_Subset DEF TypeOK

-----------------------------------------------------------------------------
(* The invariant.                                                            *)

\* In the beginning the tracker has seen nothing, whatever runs already.
LEMMA InitHolds == Init => IInv
<1> SUFFICES ASSUME Init PROVE IInv
  OBVIOUS
<1> USE SpansAssumption DEF Init
<1>1. DOMAIN open = {} /\ DOMAIN order = {} /\ ToSet(seen) = {} /\ seen \in Seq(SpanIDs)
  BY DEF ToSet
<1>2. stage \in [SpanIDs -> Stages]
  BY DEF Stages
<1>3. TypeOK
  BY <1>1, <1>2 DEF TypeOK
<1>4. Cardinality(DOMAIN open) = 0
  BY <1>1, FS_EmptySet
<1>5. HoldsWhatIsOpen
  BY <1>1, <1>4 DEF HoldsWhatIsOpen, Count
<1> QED
  BY <1>1, <1>3, <1>5 DEF IInv

\* Time passes: the tracker and the program stay as they are.
LEMMA TickKeeps == IInv /\ Tick => IInv'
<1> SUFFICES ASSUME IInv, Tick PROVE IInv'
  OBVIOUS
<1> USE SpansAssumption DEF IInv, Tick, tracker
<1>1. TypeOK'
  BY DEF TypeOK
<1>2. HoldsWhatIsOpen'
  BY DEF HoldsWhatIsOpen, Count
<1> QED
  BY <1>1, <1>2

\* A boundary is stamped and not yet observed: what is held stays held.
LEMMA StampKeeps ==
    ASSUME IInv, NEW s \in SpanIDs, SpanStarted(s) \/ SpanEnded(s) PROVE IInv'
<1> USE SpansAssumption DEF IInv, tracker
<1>1. PICK from, to : /\ Stamp(s, from, to)
                      /\ \/ from = "before" /\ to = "starting"
                         \/ from = "running" /\ to = "ending"
  BY DEF SpanStarted, SpanEnded
<1> USE <1>1 DEF Stamp
<1>2. TypeOK'
  BY DEF TypeOK, Stages
<1>3. stage' = [stage EXCEPT ![s] = to] /\ stage \in [SpanIDs -> Stages] /\ stage[s] = from
  BY DEF TypeOK
<1>4. ToSet(seen) \subseteq SpanIDs /\ ToSet(seen)' = ToSet(seen)
  BY DEF TypeOK, ToSet
<1>5. \A t \in ToSet(seen) : stage'[t] \in {"running", "ending", "over"}
  BY <1>3, <1>4
<1>6. \A t \in ToSet(seen) : stage'[t] \in {"running", "ending"} <=> stage[t] \in {"running", "ending"}
  BY <1>3, <1>4
<1>7. \A t \in DOMAIN open : stage'[t] = "running" => stage[t] = "running" /\ stamped'[t] = stamped[t]
  BY <1>3 DEF TypeOK
<1>8. HoldsWhatIsOpen'
  <2>1. DOMAIN open' = {t \in ToSet(seen)' : stage'[t] \in {"running", "ending"}}
    BY <1>4, <1>6 DEF HoldsWhatIsOpen
  <2>2. \A t \in DOMAIN open' : stage'[t] = "running" => open'[t] = stamped'[t]
    BY <1>7 DEF HoldsWhatIsOpen
  <2>3. starts' - ends' = Count' /\ starts' = Len(seen')
    BY DEF HoldsWhatIsOpen, Count
  <2> QED
    BY <2>1, <2>2, <2>3 DEF HoldsWhatIsOpen
<1> QED
  BY <1>2, <1>4, <1>5, <1>8

\* A start is observed: the span was not held, and is now.
LEMMA ObserveStartKeeps ==
    ASSUME IInv, NEW s \in SpanIDs, ObserveStart(s) PROVE IInv'
<1> USE SpansAssumption DEF IInv, ObserveStart, begin
<1>1. stage' = [stage EXCEPT ![s] = "running"] /\ stage \in [SpanIDs -> Stages] /\ stage[s] = "starting"
  BY DEF TypeOK
<1>2. s \notin ToSet(seen) /\ s \notin DOMAIN open
  BY <1>1 DEF HoldsWhatIsOpen
<1>3. /\ seen' \in Seq(SpanIDs) /\ Len(seen') = Len(seen) + 1
      /\ ToSet(seen)' = ToSet(seen) \cup {s}
  BY SeenGrows DEF TypeOK
<1>4. /\ DOMAIN open' = DOMAIN open \cup {s} /\ open'[s] = stamped[s]
      /\ \A t \in DOMAIN open : open'[t] = open[t]
  BY <1>2 DEF With
<1>5. /\ DOMAIN order' = DOMAIN open \cup {s} /\ order'[s] = next
      /\ \A t \in DOMAIN open : order'[t] = order[t]
  BY <1>2 DEF With, TypeOK
<1>6. TypeOK'
  BY <1>1, <1>3, <1>4, <1>5 DEF TypeOK, Stages
<1>7. ToSet(seen) \subseteq SpanIDs
  BY DEF TypeOK, ToSet
<1>8. \A t \in ToSet(seen) : stage'[t] = stage[t]
  BY <1>1, <1>2, <1>7
<1>9. stage'[s] = "running"
  BY <1>1
<1>10. Cardinality(DOMAIN open') = Cardinality(DOMAIN open) + 1
  BY <1>2, <1>4, HeldIsFinite, FS_AddElement
<1>11. HoldsWhatIsOpen'
  <2>1. DOMAIN open' = {t \in ToSet(seen)' : stage'[t] \in {"running", "ending"}}
    BY <1>3, <1>4, <1>8, <1>9 DEF HoldsWhatIsOpen
  <2>2. \A t \in DOMAIN open' : stage'[t] = "running" => open'[t] = stamped'[t]
    BY <1>4, <1>8 DEF HoldsWhatIsOpen
  <2>3. starts' - ends' = Count' /\ starts' = Len(seen')
    BY <1>3, <1>10, HeldIsFinite, FS_CardinalityType DEF HoldsWhatIsOpen, Count, TypeOK
  <2> QED
    BY <2>1, <2>2, <2>3 DEF HoldsWhatIsOpen
<1> QED
  BY <1>3, <1>6, <1>8, <1>9, <1>11

\* An end is observed: a span that was held is forgotten, by both maps; one that was
\* not changes nothing.
LEMMA ObserveEndKeeps ==
    ASSUME IInv, NEW s \in SpanIDs, ObserveEnd(s) PROVE IInv'
<1> USE SpansAssumption DEF IInv, ObserveEnd
<1>1. stage' = [stage EXCEPT ![s] = "over"] /\ stage \in [SpanIDs -> Stages] /\ stage[s] = "ending"
  BY DEF TypeOK
<1>2. ToSet(seen) \subseteq SpanIDs /\ ToSet(seen)' = ToSet(seen)
  BY DEF TypeOK, ToSet
<1>3. \A t \in ToSet(seen) : t # s => stage'[t] = stage[t]
  BY <1>1, <1>2
<1>4. stage'[s] = "over"
  BY <1>1
<1>5. \A t \in ToSet(seen) : stage'[t] \in {"running", "ending", "over"}
  BY <1>3, <1>4
<1>6. CASE s \in DOMAIN open
  <2> USE <1>6 DEF finish
  <2>1. DOMAIN open' = DOMAIN open \ {s} /\ \A t \in DOMAIN open \ {s} : open'[t] = open[t]
    BY DEF Without
  <2>2. DOMAIN order' = DOMAIN open \ {s} /\ \A t \in DOMAIN open \ {s} : order'[t] = order[t]
    BY DEF Without, TypeOK
  <2>3. TypeOK'
    BY <1>1, <2>1, <2>2 DEF TypeOK, Stages
  <2>4. Cardinality(DOMAIN open') = Cardinality(DOMAIN open) - 1
    BY <2>1, HeldIsFinite, FS_RemoveElement, ZenonT(40)
  <2>5. DOMAIN open' = {t \in ToSet(seen)' : stage'[t] \in {"running", "ending"}}
    BY <1>2, <1>3, <1>4, <2>1 DEF HoldsWhatIsOpen
  <2>6. \A t \in DOMAIN open' : stage'[t] = "running" => open'[t] = stamped'[t]
    BY <1>3, <2>1 DEF HoldsWhatIsOpen
  <2>7. starts' - ends' = Count' /\ starts' = Len(seen')
    BY <2>4, HeldIsFinite, FS_CardinalityType, SMTT(40) DEF HoldsWhatIsOpen, Count, TypeOK
  <2> QED
    BY <1>2, <1>5, <2>3, <2>5, <2>6, <2>7 DEF HoldsWhatIsOpen
<1>7. CASE s \notin DOMAIN open
  <2> USE <1>7 DEF finish, tracker
  <2>1. TypeOK'
    BY <1>1 DEF TypeOK, Stages
  <2>2. s \notin ToSet(seen)
    BY <1>1 DEF HoldsWhatIsOpen
  <2>3. DOMAIN open' = {t \in ToSet(seen)' : stage'[t] \in {"running", "ending"}}
    BY <1>2, <1>3, <2>2 DEF HoldsWhatIsOpen
  <2>4. \A t \in DOMAIN open' : stage'[t] = "running" => open'[t] = stamped'[t]
    BY <1>3, <2>2 DEF HoldsWhatIsOpen
  <2>5. starts' - ends' = Count' /\ starts' = Len(seen')
    BY DEF HoldsWhatIsOpen, Count
  <2> QED
    BY <1>2, <1>5, <2>1, <2>3, <2>4, <2>5 DEF HoldsWhatIsOpen
<1> QED
  BY <1>6, <1>7

\* Every step keeps what the tracker holds.
LEMMA StepKeeps == IInv /\ [Next]_vars => IInv'
<1> SUFFICES ASSUME IInv, [Next]_vars PROVE IInv'
  OBVIOUS
<1>1. CASE Tick
  BY <1>1, TickKeeps
<1>2. CASE \E s \in SpanIDs : SpanStarted(s) \/ SpanEnded(s)
  BY <1>2, StampKeeps
<1>3. CASE \E s \in SpanIDs : ObserveStart(s)
  BY <1>3, ObserveStartKeeps
<1>4. CASE \E s \in SpanIDs : ObserveEnd(s)
  BY <1>4, ObserveEndKeeps
<1>5. CASE UNCHANGED vars
  BY <1>5 DEF IInv, TypeOK, HoldsWhatIsOpen, Count, vars, tracker
<1> QED
  BY <1>1, <1>2, <1>3, <1>4, <1>5 DEF Next, Done

\* The tracker's two maps are kept together and its counters count: every variable
\* of spans.go keeps its type, for every finite set of spans.
THEOREM TypeCorrect == Spec => []TypeOK
<1>1. IInv => TypeOK
  BY DEF IInv
<1> QED
  BY <1>1, InitHolds, StepKeeps, PTL DEF Spec

\* The tracker holds exactly the spans it saw start and not end, whenever it was
\* installed and in whatever order their boundaries are observed, and the gap between
\* Starts and Ends is their number, for every finite set of spans.
THEOREM HoldsExactly == Spec => []HoldsWhatIsOpen
<1>1. IInv => HoldsWhatIsOpen
  BY DEF IInv
<1> QED
  BY <1>1, InitHolds, StepKeeps, PTL DEF Spec

-----------------------------------------------------------------------------
(* The order of Open.                                                        *)

\* The spans held are numbered in the order their starts were observed: sorting them
\* by their numbers, as Open does, lists them in that order.
NumberedInOrderSeen ==
    \A i, j \in DOMAIN seen :
        seen[i] \in DOMAIN open /\ seen[j] \in DOMAIN open
            => (order[seen[i]] < order[seen[j]] <=> i < j)

\* A number is never used twice, since the tracker numbers by what it has seen and not
\* by what it holds: the i-th start seen has number i - 1 as long as its span is held.
NumberInv == /\ next = starts
             /\ \A i \in DOMAIN seen : seen[i] \in DOMAIN open => order[seen[i]] = i - 1

\* A start that is observed gets the number of its place among those seen.
LEMMA StartIsNumbered ==
    ASSUME IInv, NumberInv, NEW s \in SpanIDs, ObserveStart(s) PROVE NumberInv'
<1>1. /\ seen' = Append(seen, s) /\ seen \in Seq(SpanIDs) /\ next = Len(seen)
      /\ DOMAIN order = DOMAIN open
  BY DEF IInv, TypeOK, HoldsWhatIsOpen, NumberInv, ObserveStart
<1>2. s \notin ToSet(seen)
  BY DEF IInv, ObserveStart
<1>3. /\ order'[s] = next /\ DOMAIN open' = DOMAIN open \cup {s}
      /\ \A t \in DOMAIN open : t # s => order'[t] = order[t]
  BY <1>1 DEF ObserveStart, begin, With
<1>4. next' = starts'
  BY DEF NumberInv, ObserveStart, begin
<1> SUFFICES ASSUME NEW i \in DOMAIN seen', seen'[i] \in DOMAIN open'
             PROVE  order'[seen'[i]] = i - 1
  BY <1>4 DEF NumberInv
<1>5. CASE i = Len(seen) + 1
  BY <1>1, <1>3, <1>5
<1>6. CASE i # Len(seen) + 1
  <2>1. i \in DOMAIN seen /\ seen'[i] = seen[i]
    BY <1>1, <1>6
  <2>2. seen[i] # s
    BY <1>2, <2>1 DEF ToSet
  <2> QED
    BY <1>3, <2>1, <2>2 DEF NumberInv
<1> QED
  BY <1>5, <1>6

\* Every other step leaves the numbers of the spans it leaves held.
LEMMA NumberStep == IInv /\ NumberInv /\ [Next]_vars => NumberInv'
<1> SUFFICES ASSUME IInv, NumberInv, [Next]_vars PROVE NumberInv'
  OBVIOUS
<1>1. ASSUME UNCHANGED <<next, starts, seen>>, DOMAIN open' \subseteq DOMAIN open,
             \A t \in DOMAIN open' : order'[t] = order[t]
      PROVE  NumberInv'
  BY <1>1 DEF NumberInv
<1>2. CASE UNCHANGED <<tracker, seen>>
  BY <1>2 DEF NumberInv, tracker
<1>3. CASE \E s \in SpanIDs : ObserveStart(s)
  BY <1>3, StartIsNumbered
<1>4. ASSUME NEW s \in SpanIDs, ObserveEnd(s) PROVE NumberInv'
  <2>1. CASE s \in DOMAIN open
    <3>1. DOMAIN order = DOMAIN open
      BY DEF IInv, TypeOK
    <3> QED
      BY <1>1, <1>4, <2>1, <3>1 DEF ObserveEnd, finish, Without
  <2>2. CASE s \notin DOMAIN open
    BY <1>2, <1>4, <2>2 DEF ObserveEnd, finish
  <2> QED
    BY <2>1, <2>2
<1> QED
  BY <1>2, <1>3, <1>4 DEF Next, Tick, SpanStarted, SpanEnded, Stamp, Done, vars

\* So the numbers never put two held spans in another order than that.
LEMMA NumbersAreInOrder == IInv /\ NumberInv => NumberedInOrderSeen
<1> SUFFICES ASSUME IInv, NumberInv, NEW i \in DOMAIN seen, NEW j \in DOMAIN seen,
                    seen[i] \in DOMAIN open, seen[j] \in DOMAIN open
             PROVE  order[seen[i]] < order[seen[j]] <=> i < j
  BY DEF NumberedInOrderSeen
<1>1. order[seen[i]] = i - 1 /\ order[seen[j]] = j - 1
  BY DEF NumberInv
<1>2. i \in Nat /\ j \in Nat
  <2>1. seen \in Seq(SpanIDs)
    BY DEF IInv, TypeOK
  <2> QED
    BY <2>1
<1> QED
  BY <1>1, <1>2

\* A finite set in a strict total order can be listed in that order: each member at the
\* place that is the number of those up to it.
LEMMA ListedInOrder ==
    ASSUME NEW S, IsFiniteSet(S), NEW R,
           \A x \in S : <<x, x>> \notin R,
           \A x, y, z \in S : <<x, y>> \in R /\ <<y, z>> \in R => <<x, z>> \in R,
           \A x, y \in S : x # y => <<x, y>> \in R \/ <<y, x>> \in R
    PROVE  \E s \in [1..Cardinality(S) -> S] :
              /\ \A x \in S : \E i \in 1..Cardinality(S) : s[i] = x
              /\ \A i, j \in 1..Cardinality(S) : i < j => <<s[i], s[j]>> \in R
<1> DEFINE UpTo(x) == {y \in S : <<y, x>> \in R \/ y = x}
<1>1. PICK n \in Nat : n = Cardinality(S) /\ IsFiniteSet(1..n) /\ Cardinality(1..n) = n
  BY FS_CardinalityType, FS_Interval
<1>2. PICK place : place = [x \in S |-> Cardinality(UpTo(x))]
  OBVIOUS
<1>3. ASSUME NEW x \in S
      PROVE  IsFiniteSet(UpTo(x)) /\ place[x] = Cardinality(UpTo(x)) /\ place[x] \in 1..n
  <2>1. UpTo(x) \in SUBSET S /\ x \in UpTo(x)
    OBVIOUS
  <2>2. IsFiniteSet(UpTo(x)) /\ Cardinality(UpTo(x)) <= n
    BY <1>1, <2>1, FS_Subset
  <2>3. Cardinality(UpTo(x)) \in Nat /\ Cardinality(UpTo(x)) # 0
    BY <2>1, <2>2, FS_CardinalityType, FS_EmptySet
  <2> QED
    BY <1>1, <1>2, <2>2, <2>3
<1>4. ASSUME NEW x \in S, NEW y \in S, <<x, y>> \in R PROVE place[x] < place[y]
  <2>1. UpTo(x) \in SUBSET UpTo(y) /\ UpTo(x) # UpTo(y)
    BY <1>4
  <2>2. Cardinality(UpTo(x)) <= Cardinality(UpTo(y)) /\ Cardinality(UpTo(x)) # Cardinality(UpTo(y))
    BY <1>3, <2>1, FS_Subset
  <2>3. /\ place[x] = Cardinality(UpTo(x)) /\ place[y] = Cardinality(UpTo(y))
        /\ place[x] \in Nat /\ place[y] \in Nat
    BY <1>3
  <2> HIDE DEF UpTo
  <2> QED
    BY <2>2, <2>3
<1> HIDE DEF UpTo
<1>5. place \in [S -> 1..n]
  BY <1>2, <1>3
<1>6. ASSUME NEW x \in S, NEW y \in S, place[x] = place[y] PROVE x = y
  <2>1. place[x] \in Nat /\ place[y] \in Nat
    BY <1>5
  <2>2. ~(place[x] < place[y]) /\ ~(place[y] < place[x])
    BY <1>6, <2>1
  <2> QED
    BY <1>4, <2>2
<1>7. place \in Injection(S, 1..n)
  BY <1>5, <1>6 DEF Injection, IsInjective
<1>8. place \in Surjection(S, 1..n)
  BY <1>1, <1>7, FS_Injection
<1>9. \A i \in 1..n : \E x \in S : place[x] = i
  BY <1>8 DEF Surjection
<1>10. PICK s : s = [i \in 1..n |-> CHOOSE x \in S : place[x] = i]
  OBVIOUS
<1>11. \A i \in 1..n : s[i] \in S /\ place[s[i]] = i
  BY <1>9, <1>10
<1>12. s \in [1..n -> S]
  BY <1>10, <1>11
<1>13. ASSUME NEW x \in S PROVE \E i \in 1..n : s[i] = x
  <2>1. place[x] \in 1..n
    BY <1>5
  <2> QED
    BY <1>6, <1>11, <2>1
<1>14. ASSUME NEW i \in 1..n, NEW j \in 1..n, i < j PROVE <<s[i], s[j]>> \in R
  <2>1. s[i] \in S /\ s[j] \in S /\ place[s[i]] = i /\ place[s[j]] = j
    BY <1>11
  <2>2. s[i] # s[j]
    BY <1>14, <2>1
  <2>3. <<s[j], s[i]>> \notin R
    <3> SUFFICES ASSUME <<s[j], s[i]>> \in R PROVE FALSE
      OBVIOUS
    <3>1. place[s[j]] < place[s[i]]
      BY <1>4, <2>1
    <3> QED
      BY <1>14, <2>1, <3>1
  <2> QED
    BY <2>1, <2>2, <2>3
<1> QED
  BY <1>1, <1>12, <1>13, <1>14

\* What Open lists: the spans held, each once, sorted by their numbers.
LEMMA OpenIsSorted ==
    ASSUME IInv, NumberedInOrderSeen
    PROVE  /\ Open \in [1..Count -> DOMAIN open] /\ ToSet(Open) = DOMAIN open /\ IsInjective(Open)
           /\ \A i, j \in 1..Count : i < j => order[Open[i]] <= order[Open[j]]
<1> DEFINE Sorted(s) == /\ ToSet(s) = DOMAIN open
                        /\ \A i, j \in 1..Count : i < j => order[s[i]] <= order[s[j]]
<1>1. IsFiniteSet(DOMAIN open) /\ Count = Cardinality(DOMAIN open) /\ Count \in Nat
  BY SpansAssumption, FS_Subset, FS_CardinalityType DEF IInv, TypeOK, Count
<1>2. \A x \in DOMAIN open : order[x] \in Int
  BY DEF IInv, TypeOK
<1>3. ASSUME NEW x \in DOMAIN open, NEW y \in DOMAIN open, x # y PROVE order[x] # order[y]
  <2>1. PICK m \in DOMAIN seen, n \in DOMAIN seen : seen[m] = x /\ seen[n] = y
    BY DEF IInv, HoldsWhatIsOpen, ToSet
  <2>2. m \in Nat /\ n \in Nat /\ m # n
    <3>1. seen \in Seq(SpanIDs)
      BY DEF IInv, TypeOK
    <3> QED
      BY <1>3, <2>1, <3>1
  <2> QED
    BY <1>2, <2>1, <2>2 DEF NumberedInOrderSeen
<1> DEFINE R == {p \in (DOMAIN open) \X (DOMAIN open) : order[p[1]] < order[p[2]]}
<1>r. ASSUME NEW x \in DOMAIN open, NEW y \in DOMAIN open
      PROVE  <<x, y>> \in R <=> order[x] < order[y]
  OBVIOUS
<1> HIDE DEF R
<1>4. /\ \A x \in DOMAIN open : <<x, x>> \notin R
      /\ \A x, y, z \in DOMAIN open : <<x, y>> \in R /\ <<y, z>> \in R => <<x, z>> \in R
      /\ \A x, y \in DOMAIN open : x # y => <<x, y>> \in R \/ <<y, x>> \in R
  <2>1. ASSUME NEW x \in DOMAIN open PROVE <<x, x>> \notin R
    BY <1>2, <1>r
  <2>2. ASSUME NEW x \in DOMAIN open, NEW y \in DOMAIN open, NEW z \in DOMAIN open,
               <<x, y>> \in R, <<y, z>> \in R
        PROVE  <<x, z>> \in R
    <3>1. order[x] < order[y] /\ order[y] < order[z]
      BY <1>r, <2>2
    <3> QED
      BY <1>2, <1>r, <3>1
  <2>3. ASSUME NEW x \in DOMAIN open, NEW y \in DOMAIN open, x # y
        PROVE  <<x, y>> \in R \/ <<y, x>> \in R
    <3>1. order[x] # order[y] /\ order[x] \in Int /\ order[y] \in Int
      BY <1>2, <1>3, <2>3
    <3> QED
      BY <1>r, <3>1
  <2> QED
    BY <2>1, <2>2, <2>3
<1>5. PICK s \in [1..Count -> DOMAIN open] :
          /\ \A x \in DOMAIN open : \E i \in 1..Count : s[i] = x
          /\ \A i, j \in 1..Count : i < j => <<s[i], s[j]>> \in R
  BY <1>1, <1>4, ListedInOrder
<1>6. Sorted(s)
  <2>1. ToSet(s) = DOMAIN open
    BY <1>5 DEF ToSet
  <2>2. ASSUME NEW i \in 1..Count, NEW j \in 1..Count, i < j PROVE order[s[i]] <= order[s[j]]
    <3>1. s[i] \in DOMAIN open /\ s[j] \in DOMAIN open /\ order[s[i]] < order[s[j]]
      BY <1>5, <1>r, <2>2
    <3> QED
      BY <1>2, <3>1
  <2> QED
    BY <2>1, <2>2
<1>7. Open \in [1..Count -> DOMAIN open] /\ Sorted(Open)
  BY <1>5, <1>6 DEF Open
<1>8. Open \in Surjection(1..Count, DOMAIN open)
  BY <1>7 DEF Surjection, ToSet
<1>9. IsInjective(Open)
  BY <1>1, <1>8, FS_Interval, FS_Surjection DEF Injection
<1> QED
  BY <1>7, <1>9

\* However many spans open and close in between, Open lists those held in the order
\* their starts were observed in, each once, for every finite set of spans.
THEOREM ListedInOrderSeen == Spec => []OpenInOrderSeen
<1>1. Init => NumberInv
  BY DEF Init, NumberInv
<1>2. IInv /\ NumberInv => OpenInOrderSeen
  <2> SUFFICES ASSUME IInv, NumberInv PROVE OpenInOrderSeen
    OBVIOUS
  <2>1. /\ Open \in [1..Count -> DOMAIN open] /\ ToSet(Open) = DOMAIN open /\ IsInjective(Open)
        /\ \A i, j \in 1..Count : i < j => order[Open[i]] <= order[Open[j]]
    BY NumbersAreInOrder, OpenIsSorted
  <2>2. ASSUME NEW i \in DOMAIN Open, NEW j \in DOMAIN Open,
               NEW m \in DOMAIN seen, NEW n \in DOMAIN seen,
               i < j, Open[i] = seen[m], Open[j] = seen[n]
        PROVE  m < n
    <3>1. seen \in Seq(SpanIDs) /\ \A x \in DOMAIN open : order[x] \in Int
      BY DEF IInv, TypeOK
    <3>2. m \in Nat /\ n \in Nat
      BY <3>1
    <3>3. i \in 1..Count /\ j \in 1..Count /\ Open[i] # Open[j]
      BY <2>1, <2>2 DEF IsInjective
    <3>4. order[seen[m]] <= order[seen[n]] /\ seen[m] \in DOMAIN open /\ seen[n] \in DOMAIN open
      BY <2>1, <2>2, <3>3
    <3>5. ~(n < m)
      BY <3>1, <3>4, NumbersAreInOrder DEF NumberedInOrderSeen
    <3>6. m # n
      BY <2>2, <3>3
    <3> QED
      BY <3>2, <3>5, <3>6
  <2> QED
    BY <2>1, <2>2 DEF OpenInOrderSeen
<1> QED
  BY <1>1, <1>2, InitHolds, StepKeeps, NumberStep, PTL DEF Spec
=============================================================================
