----------------------------- MODULE CostsProofs -----------------------------
(* Theorems about Costs, for every program, number of runners, list of names *)
(* and size of the ring.                                                     *)
EXTENDS Costs, FiniteSetTheorems, WellFoundedInduction, TLAPS

Readings == {ReadAt[t] : t \in 0..Limit}
SizeReadings == {NotRead} \cup {ReadSizesAt[t] : t \in 0..Limit}
Changes == {Diff(before, after) : before, after \in Readings}
Spreads == {NoSpread} \cup {DiffSizes(before, after) : before, after \in SizeReadings}

\* What a runner holds at each stage of a run.
Opened == [stage : {"opened"}, name : Names, span : Nat]
Running == [stage : {"begun", "running"}, name : Names, before : Readings,
            sizesBefore : SizeReadings, span : Nat]
Ended == [stage : {"ended", "recording"}, name : Names, sizesBefore : SizeReadings,
          change : Changes, spread : Spreads, span : Nat]
Closing == [stage : {"closing"}, span : Nat]

Span == [name : Names, start : Int, end : Int, run : [Duration : Int, EndTime : Int]]

TypeOK == /\ mode \in Modes
          /\ now \in 0..Limit
          /\ run \in [Runners -> {Idle} \cup Opened \cup Running \cup Ended \cup Closing]
          /\ spans \in Seq(Span)

\* The run a runner has open belongs to a span of its own that has not ended, and
\* what has been read of it was read since that span started.
InSpan(r) ==
    LET span == spans[run[r].span]
    IN  /\ run[r].span \in DOMAIN spans
        /\ span.end = -1
        /\ run[r].stage \in {"begun", "running"} =>
             span.start <= run[r].before.Time /\ run[r].before.Time <= now
        /\ run[r].stage \in {"ended", "recording"} =>
             /\ span.start <= run[r].change.EndTime - run[r].change.Duration
             /\ run[r].change.EndTime <= now

\* What was recorded under a span was read while it was open.
Closes(span) ==
    /\ span.start <= now
    /\ span.run.EndTime # -1 => /\ span.start <= span.run.EndTime - span.run.Duration
                                /\ span.run.EndTime <= now
                                /\ span.end # -1 => span.run.EndTime <= span.end

SpanInv ==
    /\ \A r \in Runners : run[r].stage = "closing" => mode.measured
    /\ mode.measured =>
         /\ \A r \in Runners : run[r].stage # "idle" => InSpan(r)
         /\ \A r, q \in Runners : /\ r # q /\ run[r].stage # "idle" /\ run[q].stage # "idle"
                                  => run[r].span # run[q].span
    /\ \A i \in DOMAIN spans : Closes(spans[i])

IInv == TypeOK /\ SpanInv

-----------------------------------------------------------------------------
(* Finite sets and sums of numbers.                                          *)

\* What holds of the empty set, and of every set if it holds of the sets that have one
\* member less, holds of every subset of a finite set.
LEMMA SubsetInduction ==
    ASSUME NEW S, IsFiniteSet(S), NEW Good, {} \in Good,
           \A T \in SUBSET S : T # {} /\ (\A x \in T : T \ {x} \in Good) => T \in Good
    PROVE  SUBSET S \subseteq Good
<1> DEFINE Bad == {T \in SUBSET S : T \notin Good}
           F == FiniteSubsetsOf(S)
           R == StrictSubsetOrdering(S)
<1> SUFFICES ASSUME Bad # {} PROVE FALSE
  OBVIOUS
<1>1. Bad \subseteq F
  BY FS_Subset DEF FiniteSubsetsOf
<1>2. IsWellFoundedOn(R, F)
  BY FS_StrictSubsetOrderingWellFounded
<1>3. PICK T \in Bad : \A U \in Bad : ~(<<U, T>> \in R)
  <2> HIDE DEF Bad, F, R
  <2> QED
    BY <1>1, <1>2, WFMin
<1>4. ASSUME NEW x \in T PROVE T \ {x} \in Good
  <2>1. PICK U : U = T \ {x}
    OBVIOUS
  <2>2. <<U, T>> \in R
    BY <2>1 DEF StrictSubsetOrdering
  <2>3. U \notin Bad
    BY <1>3, <2>2
  <2> QED
    BY <2>1, <2>3
<1>5. T \in SUBSET S /\ T \notin Good
  OBVIOUS
<1> QED
  BY <1>4, <1>5

One(s) == CHOOSE x \in s : TRUE
Adds(g, h, s) == h[s] = IF s = {} THEN 0 ELSE g[One(s)] + h[s \ {One(s)}]
IsSum(g, S, h) == h = [s \in SUBSET S |-> IF s = {} THEN 0 ELSE g[One(s)] + h[s \ {One(s)}]]

\* There is a function that adds up a finite set, one member after another.
LEMMA SumIsThere ==
    ASSUME NEW S, IsFiniteSet(S), NEW g PROVE \E h : IsSum(g, S, h)
<1> DEFINE Upto(h, n) == \A s \in SUBSET S : Cardinality(s) <= n => Adds(g, h, s)
           Good == {T \in SUBSET S : \E h : h = [s \in SUBSET S |-> h[s]] /\ Upto(h, Cardinality(T))}
<1>1. \A s \in SUBSET S : IsFiniteSet(s) /\ Cardinality(s) \in Nat
  BY FS_Subset, FS_CardinalityType
<1>2. \A s \in SUBSET S : s # {} =>
        /\ One(s) \in s /\ s \ {One(s)} \in SUBSET S
        /\ Cardinality(s \ {One(s)}) = Cardinality(s) - 1
  BY <1>1, FS_RemoveElement DEF One
<1>3. \A s \in SUBSET S : Cardinality(s) = 0 <=> s = {}
  BY <1>1, FS_EmptySet
<1>4. {} \in Good
  <2> DEFINE h == [s \in SUBSET S |-> 0]
  <2>1. h = [s \in SUBSET S |-> h[s]] /\ Cardinality({}) = 0
    BY FS_EmptySet
  <2>2. Upto(h, 0)
    BY <1>1, <1>3 DEF Adds
  <2> QED
    BY <2>1, <2>2
<1>5. ASSUME NEW T \in SUBSET S, NEW x \in T, T \ {x} \in Good PROVE T \in Good
  <2>1. PICK n \in Nat : n = Cardinality(T \ {x}) /\ Cardinality(T) = n + 1
    BY <1>1, FS_RemoveElement
  <2>2. PICK h : h = [s \in SUBSET S |-> h[s]] /\ Upto(h, n)
    BY <1>5, <2>1
  <2> DEFINE k == [s \in SUBSET S |-> IF Cardinality(s) <= n THEN h[s]
                                      ELSE g[One(s)] + h[s \ {One(s)}]]
  <2>3. Upto(k, n + 1)
    <3> SUFFICES ASSUME NEW s \in SUBSET S, Cardinality(s) <= n + 1 PROVE Adds(g, k, s)
      OBVIOUS
    <3>1. CASE s = {}
      <4>1. Cardinality(s) = 0 /\ 0 <= n
        BY <1>3, <2>1, <3>1
      <4>2. k[s] = h[s] /\ h[s] = 0
        BY <2>2, <3>1, <4>1 DEF Adds
      <4> QED
        BY <3>1, <4>2 DEF Adds
    <3>2. CASE s # {}
      <4>1. /\ s \ {One(s)} \in SUBSET S /\ Cardinality(s \ {One(s)}) = Cardinality(s) - 1
            /\ Cardinality(s) \in Nat
        BY <1>1, <1>2, <3>2
      <4>2. k[s \ {One(s)}] = h[s \ {One(s)}]
        BY <2>1, <4>1
      <4>3. k[s] = g[One(s)] + h[s \ {One(s)}]
        BY <2>2, <3>2, <4>1 DEF Adds
      <4> QED
        BY <3>2, <4>2, <4>3 DEF Adds
    <3> QED
      BY <3>1, <3>2
  <2>4. k = [s \in SUBSET S |-> k[s]]
    OBVIOUS
  <2> QED
    BY <2>1, <2>3, <2>4
<1>6. S \in Good
  <2>1. \A T \in SUBSET S : T # {} /\ (\A x \in T : T \ {x} \in Good) => T \in Good
    <3> SUFFICES ASSUME NEW T \in SUBSET S, NEW x \in T, T \ {x} \in Good PROVE T \in Good
      OBVIOUS
    <3> HIDE DEF Good
    <3> QED
      BY <1>5
  <2> HIDE DEF Good
  <2>2. SUBSET S \subseteq Good
    BY <1>4, <2>1, SubsetInduction
  <2> QED
    BY <2>2
<1>7. PICK h : h = [s \in SUBSET S |-> h[s]] /\ Upto(h, Cardinality(S))
  BY <1>6
<1>8. \A s \in SUBSET S : Cardinality(s) <= Cardinality(S)
  BY FS_Subset
<1>9. \A s \in SUBSET S : Adds(g, h, s)
  BY <1>7, <1>8
<1> QED
  BY <1>7, <1>9 DEF IsSum, Adds

\* h adds up the parts of a set, whichever member is taken first.
Adder(g, S, h) == /\ h \in [SUBSET S -> Nat]
                  /\ h[{}] = 0
                  /\ \A T \in SUBSET S : \A x \in T : h[T] = g[x] + h[T \ {x}]

\* The sum of a finite function is that of any of its values and of the others.
LEMMA SumIs ==
    ASSUME NEW S, IsFiniteSet(S), NEW g \in [S -> Nat]
    PROVE  \E h : Adder(g, S, h) /\ SumFunction(g) = h[S]
<1>0. DOMAIN g = S
  OBVIOUS
<1>1. SumFunction(g) = (CHOOSE h : IsSum(g, S, h))[S]
  BY <1>0 DEF SumFunction, SumFunctionOnSet, FoldFunctionOnSet, MapThenFoldSet, IsSum, One
<1>2. PICK h : IsSum(g, S, h) /\ SumFunction(g) = h[S]
  BY <1>1, SumIsThere
<1>3. h[{}] = 0 /\ h = [T \in SUBSET S |-> h[T]]
  BY <1>2 DEF IsSum
<1>4. ASSUME NEW T \in SUBSET S, T # {} PROVE One(T) \in T /\ h[T] = g[One(T)] + h[T \ {One(T)}]
  BY <1>2, <1>4 DEF IsSum, One
<1>5. SUBSET S \subseteq {T \in SUBSET S : h[T] \in Nat}
  <2> DEFINE Good == {T \in SUBSET S : h[T] \in Nat}
  <2>1. {} \in Good
    BY <1>3
  <2>2. ASSUME NEW T \in SUBSET S, T # {}, \A x \in T : T \ {x} \in Good PROVE T \in Good
    <3>1. One(T) \in T /\ h[T] = g[One(T)] + h[T \ {One(T)}]
      BY <1>4, <2>2
    <3>2. g[One(T)] \in Nat /\ h[T \ {One(T)}] \in Nat
      BY <2>2, <3>1
    <3> QED
      BY <3>1, <3>2
  <2> HIDE DEF Good
  <2>3. SUBSET S \subseteq Good
    BY <2>1, <2>2, SubsetInduction
  <2> QED
    BY <2>3 DEF Good
<1>6. SUBSET S \subseteq {T \in SUBSET S : \A x \in T : h[T] = g[x] + h[T \ {x}]}
  <2> DEFINE Good == {T \in SUBSET S : \A x \in T : h[T] = g[x] + h[T \ {x}]}
  <2>1. {} \in Good
    OBVIOUS
  <2>2. ASSUME NEW T \in SUBSET S, T # {}, \A x \in T : T \ {x} \in Good PROVE T \in Good
    <3>1. PICK y \in T : h[T] = g[y] + h[T \ {y}]
      BY <1>4, <2>2
    <3>2. ASSUME NEW x \in T, x # y PROVE h[T] = g[x] + h[T \ {x}]
      <4>1. PICK rest \in SUBSET S : rest = (T \ {y}) \ {x} /\ rest = (T \ {x}) \ {y}
        OBVIOUS
      <4>2. h[T \ {y}] = g[x] + h[rest] /\ h[T \ {x}] = g[y] + h[rest]
        BY <2>2, <3>2, <4>1
      <4>3. g[x] \in Nat /\ g[y] \in Nat /\ h[rest] \in Nat
        BY <1>5
      <4> QED
        BY <3>1, <4>2, <4>3
    <3> QED
      BY <3>1, <3>2
  <2> HIDE DEF Good
  <2>3. SUBSET S \subseteq Good
    BY <2>1, <2>2, SubsetInduction
  <2> QED
    BY <2>3 DEF Good
<1>7. h \in [SUBSET S -> Nat]
  BY <1>3, <1>5
<1> QED
  BY <1>2, <1>3, <1>6, <1>7 DEF Adder

\* A sum of natural numbers is one.
LEMMA SumType ==
    ASSUME NEW S, IsFiniteSet(S), NEW g \in [S -> Nat]
    PROVE  SumFunction(g) \in Nat
<1>1. PICK h : Adder(g, S, h) /\ SumFunction(g) = h[S]
  BY SumIs
<1>2. h \in [SUBSET S -> Nat] /\ S \in SUBSET S
  BY <1>1 DEF Adder
<1> QED
  BY <1>1, <1>2

\* With more and larger values the sum is no less.
LEMMA SumMonotone ==
    ASSUME NEW S, IsFiniteSet(S), NEW T \in SUBSET S, NEW f \in [T -> Nat], NEW g \in [S -> Nat],
           \A x \in T : f[x] <= g[x]
    PROVE  SumFunction(f) <= SumFunction(g)
<1>1. PICK h : Adder(f, T, h) /\ SumFunction(f) = h[T]
  BY FS_Subset, SumIs
<1>2. PICK k : Adder(g, S, k) /\ SumFunction(g) = k[S]
  BY SumIs
<1> DEFINE Good == {U \in SUBSET S : h[U \cap T] <= k[U]}
<1>3. {} \in Good
  BY <1>1, <1>2 DEF Adder
<1>4. ASSUME NEW U \in SUBSET S, U # {}, \A x \in U : U \ {x} \in Good PROVE U \in Good
  <2>1. PICK x \in U : k[U] = g[x] + k[U \ {x}]
    BY <1>2, <1>4 DEF Adder
  <2>2. PICK rest \in SUBSET T : rest = (U \ {x}) \cap T
    OBVIOUS
  <2>3. h[rest] <= k[U \ {x}] /\ h[rest] \in Nat /\ k[U \ {x}] \in Nat /\ g[x] \in Nat
    BY <1>1, <1>2, <1>4, <2>2 DEF Adder
  <2>4. CASE x \in T
    <3>1. x \in U \cap T /\ U \cap T \in SUBSET T /\ (U \cap T) \ {x} = rest
      BY <2>2, <2>4
    <3>2. h[U \cap T] = f[x] + h[rest] /\ f[x] <= g[x] /\ f[x] \in Nat
      BY <1>1, <2>4, <3>1 DEF Adder
    <3> QED
      BY <2>1, <2>3, <3>2
  <2>5. CASE x \notin T
    <3>1. U \cap T = rest
      BY <2>2, <2>5
    <3>2. h[rest] <= k[U]
      BY <2>1, <2>3
    <3> QED
      BY <3>1, <3>2
  <2> QED
    BY <2>4, <2>5
<1> HIDE DEF Good
<1>5. SUBSET S \subseteq Good
  BY <1>3, <1>4, SubsetInduction
<1>6. S \in Good /\ S \cap T = T
  BY <1>5
<1> QED
  BY <1>1, <1>2, <1>6 DEF Good

\* What is added to one value, or put in as a new one, is added to the sum.
LEMMA SumWith ==
    ASSUME NEW S, IsFiniteSet(S), NEW f \in [S -> Nat], NEW k, NEW d \in Nat,
           NEW g \in [S \cup {k} -> Nat],
           g[k] = (IF k \in S THEN f[k] ELSE 0) + d,
           \A x \in S \ {k} : g[x] = f[x]
    PROVE  SumFunction(g) = SumFunction(f) + d
<1> DEFINE all == S \cup {k}
<1>1. IsFiniteSet(all)
  BY FS_AddElement
<1>2. PICK h : Adder(f, S, h) /\ SumFunction(f) = h[S]
  BY SumIs
<1>3. PICK m : Adder(g, all, m) /\ SumFunction(g) = m[all]
  BY <1>1, SumIs
<1>0. PICK rest : rest = S \ {k}
  OBVIOUS
<1>12. rest \in SUBSET S /\ IsFiniteSet(rest)
  BY <1>0, FS_Subset
<1> DEFINE Good == {U \in SUBSET rest : h[U] = m[U]}
<1>4. {} \in Good
  BY <1>2, <1>3 DEF Adder
<1>5. ASSUME NEW U \in SUBSET rest, U # {}, \A x \in U : U \ {x} \in Good PROVE U \in Good
  <2>1. PICK x \in U : x \in S /\ x # k /\ g[x] = f[x] /\ U \in SUBSET S /\ U \in SUBSET all
    BY <1>0, <1>5
  <2>2. h[U] = f[x] + h[U \ {x}]
    BY <1>2, <2>1 DEF Adder
  <2>3. m[U] = g[x] + m[U \ {x}]
    BY <1>3, <2>1 DEF Adder
  <2> QED
    BY <1>5, <2>1, <2>2, <2>3
<1> HIDE DEF Good
<1>6. SUBSET rest \subseteq Good
  BY <1>12, <1>4, <1>5, SubsetInduction
<1>7. h[S \ {k}] = m[S \ {k}] /\ h[S \ {k}] \in Nat
  BY <1>0, <1>2, <1>6 DEF Good, Adder
<1>8. all \ {k} = S \ {k} /\ k \in all
  OBVIOUS
<1>9. m[all] = g[k] + m[S \ {k}]
  BY <1>3, <1>8 DEF Adder
<1>10. CASE k \in S
  <2>1. h[S] = f[k] + h[S \ {k}] /\ f[k] \in Nat
    BY <1>2, <1>10 DEF Adder
  <2> QED
    BY <1>2, <1>3, <1>7, <1>9, <1>10, <2>1
<1>11. CASE k \notin S
  <2>1. S \ {k} = S
    BY <1>11
  <2>2. SumFunction(f) = m[S \ {k}] /\ SumFunction(g) = d + m[S \ {k}] /\ m[S \ {k}] \in Nat
    BY <1>2, <1>3, <1>7, <1>9, <1>11, <2>1
  <2> QED
    BY <2>2
<1> QED
  BY <1>10, <1>11

\* Multiplication, one more time.
LEMMA OnceMore == ASSUME NEW n \in Nat, NEW x \in Nat PROVE (n + 1) * x = n * x + x
  OBVIOUS

\* No more than so many times the largest.
LEMMA SumBounded ==
    ASSUME NEW S, IsFiniteSet(S), NEW g \in [S -> Nat], NEW n \in Nat, \A x \in S : g[x] <= n
    PROVE  SumFunction(g) <= Cardinality(S) * n
<1>1. PICK h : Adder(g, S, h) /\ SumFunction(g) = h[S]
  BY SumIs
<1> DEFINE Good == {T \in SUBSET S : h[T] <= Cardinality(T) * n}
<1>2. {} \in Good
  BY <1>1, FS_EmptySet DEF Adder
<1>3. ASSUME NEW T \in SUBSET S, T # {}, \A x \in T : T \ {x} \in Good PROVE T \in Good
  <2>1. PICK x \in T : h[T] = g[x] + h[T \ {x}]
    BY <1>1, <1>3 DEF Adder
  <2>2. PICK c \in Nat : c = Cardinality(T \ {x}) /\ Cardinality(T) = c + 1
    <3>1. IsFiniteSet(T) /\ IsFiniteSet(T \ {x})
      BY FS_Subset
    <3>2. Cardinality(T) \in Nat /\ Cardinality(T \ {x}) \in Nat
      BY <3>1, FS_CardinalityType
    <3>3. Cardinality(T \ {x}) = Cardinality(T) - 1
      BY <3>1, FS_RemoveElement
    <3> QED
      BY <3>2, <3>3
  <2>3. h[T \ {x}] <= c * n /\ h[T \ {x}] \in Nat /\ g[x] \in Nat /\ g[x] <= n
    BY <1>1, <1>3, <2>2 DEF Adder
  <2>4. (c + 1) * n = c * n + n /\ c * n \in Int
    BY OnceMore
  <2>5. PICK whole \in Int : whole = c * n /\ (c + 1) * n = whole + n
    BY <2>4
  <2>6. h[T] <= whole + n
    BY <2>1, <2>3, <2>5
  <2> QED
    BY <2>2, <2>5, <2>6
<1> HIDE DEF Good
<1>4. SUBSET S \subseteq Good
  BY <1>2, <1>3, SubsetInduction
<1> QED
  BY <1>1, <1>4 DEF Good

\* A finite set in a strict total order can be listed in that order: each member at the
\* place that is the number of those up to it.
LEMMA ListedInOrder ==
    ASSUME NEW S, IsFiniteSet(S), NEW R,
           \A x \in S : <<x, x>> \notin R,
           \A x, y, z \in S : <<x, y>> \in R /\ <<y, z>> \in R => <<x, z>> \in R,
           \A x, y \in S : x # y => <<x, y>> \in R \/ <<y, x>> \in R
    PROVE  \E s \in [1..Cardinality(S) -> S] :
              /\ \A x \in S : \E i \in 1..Cardinality(S) : s[i] = x
              /\ \A i, j \in 1..Cardinality(S) : i < j => <<s[i], s[j]>> \in R
<1> DEFINE UpTo(x) == {y \in S : <<y, x>> \in R \/ y = x}
<1>1. PICK n \in Nat : n = Cardinality(S) /\ IsFiniteSet(1..n) /\ Cardinality(1..n) = n
  BY FS_CardinalityType, FS_Interval
<1>2. PICK place : place = [x \in S |-> Cardinality(UpTo(x))]
  OBVIOUS
<1>3. ASSUME NEW x \in S
      PROVE  IsFiniteSet(UpTo(x)) /\ place[x] = Cardinality(UpTo(x)) /\ place[x] \in 1..n
  <2>1. UpTo(x) \in SUBSET S /\ x \in UpTo(x)
    OBVIOUS
  <2>2. IsFiniteSet(UpTo(x)) /\ Cardinality(UpTo(x)) <= n
    BY <1>1, <2>1, FS_Subset
  <2>3. Cardinality(UpTo(x)) \in Nat /\ Cardinality(UpTo(x)) # 0
    BY <2>1, <2>2, FS_CardinalityType, FS_EmptySet
  <2> QED
    BY <1>1, <1>2, <2>2, <2>3
<1>4. ASSUME NEW x \in S, NEW y \in S, <<x, y>> \in R PROVE place[x] < place[y]
  <2>1. UpTo(x) \in SUBSET UpTo(y) /\ UpTo(x) # UpTo(y)
    BY <1>4
  <2>2. Cardinality(UpTo(x)) <= Cardinality(UpTo(y)) /\ Cardinality(UpTo(x)) # Cardinality(UpTo(y))
    BY <1>3, <2>1, FS_Subset
  <2>3. /\ place[x] = Cardinality(UpTo(x)) /\ place[y] = Cardinality(UpTo(y))
        /\ place[x] \in Nat /\ place[y] \in Nat
    BY <1>3
  <2> HIDE DEF UpTo
  <2> QED
    BY <2>2, <2>3
<1> HIDE DEF UpTo
<1>5. place \in [S -> 1..n]
  BY <1>2, <1>3
<1>6. ASSUME NEW x \in S, NEW y \in S, place[x] = place[y] PROVE x = y
  <2>1. place[x] \in Nat /\ place[y] \in Nat
    BY <1>5
  <2>2. ~(place[x] < place[y]) /\ ~(place[y] < place[x])
    BY <1>6, <2>1
  <2> QED
    BY <1>4, <2>2
<1>7. place \in Injection(S, 1..n)
  BY <1>5, <1>6 DEF Injection, IsInjective
<1>8. place \in Surjection(S, 1..n)
  BY <1>1, <1>7, FS_Injection
<1>9. \A i \in 1..n : \E x \in S : place[x] = i
  BY <1>8 DEF Surjection
<1>10. PICK s : s = [i \in 1..n |-> CHOOSE x \in S : place[x] = i]
  OBVIOUS
<1>11. \A i \in 1..n : s[i] \in S /\ place[s[i]] = i
  BY <1>9, <1>10
<1>12. s \in [1..n -> S]
  BY <1>10, <1>11
<1>13. ASSUME NEW x \in S PROVE \E i \in 1..n : s[i] = x
  <2>1. place[x] \in 1..n
    BY <1>5
  <2> QED
    BY <1>6, <1>11, <2>1
<1>14. ASSUME NEW i \in 1..n, NEW j \in 1..n, i < j PROVE <<s[i], s[j]>> \in R
  <2>1. s[i] \in S /\ s[j] \in S /\ place[s[i]] = i /\ place[s[j]] = j
    BY <1>11
  <2>2. s[i] # s[j]
    BY <1>14, <2>1
  <2>3. <<s[j], s[i]>> \notin R
    <3> SUFFICES ASSUME <<s[j], s[i]>> \in R PROVE FALSE
      OBVIOUS
    <3>1. place[s[j]] < place[s[i]]
      BY <1>4, <2>1
    <3> QED
      BY <1>14, <2>1, <3>1
  <2> QED
    BY <2>1, <2>2, <2>3
<1> QED
  BY <1>1, <1>12, <1>13, <1>14

-----------------------------------------------------------------------------
(* Readings.                                                                 *)

\* The clock runs for as long as the program does.
LEMMA LimitType == Limit \in Nat
  BY CostsAssumption DEF Limit

\* A reading carries the tick it was taken at.
LEMMA ReadTime ==
    ASSUME NEW t \in 0..Limit
    PROVE  ReadAt[t] \in Readings /\ ReadAt[t].Time = t
  BY DEF ReadAt, Readings

\* A reading was taken within the program.
LEMMA ReadingType == \A reading \in Readings : reading.Time \in 0..Limit
  BY ReadTime DEF Readings

\* A change ends at its second reading and lasts since its first.
LEMMA DiffTime ==
    ASSUME NEW before \in Readings, NEW after \in Readings
    PROVE  /\ Diff(before, after) \in Changes
           /\ Diff(before, after).EndTime = after.Time
           /\ Diff(before, after).Duration = after.Time - before.Time
<1>1. Diff(before, after) \in Changes
  BY DEF Changes
<1>2. Diff(before, after).EndTime = after.Time
  BY DEF Diff
<1>3. Diff(before, after).Duration = after.Time - before.Time
  BY DEF Diff
<1> QED
  BY <1>1, <1>2, <1>3

\* A change has a time it ended at and a duration.
LEMMA ChangeType == \A change \in Changes : change.EndTime \in Int /\ change.Duration \in Int
<1> SUFFICES ASSUME NEW change \in Changes PROVE change.EndTime \in Int /\ change.Duration \in Int
  OBVIOUS
<1>1. PICK before \in Readings, after \in Readings : change = Diff(before, after)
  BY DEF Changes
<1> QED
  BY <1>1, DiffTime, ReadingType, LimitType

\* What a mode consists of.
LEMMA ModeType == ASSUME TypeOK
                  PROVE  mode.measured \in BOOLEAN /\ mode.keepsSizes \in BOOLEAN /\ mode.under \subseteq Names
  BY CostsAssumption DEF TypeOK

-----------------------------------------------------------------------------
(* A run, step by step.                                                      *)

\* By its stage one knows what a runner holds.
LEMMA StageTells ==
    ASSUME TypeOK, NEW r \in Runners
    PROVE  /\ run[r].stage = "idle" => run[r] = Idle
           /\ run[r].stage = "opened" => run[r] \in Opened
           /\ run[r].stage \in {"begun", "running"} => run[r] \in Running
           /\ run[r].stage \in {"ended", "recording"} => run[r] \in Ended
           /\ run[r].stage = "closing" => run[r] \in Closing
<1>1. \A x \in Opened : x.stage = "opened"
  BY DEF Opened
<1>2. \A x \in Running : x.stage \in {"begun", "running"}
  BY DEF Running
<1>3. \A x \in Ended : x.stage \in {"ended", "recording"}
  BY DEF Ended
<1>4. \A x \in Closing : x.stage = "closing"
  BY DEF Closing
<1>5. Idle.stage = "idle"
  BY DEF Idle
<1>6. run[r] \in {Idle} \cup Opened \cup Running \cup Ended \cup Closing
  BY DEF TypeOK
<1> QED
  BY <1>1, <1>2, <1>3, <1>4, <1>5, <1>6

\* In the beginning nobody runs and there is no span.
LEMMA InitHolds == Init => IInv
<1> SUFFICES ASSUME Init PROVE IInv
  OBVIOUS
<1> USE LimitType DEF Init
<1>1. TypeOK
  BY DEF TypeOK
<1>2. SpanInv
  BY DEF SpanInv, Idle
<1> QED
  BY <1>1, <1>2 DEF IInv

\* Time passes and nothing that was read is later than it.
LEMMA WorkKeeps == IInv /\ Work => IInv'
<1> SUFFICES ASSUME IInv, Work PROVE IInv'
  OBVIOUS
<1> USE LimitType DEF IInv, Work
<1>1. now \in Nat /\ now' = now + 1 /\ now' \in 0..Limit
  BY DEF TypeOK
<1>2. TypeOK'
  BY <1>1 DEF TypeOK
<1>3. UNCHANGED <<mode, run, spans>>
  OBVIOUS
<1>4. ASSUME NEW r \in Runners, InSpan(r) PROVE InSpan(r)'
  <2>1. run[r].stage \in {"begun", "running"} => run[r].before.Time \in Int
    BY StageTells, ReadingType DEF Running
  <2>2. run[r].stage \in {"ended", "recording"} => run[r].change.EndTime \in Int
    BY StageTells, ChangeType DEF Ended
  <2> QED
    BY <1>1, <1>3, <1>4, <2>1, <2>2 DEF InSpan
<1>5. ASSUME NEW i \in DOMAIN spans PROVE Closes(spans[i])'
  <2>1. Closes(spans[i])
    BY DEF SpanInv
  <2>2. spans[i] \in Span
    BY DEF TypeOK
  <2>3. spans[i].start \in Int /\ spans[i].run.EndTime \in Int
    BY <2>2 DEF Span
  <2> QED
    BY <1>1, <1>3, <2>1, <2>3 DEF Closes
<1>6. SpanInv'
  BY <1>3, <1>4, <1>5 DEF SpanInv
<1> QED
  BY <1>2, <1>6

\* A runner alone moves: the spans, the clock and the other runs stay as they are.
LEMMA MoveKeeps ==
    ASSUME IInv, NEW r \in Runners, NEW value \in Running \cup Ended, Goto(r, value),
           run[r].stage # "idle" => value.span = run[r].span,
           mode.measured => run[r].stage # "idle" /\ InSpan(r)'
    PROVE  IInv'
<1> USE DEF IInv, Goto, Accounts
<1>1. run' = [run EXCEPT ![r] = value] /\ UNCHANGED <<mode, now, spans>>
  OBVIOUS
<1>2. TypeOK'
  BY <1>1 DEF TypeOK
<1>3. run'[r] = value /\ \A q \in Runners \ {r} : run'[q] = run[q]
  BY <1>1 DEF TypeOK
<1>4. value.stage \notin {"idle", "closing"}
  BY DEF Running, Ended
<1>5. ASSUME NEW q \in Runners \ {r}, InSpan(q) PROVE InSpan(q)'
  BY <1>1, <1>3, <1>5 DEF InSpan
<1>6. \A i \in DOMAIN spans' : Closes(spans[i])'
  BY <1>1 DEF SpanInv, Closes
<1>7. SpanInv'
  BY <1>1, <1>3, <1>4, <1>5, <1>6 DEF SpanInv
<1> QED
  BY <1>2, <1>7

\* The first reading is taken in the runner's span, which is open.
LEMMA ReadBeforeKeeps ==
    ASSUME IInv, NEW r \in Runners, ReadBefore(r) PROVE IInv'
<1> USE LimitType DEF IInv
<1>1. PICK name \in mode.under :
        /\ Interpreted(r, name)
        /\ Goto(r, [stage |-> IF mode.keepsSizes THEN "begun" ELSE "running", name |-> name,
                    before |-> Read, sizesBefore |-> NotRead,
                    span |-> IF mode.measured THEN run[r].span ELSE 0])
  BY DEF ReadBefore
<1> DEFINE value == [stage |-> IF mode.keepsSizes THEN "begun" ELSE "running", name |-> name,
                     before |-> Read, sizesBefore |-> NotRead,
                     span |-> IF mode.measured THEN run[r].span ELSE 0]
<1>2. Read \in Readings /\ Read.Time = now
  BY ReadTime DEF TypeOK, Read
<1>3. mode.measured => run[r].stage = "opened" /\ run[r].span \in Nat
  BY <1>1, StageTells DEF Interpreted, Opened
<1>4. ~mode.measured => run[r].stage = "idle"
  BY <1>1 DEF Interpreted
<1>5. value \in Running
  BY <1>2, <1>3, ModeType DEF Running, SizeReadings
<1>6. /\ value.span = IF mode.measured THEN run[r].span ELSE 0
      /\ value.stage \in {"begun", "running"} /\ value.before = Read
  OBVIOUS
<1> HIDE DEF value
<1>7. Goto(r, value)
  BY <1>1 DEF value
<1>8. run'[r] = value /\ UNCHANGED <<mode, now, spans>>
  BY <1>7 DEF Goto, Accounts, TypeOK
<1>9. ASSUME mode.measured PROVE InSpan(r)'
  <2>1. InSpan(r)
    BY <1>3, <1>9 DEF SpanInv
  <2>2. spans[run[r].span] \in Span /\ Closes(spans[run[r].span])
    BY <2>1 DEF InSpan, TypeOK, SpanInv
  <2>3. spans[run[r].span].start <= now /\ now <= now
    BY <2>2 DEF Closes, TypeOK
  <2> QED
    BY <1>2, <1>6, <1>8, <1>9, <2>1, <2>3 DEF InSpan
<1> QED
  BY <1>3, <1>4, <1>5, <1>6, <1>7, <1>9, MoveKeeps

\* Reading the sizes changes nothing of the run's window.
LEMMA ReadSizesBeforeKeeps ==
    ASSUME IInv, NEW r \in Runners, ReadSizesBefore(r) PROVE IInv'
<1> USE DEF IInv
<1> DEFINE value == [run[r] EXCEPT !.stage = "running", !.sizesBefore = ReadSizes]
<1>1. run[r] \in Running /\ run[r].stage = "begun"
  BY StageTells DEF ReadSizesBefore
<1>2. ReadSizes \in SizeReadings
  BY DEF TypeOK, SizeReadings, ReadSizes
<1>3. value \in Running /\ value.span = run[r].span /\ value.before = run[r].before /\ value.stage = "running"
  BY <1>1, <1>2 DEF Running
<1>4. Goto(r, value)
  BY DEF ReadSizesBefore
<1> HIDE DEF value
<1>5. run'[r] = value /\ UNCHANGED <<mode, now, spans>>
  BY <1>4 DEF Goto, Accounts, TypeOK
<1>6. ASSUME mode.measured PROVE InSpan(r)'
  <2>1. InSpan(r)
    BY <1>1, <1>6 DEF SpanInv
  <2> QED
    BY <1>1, <1>3, <1>5, <2>1 DEF InSpan
<1> QED
  BY <1>1, <1>3, <1>4, <1>6, MoveKeeps

\* The second reading closes the window, at the present.
LEMMA ReadAfterKeeps ==
    ASSUME IInv, NEW r \in Runners, ReadAfter(r) PROVE IInv'
<1> USE LimitType DEF IInv
<1> DEFINE value == [stage |-> IF mode.keepsSizes THEN "ended" ELSE "recording",
                     name |-> run[r].name, sizesBefore |-> run[r].sizesBefore,
                     change |-> Diff(run[r].before, Read),
                     spread |-> NoSpread, span |-> run[r].span]
<1>1. run[r] \in Running /\ run[r].stage = "running"
  BY StageTells DEF ReadAfter
<1>2. /\ run[r].name \in Names /\ run[r].before \in Readings
      /\ run[r].sizesBefore \in SizeReadings /\ run[r].span \in Nat
  BY <1>1 DEF Running
<1>3. Read \in Readings /\ Read.Time = now
  BY ReadTime DEF TypeOK, Read
<1>4. /\ Diff(run[r].before, Read) \in Changes
      /\ Diff(run[r].before, Read).EndTime = now
      /\ Diff(run[r].before, Read).Duration = now - run[r].before.Time
  BY <1>2, <1>3, DiffTime
<1>5. NoSpread \in Spreads
  BY DEF Spreads
<1>6. value \in Ended
  BY <1>2, <1>4, <1>5, ModeType DEF Ended
<1>7. /\ value.span = run[r].span /\ value.change = Diff(run[r].before, Read)
      /\ value.stage \in {"ended", "recording"}
  OBVIOUS
<1>8. Goto(r, value)
  BY DEF ReadAfter
<1> HIDE DEF value
<1>9. run'[r] = value /\ UNCHANGED <<mode, now, spans>>
  BY <1>8 DEF Goto, Accounts, TypeOK
<1>10. ASSUME mode.measured PROVE InSpan(r)'
  <2>1. InSpan(r)
    BY <1>1, <1>10 DEF SpanInv
  <2>2. now - (now - run[r].before.Time) = run[r].before.Time /\ now <= now
    BY <1>2, ReadingType DEF TypeOK
  <2> QED
    BY <1>1, <1>4, <1>7, <1>9, <2>1, <2>2 DEF InSpan
<1> QED
  BY <1>1, <1>6, <1>7, <1>8, <1>10, MoveKeeps

\* Reading the sizes again changes nothing of it either.
LEMMA ReadSizesAfterKeeps ==
    ASSUME IInv, NEW r \in Runners, ReadSizesAfter(r) PROVE IInv'
<1> USE DEF IInv
<1> DEFINE value == [run[r] EXCEPT !.stage = "recording",
                                   !.spread = DiffSizes(run[r].sizesBefore, ReadSizes)]
<1>1. run[r] \in Ended /\ run[r].stage = "ended"
  BY StageTells DEF ReadSizesAfter
<1>2. run[r].sizesBefore \in SizeReadings /\ ReadSizes \in SizeReadings
  BY <1>1 DEF Ended, TypeOK, SizeReadings, ReadSizes
<1>3. DiffSizes(run[r].sizesBefore, ReadSizes) \in Spreads
  BY <1>2 DEF Spreads
<1>4. value \in Ended /\ value.span = run[r].span /\ value.change = run[r].change /\ value.stage = "recording"
  BY <1>1, <1>3 DEF Ended
<1>5. Goto(r, value)
  BY DEF ReadSizesAfter
<1> HIDE DEF value
<1>6. run'[r] = value /\ UNCHANGED <<mode, now, spans>>
  BY <1>5 DEF Goto, Accounts, TypeOK
<1>7. ASSUME mode.measured PROVE InSpan(r)'
  <2>1. InSpan(r)
    BY <1>1, <1>7 DEF SpanInv
  <2> QED
    BY <1>1, <1>4, <1>6, <2>1 DEF InSpan
<1> QED
  BY <1>1, <1>4, <1>5, <1>7, MoveKeeps

-----------------------------------------------------------------------------
(* The span around it.                                                       *)

\* A span that starts is its runner's own.
LEMMA SpanStartedKeeps ==
    ASSUME IInv, NEW r \in Runners, SpanStarted(r) PROVE IInv'
<1> USE LimitType DEF IInv, Accounts
<1>1. PICK name \in mode.under :
         /\ run' = [run EXCEPT ![r] = [stage |-> "opened", name |-> name, span |-> Len(spans) + 1]]
         /\ spans' = Append(spans, [name |-> name, start |-> now, end |-> -1,
                                   run |-> [Duration |-> 0, EndTime |-> -1]])
  BY DEF SpanStarted
<1> DEFINE value == [stage |-> "opened", name |-> name, span |-> Len(spans) + 1]
           new == [name |-> name, start |-> now, end |-> -1, run |-> [Duration |-> 0, EndTime |-> -1]]
<1>2. /\ mode.measured /\ run[r].stage = "idle" /\ UNCHANGED <<mode, now>>
      /\ name \in Names /\ now \in Int /\ spans \in Seq(Span)
  BY <1>1, ModeType DEF SpanStarted, TypeOK
<1>3. new \in Span /\ new.start = now /\ new.end = -1 /\ new.run.EndTime = -1
  BY <1>2 DEF Span
<1>4. Len(spans) \in Nat /\ DOMAIN spans = 1..Len(spans)
  BY <1>2
<1>5. value \in Opened /\ value.stage = "opened" /\ value.span = Len(spans) + 1
  BY <1>2, <1>4 DEF Opened
<1> HIDE DEF value, new
<1>6. /\ spans' \in Seq(Span) /\ DOMAIN spans' = DOMAIN spans \cup {Len(spans) + 1}
      /\ spans'[Len(spans) + 1] = new /\ \A i \in DOMAIN spans : spans'[i] = spans[i]
  BY <1>1, <1>2, <1>3 DEF new
<1>7. run'[r] = value /\ \A q \in Runners \ {r} : run'[q] = run[q]
  BY <1>1 DEF value, TypeOK
<1>8. TypeOK'
  BY <1>1, <1>2, <1>5, <1>6 DEF TypeOK, value
<1>9. InSpan(r)'
  BY <1>3, <1>5, <1>6, <1>7 DEF InSpan
<1>10. ASSUME NEW q \in Runners \ {r}, run[q].stage # "idle"
       PROVE  InSpan(q)' /\ run'[q].span # run'[r].span
  <2>1. InSpan(q)
    BY <1>2, <1>10 DEF SpanInv
  <2>2. run[q].span \in DOMAIN spans /\ spans'[run[q].span] = spans[run[q].span]
    BY <1>6, <2>1 DEF InSpan
  <2>3. InSpan(q)'
    BY <1>2, <1>6, <1>7, <2>1, <2>2 DEF InSpan
  <2> QED
    BY <1>4, <1>5, <1>7, <2>2, <2>3
<1>11. ASSUME NEW i \in DOMAIN spans' PROVE Closes(spans[i])'
  <2>1. CASE i \in DOMAIN spans
    BY <1>2, <1>6, <2>1 DEF SpanInv, Closes
  <2>2. CASE i = Len(spans) + 1
    BY <1>2, <1>3, <1>6, <2>2 DEF Closes
  <2> QED
    BY <1>6, <2>1, <2>2
<1>12. SpanInv'
  BY <1>2, <1>5, <1>7, <1>9, <1>10, <1>11 DEF SpanInv
<1> QED
  BY <1>8, <1>12

\* Changing one member of a sequence changes no other.
LEMMA Replaced ==
    ASSUME NEW S, NEW s \in Seq(S), NEW k \in DOMAIN s, NEW e \in S
    PROVE  /\ [s EXCEPT ![k] = e] \in Seq(S)
           /\ DOMAIN [s EXCEPT ![k] = e] = DOMAIN s
           /\ [s EXCEPT ![k] = e][k] = e
           /\ \A i \in DOMAIN s \ {k} : [s EXCEPT ![k] = e][i] = s[i]
  OBVIOUS

\* A step of one runner that changes its span alone and leaves it a sound one.
LEMMA SpanKeeps ==
    ASSUME IInv, NEW r \in Runners, NEW value \in {Idle} \cup Closing, NEW span \in Span,
           mode.measured, run[r].stage # "idle",
           run' = [run EXCEPT ![r] = value],
           spans' = [spans EXCEPT ![run[r].span] = span],
           UNCHANGED <<mode, now>>,
           Closes(span),
           value # Idle => value.span = run[r].span /\ span.end = -1
    PROVE  IInv'
<1> USE DEF IInv
<1>0. PICK k : k = run[r].span
  OBVIOUS
<1>1. InSpan(r) /\ k \in DOMAIN spans
  BY <1>0 DEF SpanInv, InSpan
<1>2. spans \in Seq(Span) /\ spans' = [spans EXCEPT ![k] = span]
  BY <1>0 DEF TypeOK
<1>3. /\ spans' \in Seq(Span) /\ DOMAIN spans' = DOMAIN spans
      /\ spans'[k] = span /\ \A i \in DOMAIN spans \ {k} : spans'[i] = spans[i]
  <2>1. spans \in Seq(Span) /\ k \in DOMAIN spans /\ span \in Span
    BY <1>1, <1>2
  <2>2. /\ [spans EXCEPT ![k] = span] \in Seq(Span)
        /\ DOMAIN [spans EXCEPT ![k] = span] = DOMAIN spans
        /\ [spans EXCEPT ![k] = span][k] = span
        /\ \A i \in DOMAIN spans \ {k} : [spans EXCEPT ![k] = span][i] = spans[i]
    BY <2>1, Replaced
  <2> QED
    BY <1>2, <2>2
<1>4. run'[r] = value /\ \A q \in Runners \ {r} : run'[q] = run[q]
  BY DEF TypeOK
<1>5. TypeOK'
  BY <1>3 DEF TypeOK
<1>6. value.stage \in {"idle", "closing"} /\ (value = Idle <=> value.stage = "idle")
  BY DEF Idle, Closing
<1>7. ASSUME NEW q \in Runners \ {r}, run[q].stage # "idle"
      PROVE  InSpan(q)' /\ run'[q].span # k
  <2>1. InSpan(q) /\ run[q].span # k
    BY <1>0, <1>7 DEF SpanInv
  <2>2. run[q].span \in DOMAIN spans /\ spans'[run[q].span] = spans[run[q].span]
    BY <1>3, <2>1 DEF InSpan
  <2> QED
    BY <1>3, <1>4, <2>1, <2>2 DEF InSpan
<1>8. ASSUME value.stage # "idle" PROVE InSpan(r)' /\ run'[r].span = k
  BY <1>0, <1>1, <1>3, <1>4, <1>6, <1>8 DEF InSpan
<1>9. ASSUME NEW i \in DOMAIN spans' PROVE Closes(spans[i])'
  <2>1. Closes(span)'
    BY DEF Closes
  <2>2. CASE i = k
    BY <1>3, <2>1, <2>2 DEF Closes
  <2>3. CASE i # k
    BY <1>3, <2>3 DEF SpanInv, Closes
  <2> QED
    BY <2>2, <2>3
<1>10. SpanInv'
  BY <1>4, <1>6, <1>7, <1>8, <1>9 DEF SpanInv
<1> QED
  BY <1>5, <1>10

\* A span ends when its run has been recorded, and no earlier than that was read.
LEMMA SpanEndedKeeps ==
    ASSUME IInv, NEW r \in Runners, SpanEnded(r) PROVE IInv'
<1> USE LimitType DEF IInv, SpanEnded, Accounts
<1>1. mode.measured /\ run[r].stage = "closing"
  BY DEF SpanInv
<1>2. InSpan(r) /\ run[r].span \in DOMAIN spans
  BY <1>1 DEF SpanInv, InSpan
<1>3. PICK old \in Span : old = spans[run[r].span]
  BY <1>2 DEF TypeOK
<1> DEFINE span == [old EXCEPT !.end = now]
<1>4. now \in Int /\ UNCHANGED <<mode, now>>
  BY DEF TypeOK
<1>5. span \in Span /\ span.start = old.start /\ span.run = old.run /\ span.end = now
  BY <1>4 DEF Span
<1>6. Closes(old)
  BY <1>2, <1>3 DEF SpanInv
<1>7. old.run.EndTime \in Int
  BY DEF Span
<1>8. Closes(span)
  BY <1>4, <1>5, <1>6 DEF Closes
<1>9. spans' = [spans EXCEPT ![run[r].span] = span]
  BY <1>3
<1> HIDE DEF span
<1> QED
  BY <1>1, <1>4, <1>5, <1>8, <1>9, SpanKeeps

\* What is recorded under a span was read while it was open.
LEMMA RecordKeeps ==
    ASSUME IInv, NEW r \in Runners, Record(r) PROVE IInv'
<1> USE LimitType DEF IInv
<1>1. run[r] \in Ended /\ run[r].stage = "recording" /\ UNCHANGED <<mode, now>>
  BY StageTells DEF Record
<1>2. run[r].change \in Changes /\ run[r].span \in Nat
  BY <1>1 DEF Ended
<1>3. CASE ~mode.measured
  <2>1. run' = [run EXCEPT ![r] = Idle] /\ UNCHANGED spans
    BY <1>3 DEF Record
  <2>2. TypeOK'
    BY <1>1, <2>1 DEF TypeOK
  <2>3. run'[r] = Idle /\ \A q \in Runners \ {r} : run'[q] = run[q]
    BY <2>1 DEF TypeOK
  <2>4. Idle.stage = "idle"
    BY DEF Idle
  <2>5. \A i \in DOMAIN spans' : Closes(spans[i])'
    BY <1>1, <2>1 DEF SpanInv, Closes
  <2>6. SpanInv'
    BY <1>1, <1>3, <2>3, <2>4, <2>5 DEF SpanInv
  <2> QED
    BY <2>2, <2>6
<1>4. CASE mode.measured
  <2>1. /\ run' = [run EXCEPT ![r] = [stage |-> "closing", span |-> run[r].span]]
        /\ spans' = [spans EXCEPT ![run[r].span].run =
                       [Duration |-> run[r].change.Duration, EndTime |-> run[r].change.EndTime]]
    BY <1>4 DEF Record
  <2>2. InSpan(r) /\ run[r].span \in DOMAIN spans
    BY <1>1, <1>4 DEF SpanInv, InSpan
  <2>3. PICK old \in Span : old = spans[run[r].span]
    BY <2>2 DEF TypeOK
  <2> DEFINE window == [Duration |-> run[r].change.Duration, EndTime |-> run[r].change.EndTime]
             span == [old EXCEPT !.run = window]
             value == [stage |-> "closing", span |-> run[r].span]
  <2>4. window \in [Duration : Int, EndTime : Int]
    BY <1>2, ChangeType
  <2>5. span \in Span /\ span.start = old.start /\ span.run = window /\ span.end = old.end
    BY <2>4 DEF Span
  <2>6. Closes(old) /\ old.end = -1
    BY <2>2, <2>3 DEF SpanInv, InSpan
  <2>7. /\ old.start <= run[r].change.EndTime - run[r].change.Duration
        /\ run[r].change.EndTime <= now
    BY <1>1, <2>2, <2>3 DEF InSpan
  <2>8. Closes(span)
    BY <2>5, <2>6, <2>7 DEF Closes
  <2>9. value \in Closing /\ value.span = run[r].span
    BY <1>2 DEF Closing
  <2>10. spans' = [spans EXCEPT ![run[r].span] = span]
    BY <2>1, <2>3
  <2>11. run' = [run EXCEPT ![r] = value]
    BY <2>1
  <2> HIDE DEF span, value, window
  <2> QED
    BY <1>1, <1>4, <2>5, <2>6, <2>8, <2>9, <2>10, <2>11, SpanKeeps
<1> QED
  BY <1>3, <1>4

\* Every step keeps the windows in their spans.
LEMMA StepKeeps == IInv /\ [Next]_vars => IInv'
<1> SUFFICES ASSUME IInv, [Next]_vars PROVE IInv'
  OBVIOUS
<1>1. CASE UNCHANGED vars
  <2>1. \A r \in Runners : InSpan(r)' <=> InSpan(r)
    BY <1>1 DEF vars, InSpan
  <2>2. \A i \in DOMAIN spans : Closes(spans[i])' <=> Closes(spans[i])
    BY <1>1 DEF vars, Closes
  <2> QED
    BY <1>1, <2>1, <2>2 DEF IInv, TypeOK, SpanInv, vars
<1>2. CASE Work
  BY <1>2, WorkKeeps
<1>3. CASE \E r \in Runners : \/ SpanStarted(r) \/ SpanEnded(r)
                              \/ ReadBefore(r) \/ ReadSizesBefore(r)
                              \/ ReadAfter(r) \/ ReadSizesAfter(r) \/ Record(r)
  BY <1>3, SpanStartedKeeps, SpanEndedKeeps, ReadBeforeKeeps, ReadSizesBeforeKeeps,
     ReadAfterKeeps, ReadSizesAfterKeeps, RecordKeeps
<1> QED
  BY <1>1, <1>2, <1>3 DEF Next

\* The window of every run Measure records begins and ends inside the run's own span,
\* whatever the process does in between and however the runs overlap.
THEOREM ClosesInItsSpan == Spec => []RunClosesInItsSpan
<1>1. IInv => RunClosesInItsSpan
  BY DEF IInv, SpanInv, Closes, RunClosesInItsSpan
<1> QED
  BY <1>1, InitHolds, StepKeeps, PTL DEF Spec

-----------------------------------------------------------------------------
(* The ring behind an account.                                               *)

Entry == [change : Changes, spread : Spreads]
Ring == [slots : [Slots -> {{}} \cup Changes], next : Slots, full : BOOLEAN]

\* The slot of the run recorded step runs ago, and how many are kept.
SlotOf(ring, step) ==
    IF step <= ring.next THEN ring.next - step ELSE ring.next - step + MaxRuns
Kept(ring) == IF ring.full THEN MaxRuns ELSE ring.next

\* A ring holds the last of all the runs recorded.
Holds(ring, all) ==
    /\ ring \in Ring
    /\ all \in Seq(Entry)
    /\ ~ring.full => Len(all) = ring.next
    /\ ring.full => Len(all) >= MaxRuns
    /\ \A step \in 1..Kept(ring) : ring.slots[SlotOf(ring, step)] = all[Len(all) - step + 1].change

RingInv ==
    /\ DOMAIN rings = DOMAIN totals /\ DOMAIN recorded = DOMAIN totals
    /\ \A key \in DOMAIN totals : Holds(rings[key], recorded[key])

\* Counting slots round the ring.
LEMMA Around ==
    ASSUME NEW M \in Nat \ {0}, NEW a \in 0..(M - 1)
    PROVE  a % M = a /\ (a + M) % M = a /\ M % M = 0
  OBVIOUS

\* The code's slot arithmetic finds the slot of every run kept.
LEMMA SlotFound ==
    ASSUME NEW ring \in Ring, NEW step \in 1..Kept(ring)
    PROVE  /\ (ring.next - step + MaxRuns) % MaxRuns = SlotOf(ring, step)
           /\ SlotOf(ring, step) \in Slots
<1>1. MaxRuns \in Nat \ {0} /\ ring.next \in 0..(MaxRuns - 1) /\ step \in 1..MaxRuns
  BY CostsAssumption DEF Ring, Slots, Kept
<1>2. CASE step <= ring.next
  <2>1. ring.next - step \in 0..(MaxRuns - 1)
    BY <1>1, <1>2
  <2> QED
    BY <1>1, <1>2, <2>1, Around DEF SlotOf, Slots
<1>3. CASE step > ring.next
  <2>1. ring.next - step + MaxRuns \in 0..(MaxRuns - 1)
    BY <1>1, <1>3
  <2> QED
    BY <1>1, <1>3, <2>1, Around DEF SlotOf, Slots
<1> QED
  BY <1>1, <1>2, <1>3

\* A new account's ring holds none.
LEMMA NoneHeld == Holds(NoRuns, <<>>)
<1>1. NoRuns \in Ring /\ NoRuns.next = 0 /\ NoRuns.full = FALSE
  BY CostsAssumption DEF NoRuns, Ring, Slots
<1> QED
  BY <1>1 DEF Holds, Kept

\* Adding a run keeps the last ones, before the ring has turned and after.
LEMMA AddKeeps ==
    ASSUME NEW ring, NEW all, Holds(ring, all), NEW entry \in Entry
    PROVE  Holds(add(ring, entry.change), Append(all, entry))
<1> DEFINE new == add(ring, entry.change)
           last == Append(all, entry)
<1>1. /\ ring \in Ring /\ all \in Seq(Entry) /\ entry.change \in Changes
      /\ MaxRuns \in Nat \ {0} /\ Slots = 0..(MaxRuns - 1)
  BY CostsAssumption DEF Holds, Entry, Slots
<1>2. /\ ring.slots \in [Slots -> {{}} \cup Changes] /\ ring.next \in Slots /\ ring.full \in BOOLEAN
  BY <1>1 DEF Ring
<1>3. (ring.next + 1) % MaxRuns = IF ring.next + 1 = MaxRuns THEN 0 ELSE ring.next + 1
  <2>1. CASE ring.next + 1 = MaxRuns
    BY <1>1, <2>1, Around
  <2>2. CASE ring.next + 1 # MaxRuns
    <3>1. ring.next + 1 \in 0..(MaxRuns - 1)
      BY <1>1, <1>2, <2>2
    <3> QED
      BY <1>1, <2>2, <3>1, Around
  <2> QED
    BY <2>1, <2>2
<1>4. /\ new.slots = [ring.slots EXCEPT ![ring.next] = entry.change]
      /\ new.next = IF ring.next + 1 = MaxRuns THEN 0 ELSE ring.next + 1
      /\ new.full = (ring.full \/ ring.next + 1 = MaxRuns)
      /\ new \in Ring
  BY <1>1, <1>2, <1>3 DEF add, Ring
<1>5. /\ last \in Seq(Entry) /\ Len(last) = Len(all) + 1 /\ Len(all) \in Nat
      /\ last[Len(all) + 1] = entry /\ \A i \in 1..Len(all) : last[i] = all[i]
  BY <1>1
<1> HIDE DEF new, last
<1>6. ~new.full => Len(last) = new.next
  BY <1>1, <1>2, <1>4, <1>5 DEF Holds
<1>7. new.full => Len(last) >= MaxRuns
  BY <1>1, <1>2, <1>4, <1>5 DEF Holds
<1>8. ASSUME NEW step \in 1..Kept(new)
      PROVE  new.slots[SlotOf(new, step)] = last[Len(last) - step + 1].change
  <2>1. step \in 1..MaxRuns /\ SlotOf(new, step) \in Slots
    BY <1>1, <1>4, SlotFound DEF Kept, Ring
  <2>2. CASE step = 1
    <3>1. SlotOf(new, 1) = ring.next
      BY <1>1, <1>2, <1>4 DEF SlotOf
    <3>2. Len(last) - 1 + 1 = Len(all) + 1
      BY <1>5
    <3> QED
      BY <1>2, <1>4, <1>5, <2>2, <3>1, <3>2
  <2>3. CASE step # 1
    <3>1. step - 1 \in 1..Kept(ring) /\ step - 1 \in 1..(MaxRuns - 1)
      BY <1>1, <1>2, <1>4, <2>1, <2>3 DEF Kept
    <3>2. SlotOf(new, step) = SlotOf(ring, step - 1) /\ SlotOf(ring, step - 1) # ring.next
      <4>1. /\ ring.next \in 0..(MaxRuns - 1) /\ step \in 2..MaxRuns /\ MaxRuns \in Nat
            /\ new.next = IF ring.next + 1 = MaxRuns THEN 0 ELSE ring.next + 1
        BY <1>1, <1>2, <1>4, <2>1, <2>3
      <4>2. CASE ring.next + 1 = MaxRuns
        BY <4>1, <4>2 DEF SlotOf
      <4>3. CASE ring.next + 1 # MaxRuns
        BY <4>1, <4>3 DEF SlotOf
      <4> QED
        BY <4>2, <4>3
    <3>3. new.slots[SlotOf(new, step)] = ring.slots[SlotOf(ring, step - 1)]
      BY <1>2, <1>4, <2>1, <3>2
    <3>4. ring.slots[SlotOf(ring, step - 1)] = all[Len(all) - (step - 1) + 1].change
      BY <3>1 DEF Holds
    <3>5. /\ Len(all) - (step - 1) + 1 = Len(last) - step + 1
          /\ Len(all) - (step - 1) + 1 \in 1..Len(all)
      <4>1. step - 1 <= Len(all)
        BY <1>1, <1>2, <1>5, <3>1 DEF Kept, Holds
      <4> QED
        BY <1>5, <2>1, <3>1, <4>1
    <3> QED
      BY <1>5, <3>3, <3>4, <3>5
  <2> QED
    BY <2>2, <2>3
<1>9. Holds(new, last)
  BY <1>4, <1>5, <1>6, <1>7, <1>8 DEF Holds
<1> QED
  BY <1>9 DEF new, last

\* One account's ring and its history move together and no other account's does.
LEMMA RecordRings ==
    ASSUME IInv, RingInv, NEW r \in Runners, Record(r) PROVE RingInv'
<1>1. PICK key : key = keyFor(run[r].name)
  OBVIOUS
<1> DEFINE entry == [change |-> run[r].change, spread |-> run[r].spread]
<1>2. /\ totals' = With(totals, key, summed(At(totals, key, NoCost), run[r].change))
      /\ rings' = With(rings, key, add(At(rings, key, NoRuns), entry.change))
      /\ recorded' = With(recorded, key, Append(At(recorded, key, <<>>), entry))
  BY <1>1 DEF Record
<1>3. entry \in Entry
  <2>1. run[r] \in Ended
    BY StageTells DEF IInv, Record
  <2> QED
    BY <2>1 DEF Ended, Entry
<1> HIDE DEF entry
<1>4. Holds(At(rings, key, NoRuns), At(recorded, key, <<>>))
  BY NoneHeld DEF RingInv, At
<1>5. Holds(add(At(rings, key, NoRuns), entry.change), Append(At(recorded, key, <<>>), entry))
  BY <1>3, <1>4, AddKeeps
<1>6. /\ DOMAIN totals' = DOMAIN totals \cup {key}
      /\ DOMAIN rings' = DOMAIN totals' /\ DOMAIN recorded' = DOMAIN totals'
  BY <1>2 DEF With, RingInv
<1>7. rings'[key] = add(At(rings, key, NoRuns), entry.change)
  BY <1>2 DEF With
<1>8. recorded'[key] = Append(At(recorded, key, <<>>), entry)
  BY <1>2 DEF With
<1>9. \A k \in DOMAIN totals \ {key} : rings'[k] = rings[k] /\ recorded'[k] = recorded[k]
  BY <1>2 DEF With, RingInv
<1>10. \A k \in DOMAIN totals' : Holds(rings'[k], recorded'[k])
  BY <1>5, <1>6, <1>7, <1>8, <1>9 DEF RingInv
<1> QED
  BY <1>6, <1>10 DEF RingInv

\* Every step keeps the rings.
LEMMA RingStep == IInv /\ RingInv /\ [Next]_vars => RingInv'
<1> SUFFICES ASSUME IInv, RingInv, [Next]_vars PROVE RingInv'
  OBVIOUS
<1>1. CASE UNCHANGED <<totals, rings, recorded>>
  BY <1>1 DEF RingInv
<1>2. CASE \E r \in Runners : Record(r)
  BY <1>2, RecordRings
<1> QED
  BY <1>1, <1>2 DEF Next, Work, SpanStarted, SpanEnded, ReadBefore, ReadSizesBefore, ReadAfter,
     ReadSizesAfter, Goto, Accounts, vars

\* The lesser of two numbers.
LEMMA Lesser ==
    ASSUME NEW a \in Int, NEW b \in Int
    PROVE  Min({a, b}) = IF a <= b THEN a ELSE b
  BY DEF Min

\* What a reader is given of a ring: the runs kept, the last recorded first.
LEMMA RecentIs ==
    ASSUME RingInv, NEW key \in DOMAIN totals
    PROVE  /\ Len(recorded[key]) \in Nat
           /\ Len(recent(rings[key])) = IF Len(recorded[key]) <= MaxRuns THEN Len(recorded[key]) ELSE MaxRuns
           /\ recent(rings[key]) \in Seq({entry.change : entry \in Range(recorded[key])})
           /\ \A i \in DOMAIN recent(rings[key]) :
                recent(rings[key])[i] = recorded[key][Len(recorded[key]) - i + 1].change
<1>1. PICK ring : ring = rings[key]
  OBVIOUS
<1>2. PICK all : all = recorded[key]
  OBVIOUS
<1>3. Holds(ring, all)
  BY <1>1, <1>2 DEF RingInv
<1>4. /\ ring \in Ring /\ ring.next \in 0..(MaxRuns - 1) /\ ring.full \in BOOLEAN
      /\ MaxRuns \in Nat \ {0} /\ Len(all) \in Nat
  BY <1>3, CostsAssumption DEF Holds, Ring, Slots
<1>5. recent(ring) = [step \in 1..Kept(ring) |-> ring.slots[(ring.next - step + MaxRuns) % MaxRuns]]
  BY DEF recent, Kept
<1>6. Kept(ring) \in Nat /\ Kept(ring) = IF Len(all) <= MaxRuns THEN Len(all) ELSE MaxRuns
  BY <1>3, <1>4 DEF Holds, Kept
<1>7. Len(recent(ring)) = Kept(ring) /\ DOMAIN recent(ring) = 1..Kept(ring)
  BY <1>5, <1>6
<1>8. ASSUME NEW i \in 1..Kept(ring)
      PROVE  /\ recent(ring)[i] = all[Len(all) - i + 1].change
             /\ recent(ring)[i] \in {entry.change : entry \in Range(all)}
  <2>1. recent(ring)[i] = all[Len(all) - i + 1].change
    BY <1>3, <1>4, <1>5, SlotFound DEF Holds
  <2>2. Len(all) - i + 1 \in 1..Len(all)
    BY <1>4, <1>6
  <2>3. DOMAIN all = 1..Len(all)
    BY <1>3 DEF Holds
  <2>4. all[Len(all) - i + 1] \in Range(all)
    BY <2>2, <2>3 DEF Range
  <2> QED
    BY <2>1, <2>4
<1>9. recent(ring) \in Seq({entry.change : entry \in Range(all)})
  <2>1. PICK S : S = {entry.change : entry \in Range(all)}
    OBVIOUS
  <2>2. recent(ring) \in [1..Kept(ring) -> S]
    BY <1>5, <1>8, <2>1
  <2>3. recent(ring) \in Seq(S)
    BY <1>6, <2>2
  <2> QED
    BY <2>1, <2>3
<1> QED
  BY <1>1, <1>2, <1>4, <1>6, <1>7, <1>8, <1>9

\* Behind each account are its last MaxRuns runs, the last recorded first, at every
\* turn of its ring and whoever recorded them.
THEOREM KeepsTheLastRuns == Spec => []RunsAreTheLastRecorded
<1>1. Init => RingInv
  BY DEF Init, RingInv
<1>2. RingInv => RunsAreTheLastRecorded
  <2> SUFFICES ASSUME RingInv, NEW key \in DOMAIN totals
               PROVE  LET all == recorded[key]
                          Runs == recent(rings[key])
                      IN  /\ Len(Runs) = Min({Len(all), MaxRuns})
                          /\ \A i \in DOMAIN Runs : Runs[i] = all[Len(all) - i + 1].change
    BY DEF RunsAreTheLastRecorded
  <2>1. Len(recorded[key]) \in Nat /\ MaxRuns \in Nat
    BY RecentIs, CostsAssumption
  <2>2. Len(recent(rings[key])) = IF Len(recorded[key]) <= MaxRuns THEN Len(recorded[key]) ELSE MaxRuns
    BY RecentIs
  <2>3. Min({Len(recorded[key]), MaxRuns})
          = IF Len(recorded[key]) <= MaxRuns THEN Len(recorded[key]) ELSE MaxRuns
    BY <2>1, Lesser
  <2> QED
    BY <2>2, <2>3, RecentIs
<1> QED
  BY <1>1, <1>2, InitHolds, StepKeeps, RingStep, PTL DEF Spec

\* The sum of no value is zero and of one value that value.
LEMMA SumOfOne ==
    ASSUME NEW S, NEW g \in [S -> Nat]
    PROVE  /\ S = {} => SumFunction(g) = 0
           /\ \A x : S = {x} => SumFunction(g) = g[x]
<1>1. ASSUME S = {} PROVE SumFunction(g) = 0
  <2>1. PICK h : Adder(g, S, h) /\ SumFunction(g) = h[S]
    BY <1>1, FS_EmptySet, SumIs
  <2> QED
    BY <1>1, <2>1 DEF Adder
<1>2. ASSUME NEW x, S = {x} PROVE SumFunction(g) = g[x]
  <2>1. IsFiniteSet(S)
    BY <1>2, FS_Singleton
  <2>2. PICK h : Adder(g, S, h) /\ SumFunction(g) = h[S]
    BY <2>1, SumIs
  <2>3. h[S] = g[x] + h[S \ {x}] /\ S \ {x} = {} /\ h[{}] = 0
    BY <1>2, <2>2 DEF Adder
  <2>4. g[x] \in Nat
    BY <1>2
  <2> QED
    BY <2>2, <2>3, <2>4
<1> QED
  BY <1>1, <1>2

-----------------------------------------------------------------------------
(* What was read.                                                            *)

\* Members of a sequence, and sequences over a larger set.
LEMMA MemberType == ASSUME NEW S, NEW s \in Seq(S), NEW i \in 1..Len(s) PROVE s[i] \in S
  OBVIOUS
\* A sequence of some set is one of every larger set.
LEMMA SeqType == ASSUME NEW S, NEW T, S \subseteq T, NEW s \in Seq(S) PROVE s \in Seq(T)
<1>1. s \in [1..Len(s) -> S] /\ Len(s) \in Nat
  OBVIOUS
<1>2. s \in [1..Len(s) -> T]
  BY <1>1
<1> QED
  BY <1>1, <1>2

\* What the program does at each tick of the clock.
LEMMA ProgramType ==
    ASSUME NEW t \in 1..Limit
    PROVE  /\ Program[t].objects \in Seq(Nat)
           /\ Program[t].GCCycles \in Nat /\ Program[t].used \in Nat /\ Program[t].gc \in Nat
<1>1. Program[t] \in [objects : Seq(1..Unbounded), GCCycles : {0, 1}, used : Nat, gc : Nat]
  BY CostsAssumption, MemberType DEF Limit
<1>2. Program[t].objects \in Seq(1..Unbounded) /\ 1..Unbounded \subseteq Nat
  BY <1>1, SizesAssumption
<1>3. Program[t].objects \in Seq(Nat)
  BY <1>2, SeqType
<1> QED
  BY <1>1, <1>3

\* What is added up tick by tick never shrinks.
LEMMA SoFarGrows ==
    ASSUME NEW f \in [1..Limit -> Nat], NEW s \in 0..Limit, NEW t \in s..Limit
    PROVE  /\ SumFunction([u \in 1..s |-> f[u]]) \in Nat
           /\ SumFunction([u \in 1..t |-> f[u]]) \in Nat
           /\ SumFunction([u \in 1..s |-> f[u]]) <= SumFunction([u \in 1..t |-> f[u]])
<1>1. 1..s \subseteq 1..t /\ 1..t \subseteq 1..Limit
  BY LimitType
<1>2. PICK T : T = 1..t
  OBVIOUS
<1>3. PICK S \in SUBSET T : S = 1..s
  BY <1>1, <1>2
<1>4. IsFiniteSet(T) /\ IsFiniteSet(S)
  BY <1>2, <1>3, FS_Interval, FS_Subset, LimitType
<1>5. PICK g \in [T -> Nat] : g = [u \in 1..t |-> f[u]]
  BY <1>1, <1>2
<1>6. PICK e \in [S -> Nat] : e = [u \in 1..s |-> f[u]]
  BY <1>1, <1>3
<1>7. \A x \in S : e[x] <= g[x]
  BY <1>1, <1>2, <1>3, <1>5, <1>6
<1>8. SumFunction(e) <= SumFunction(g)
  BY <1>4, <1>7, SumMonotone
<1>9. SumFunction(e) \in Nat /\ SumFunction(g) \in Nat
  BY <1>4, SumType
<1> QED
  BY <1>5, <1>6, <1>8, <1>9

\* A counter only ever counts up.
LEMMA CountersGrow ==
    ASSUME NEW c \in Counters, NEW s \in 0..Limit, NEW t \in s..Limit
    PROVE  /\ ReadAt[s].Counters[c] \in Nat /\ ReadAt[t].Counters[c] \in Nat
           /\ ReadAt[s].Counters[c] <= ReadAt[t].Counters[c]
           /\ DOMAIN ReadAt[t].Counters = Counters
<1>0. t \in 0..Limit /\ 1..s \subseteq 1..Limit /\ 1..t \subseteq 1..Limit
  BY LimitType
<1>1. \A u \in 1..Limit : SumFunction(Program[u].objects) \in Nat /\ Len(Program[u].objects) \in Nat
  <2> SUFFICES ASSUME NEW u \in 1..Limit
               PROVE  SumFunction(Program[u].objects) \in Nat /\ Len(Program[u].objects) \in Nat
    OBVIOUS
  <2>1. PICK objects \in Seq(Nat) : objects = Program[u].objects
    BY ProgramType
  <2>2. objects \in [1..Len(objects) -> Nat] /\ Len(objects) \in Nat /\ IsFiniteSet(1..Len(objects))
    BY FS_Interval
  <2> QED
    BY <2>1, <2>2, SumType
<1>2. PICK f \in [1..Limit -> Nat] : f = [u \in 1..Limit |-> SumFunction(Program[u].objects)]
  BY <1>1
<1>3. PICK g \in [1..Limit -> Nat] : g = [u \in 1..Limit |-> Len(Program[u].objects)]
  BY <1>1
<1>4. PICK h \in [1..Limit -> Nat] : h = [u \in 1..Limit |-> Program[u].GCCycles]
  BY ProgramType
<1>5. ASSUME NEW u \in 0..Limit, 1..u \subseteq 1..Limit
      PROVE  /\ ReadAt[u].Counters["AllocBytes"] = SumFunction([v \in 1..u |-> f[v]])
             /\ ReadAt[u].Counters["AllocObjects"] = SumFunction([v \in 1..u |-> g[v]])
             /\ ReadAt[u].Counters["GCCycles"] = SumFunction([v \in 1..u |-> h[v]])
             /\ DOMAIN ReadAt[u].Counters = Counters
  <2>1. /\ [v \in 1..u |-> f[v]] = [v \in 1..u |-> SumFunction(Program[v].objects)]
        /\ [v \in 1..u |-> g[v]] = [v \in 1..u |-> Len(Program[v].objects)]
        /\ [v \in 1..u |-> h[v]] = [v \in 1..u |-> Program[v].GCCycles]
    BY <1>2, <1>3, <1>4, <1>5
  <2> QED
    BY <2>1 DEF ReadAt, SoFar, Counters
<1>6. /\ SumFunction([v \in 1..s |-> f[v]]) \in Nat /\ SumFunction([v \in 1..t |-> f[v]]) \in Nat
      /\ SumFunction([v \in 1..s |-> f[v]]) <= SumFunction([v \in 1..t |-> f[v]])
  BY SoFarGrows
<1>7. /\ SumFunction([v \in 1..s |-> g[v]]) \in Nat /\ SumFunction([v \in 1..t |-> g[v]]) \in Nat
      /\ SumFunction([v \in 1..s |-> g[v]]) <= SumFunction([v \in 1..t |-> g[v]])
  BY SoFarGrows
<1>8. /\ SumFunction([v \in 1..s |-> h[v]]) \in Nat /\ SumFunction([v \in 1..t |-> h[v]]) \in Nat
      /\ SumFunction([v \in 1..s |-> h[v]]) <= SumFunction([v \in 1..t |-> h[v]])
  BY SoFarGrows
<1>9. c = "AllocBytes" \/ c = "AllocObjects" \/ c = "GCCycles"
  BY DEF Counters
<1> QED
  BY <1>0, <1>5, <1>6, <1>7, <1>8, <1>9

\* A bucket only ever counts up.
LEMMA BucketsGrow ==
    ASSUME NEW i \in Buckets, NEW s \in 0..Limit, NEW t \in s..Limit
    PROVE  /\ ReadSizesAt[s].Counts[i] \in Nat /\ ReadSizesAt[t].Counts[i] \in Nat
           /\ ReadSizesAt[s].Counts[i] <= ReadSizesAt[t].Counts[i]
<1>0. t \in 0..Limit /\ 1..s \subseteq 1..Limit /\ 1..t \subseteq 1..Limit
  BY LimitType
<1> DEFINE Hits(u) == Cardinality({k \in DOMAIN Program[u].objects : InBucket(Program[u].objects[k], i)})
<1>1. ASSUME NEW u \in 1..Limit PROVE Hits(u) \in Nat
  <2>1. PICK objects \in Seq(Nat) : objects = Program[u].objects
    BY ProgramType
  <2>2. IsFiniteSet(DOMAIN objects)
    <3>1. DOMAIN objects = 1..Len(objects) /\ Len(objects) \in Nat
      OBVIOUS
    <3> QED
      BY <3>1, FS_Interval
  <2>3. PICK hit \in SUBSET DOMAIN objects :
            hit = {k \in DOMAIN Program[u].objects : InBucket(Program[u].objects[k], i)}
    BY <2>1
  <2>4. Cardinality(hit) \in Nat
    BY <2>2, FS_Subset, FS_CardinalityType
  <2> QED
    BY <2>3, <2>4
<1> HIDE DEF Hits
<1>2. PICK f \in [1..Limit -> Nat] : f = [u \in 1..Limit |-> Hits(u)]
  BY <1>1
<1>3. ASSUME NEW u \in 0..Limit, 1..u \subseteq 1..Limit
      PROVE  ReadSizesAt[u].Counts[i] = SumFunction([v \in 1..u |-> f[v]])
  <2>1. [v \in 1..u |-> f[v]] = [v \in 1..u |-> Hits(v)]
    BY <1>2, <1>3
  <2>2. ReadSizesAt[u].Counts[i] = SumFunction([v \in 1..u |-> Hits(v)])
    BY DEF ReadSizesAt, SoFar, Hits
  <2> QED
    BY <2>1, <2>2
<1> QED
  BY <1>0, <1>2, <1>3, SoFarGrows

\* What two readings differ by, of a counter: none of it is lost or invented.
LEMMA DiffSpent ==
    ASSUME NEW c \in Counters, NEW s \in 0..Limit, NEW t \in s..Limit
    PROVE  /\ Diff(ReadAt[s], ReadAt[t]).Spent[c] \in Nat
           /\ Diff(ReadAt[s], ReadAt[t]).Spent[c] = ReadAt[t].Counters[c] - ReadAt[s].Counters[c]
<1>1. PICK a \in Nat, b \in Nat : /\ a = ReadAt[s].Counters[c] /\ b = ReadAt[t].Counters[c]
                                  /\ a <= b /\ DOMAIN ReadAt[t].Counters = Counters
  BY CountersGrow
<1>2. t \in 0..Limit /\ b < Width /\ Width \in Nat \ {0}
  BY <1>1, CountersFit, CostsAssumption, LimitType
<1>3. Diff(ReadAt[s], ReadAt[t]).Spent[c] = delta(a, b)
  BY <1>1 DEF Diff
<1>4. b - a \in 0..(Width - 1)
  BY <1>1, <1>2
<1>5. delta(a, b) = b - a
  BY <1>1, <1>2, <1>4, Around DEF delta
<1> QED
  BY <1>1, <1>3, <1>5

\* A finite set of numbers in order: each of them once, the smaller before the larger.
LEMMA NumbersInOrder ==
    ASSUME NEW S, IsFiniteSet(S), S \subseteq Nat
    PROVE  /\ Cardinality(S) \in Nat
           /\ Ascending(S) \in [1..Cardinality(S) -> S]
           /\ \A i, j \in 1..Cardinality(S) : i < j => Ascending(S)[i] < Ascending(S)[j]
           /\ \A i, j \in 1..Cardinality(S) : Ascending(S)[i] = Ascending(S)[j] => i = j
           /\ \A x \in S : \E i \in 1..Cardinality(S) : Ascending(S)[i] = x
<1>1. PICK n \in Nat : n = Cardinality(S)
  BY FS_CardinalityType
<1> DEFINE R == {p \in S \X S : p[1] < p[2]}
<1>2. \A x, y \in S : <<x, y>> \in R <=> x < y
  OBVIOUS
<1> HIDE DEF R
<1>3. /\ \A x \in S : <<x, x>> \notin R
      /\ \A x, y, z \in S : <<x, y>> \in R /\ <<y, z>> \in R => <<x, z>> \in R
      /\ \A x, y \in S : x # y => <<x, y>> \in R \/ <<y, x>> \in R
  BY <1>2
<1>4. PICK s \in [1..n -> S] : \A i, j \in 1..n : i < j => <<s[i], s[j]>> \in R
  BY <1>1, <1>3, ListedInOrder
<1>5. \A i, j \in 1..n : i < j => s[i] < s[j]
  BY <1>2, <1>4
<1>6. Ascending(S) = CHOOSE q \in [1..n -> S] : \A i, j \in 1..n : i < j => q[i] < q[j]
  BY <1>1 DEF Ascending
<1>7. PICK q \in [1..n -> S] : Ascending(S) = q /\ \A i, j \in 1..n : i < j => q[i] < q[j]
  BY <1>5, <1>6
<1>8. \A i, j \in 1..n : q[i] = q[j] => i = j
  <2> SUFFICES ASSUME NEW i \in 1..n, NEW j \in 1..n, q[i] = q[j], i # j PROVE FALSE
    OBVIOUS
  <2>1. i < j \/ j < i
    OBVIOUS
  <2>2. q[i] < q[j] \/ q[j] < q[i]
    BY <1>7, <2>1
  <2>3. q[i] \in S /\ q[j] \in S
    OBVIOUS
  <2>4. q[i] \in Nat /\ q[j] \in Nat
    BY <2>3
  <2> QED
    BY <2>2, <2>4
<1>9. q \in Injection(1..n, S)
  BY <1>8 DEF Injection, IsInjective
<1>10. IsFiniteSet(1..n) /\ Cardinality(1..n) = n
  BY FS_Interval
<1>11. q \in Surjection(1..n, S)
  BY <1>1, <1>9, <1>10, FS_Injection
<1>12. \A x \in S : \E i \in 1..n : q[i] = x
  BY <1>11 DEF Surjection
<1> QED
  BY <1>1, <1>7, <1>8, <1>12

\* Leaving out the classes that saw nothing changes no count: of classes with edges of
\* their own, what was seen below an edge is what its class counted.
LEMMA SeenCounts ==
    ASSUME NEW n \in Nat, NEW classes \in [1..n -> [AtMost : Nat, Count : Nat]],
           \A i, j \in 1..n : classes[i].AtMost = classes[j].AtMost => i = j,
           NEW i \in 1..n, NEW spread, spread.Classes = Seen(classes)
    PROVE  CountAt(spread, classes[i].AtMost) = classes[i].Count
<1> DEFINE S == {m \in DOMAIN classes : classes[m].Count # 0}
<1>1. IsFiniteSet(S) /\ S \subseteq Nat
  <2>1. DOMAIN classes = 1..n /\ IsFiniteSet(1..n)
    BY FS_Interval
  <2> QED
    BY <2>1, FS_Subset
<1>2. S \subseteq 1..n /\ (i \in S <=> classes[i].Count # 0) /\ \A m \in 1..n : classes[m].Count \in Nat
  OBVIOUS
<1>3. Seen(classes) = [m \in DOMAIN Ascending(S) |-> classes[Ascending(S)[m]]]
  BY DEF Seen
<1> HIDE DEF S
<1>13. PICK k \in Nat : k = Cardinality(S)
  BY <1>1, FS_CardinalityType
<1>4. PICK those \in [1..k -> S] : /\ those = Ascending(S)
                                   /\ \A a, b \in 1..k : those[a] = those[b] => a = b
                                   /\ \A x \in S : \E a \in 1..k : those[a] = x
  <2>1. /\ Ascending(S) \in [1..Cardinality(S) -> S]
        /\ \A a, b \in 1..Cardinality(S) : Ascending(S)[a] = Ascending(S)[b] => a = b
        /\ \A x \in S : \E a \in 1..Cardinality(S) : Ascending(S)[a] = x
    BY <1>1, NumbersInOrder
  <2> QED
    BY <1>13, <2>1
<1>5. PICK seen : seen = Seen(classes) /\ seen = [m \in 1..k |-> classes[those[m]]]
  BY <1>3, <1>4
<1> DEFINE D == {m \in DOMAIN seen : seen[m].AtMost = classes[i].AtMost}
<1>6. ASSUME NEW m \in 1..k PROVE those[m] \in 1..n /\ (m \in D <=> those[m] = i)
  <2>1. those[m] \in 1..n
    BY <1>2, <1>4
  <2>2. m \in D <=> classes[those[m]].AtMost = classes[i].AtMost
    BY <1>5
  <2> QED
    BY <2>1, <2>2
<1>7. D \subseteq 1..k
  BY <1>5
<1>8. PICK g : g = [m \in D |-> seen[m].Count]
  OBVIOUS
<1>9. CountAt(spread, classes[i].AtMost) = SumFunction(g)
  BY <1>5, <1>8 DEF CountAt, CountWhere
<1> HIDE DEF D
<1>10. g \in [D -> Nat]
  BY <1>2, <1>5, <1>6, <1>7, <1>8
<1>11. CASE i \in S
  <2>1. PICK a \in 1..k : those[a] = i
    BY <1>4, <1>11
  <2>2. D = {a}
    <3>1. a \in D
      BY <1>6, <2>1
    <3>2. ASSUME NEW m \in D PROVE m = a
      BY <1>4, <1>6, <1>7, <2>1
    <3> QED
      BY <3>1, <3>2
  <2>3. SumFunction(g) = g[a]
    BY <1>10, <2>2, SumOfOne
  <2>4. g[a] = classes[i].Count
    BY <1>5, <1>8, <2>1, <2>2
  <2> QED
    BY <1>9, <2>3, <2>4
<1>12. CASE i \notin S
  <2>1. D = {}
    <3>1. ASSUME NEW m \in D PROVE FALSE
      BY <1>4, <1>6, <1>7, <1>12
    <3> QED
      BY <3>1
  <2>2. SumFunction(g) = 0
    BY <1>10, <2>1, SumOfOne
  <2> QED
    BY <1>2, <1>9, <1>12, <2>2
<1> QED
  BY <1>11, <1>12

\* The edges of the buckets ascend.
LEMMA BoundariesType == /\ Boundaries \in Seq(Nat) /\ Len(Boundaries) \in Nat \ {0}
                        /\ \A i, j \in DOMAIN Boundaries : i < j => Boundaries[i] < Boundaries[j]
<1>1. /\ Boundaries \in Seq(Nat) /\ Boundaries # <<>>
      /\ \A i, j \in DOMAIN Boundaries : i < j => Boundaries[i] < Boundaries[j]
  BY CostsAssumption
<1>2. Len(Boundaries) \in Nat \ {0}
  BY <1>1
<1> QED
  BY <1>1, <1>2

\* What two readings differ by: a class of its own for every bucket, the empty ones left out.
LEMMA DiffClasses ==
    ASSUME NEW s \in 0..Limit, NEW t \in s..Limit
    PROVE  \E n \in Nat : \E classes \in [1..n -> [AtMost : Nat, Count : Nat]] :
              /\ Buckets = 1..n
              /\ \A i \in Buckets : /\ classes[i].AtMost = boundOf(Boundaries, i)
                                    /\ classes[i].Count = ReadSizesAt[t].Counts[i] - ReadSizesAt[s].Counts[i]
              /\ \A j, k \in 1..n : classes[j].AtMost = classes[k].AtMost => j = k
              /\ DiffSizes(ReadSizesAt[s], ReadSizesAt[t])
                   = [Classes |-> Seen(classes), Total |-> Counted(classes)]
<1>1. PICK n \in Nat : n = Len(Boundaries) - 1 /\ Buckets = 1..n /\ DOMAIN Boundaries = 1..(n + 1)
  <2>1. PICK m \in Nat \ {0} : m = Len(Boundaries) /\ DOMAIN Boundaries = 1..m
    BY BoundariesType
  <2>2. m - 1 \in Nat /\ m = (m - 1) + 1
    OBVIOUS
  <2> QED
    BY <2>1, <2>2 DEF Buckets
<1>2. t \in 0..Limit
  BY LimitType
<1>3. PICK a \in [1..n -> Nat] : a = ReadSizesAt[s].Counts
  <2>1. \A j \in Buckets : ReadSizesAt[s].Counts[j] \in Nat
    BY BucketsGrow
  <2>2. ReadSizesAt[s].Counts = [j \in Buckets |-> ReadSizesAt[s].Counts[j]]
    BY DEF ReadSizesAt
  <2> QED
    BY <1>1, <2>1, <2>2
<1>4. PICK b \in [1..n -> Nat] : b = ReadSizesAt[t].Counts
  <2>1. \A j \in Buckets : ReadSizesAt[t].Counts[j] \in Nat
    BY BucketsGrow
  <2>2. ReadSizesAt[t].Counts = [j \in Buckets |-> ReadSizesAt[t].Counts[j]]
    BY <1>2 DEF ReadSizesAt
  <2> QED
    BY <1>1, <2>1, <2>2
<1>5. \A j \in 1..n : delta(a[j], b[j]) = b[j] - a[j] /\ b[j] - a[j] \in Nat
  <2> SUFFICES ASSUME NEW j \in 1..n PROVE delta(a[j], b[j]) = b[j] - a[j] /\ b[j] - a[j] \in Nat
    OBVIOUS
  <2>1. a[j] <= b[j] /\ b[j] < Width /\ Width \in Nat \ {0} /\ a[j] \in Nat /\ b[j] \in Nat
    BY <1>1, <1>2, <1>3, <1>4, BucketsGrow, CountersFit, CostsAssumption
  <2>2. b[j] - a[j] \in 0..(Width - 1)
    BY <2>1
  <2> QED
    BY <2>1, <2>2, Around, SMTT(40) DEF delta
<1>6. \A j \in 1..n : boundOf(Boundaries, j) = Boundaries[j + 1] /\ Boundaries[j + 1] \in Nat
  BY <1>1, BoundariesType DEF boundOf
<1>7. PICK classes : classes = [j \in 1..n |-> [AtMost |-> boundOf(Boundaries, j), Count |-> delta(a[j], b[j])]]
  OBVIOUS
<1>8. classes \in [1..n -> [AtMost : Nat, Count : Nat]]
  BY <1>5, <1>6, <1>7
<1>9. \A j, k \in 1..n : classes[j].AtMost = classes[k].AtMost => j = k
  <2> SUFFICES ASSUME NEW j \in 1..n, NEW k \in 1..n, classes[j].AtMost = classes[k].AtMost, j # k
               PROVE  FALSE
    OBVIOUS
  <2>1. Boundaries[j + 1] = Boundaries[k + 1] /\ Boundaries[j + 1] \in Nat
    BY <1>6, <1>7
  <2>2. j + 1 \in DOMAIN Boundaries /\ k + 1 \in DOMAIN Boundaries /\ (j + 1 < k + 1 \/ k + 1 < j + 1)
    BY <1>1
  <2> QED
    <3>1. PICK x, y : x = j + 1 /\ y = k + 1
      OBVIOUS
    <3>2. /\ x \in DOMAIN Boundaries /\ y \in DOMAIN Boundaries /\ (x < y \/ y < x)
          /\ Boundaries[x] = Boundaries[y] /\ Boundaries[x] \in Nat
      BY <2>1, <2>2, <3>1
    <3>3. Boundaries[x] < Boundaries[y] \/ Boundaries[y] < Boundaries[x]
      BY <3>2, BoundariesType
    <3> QED
      BY <3>2, <3>3
<1>10. DiffSizes(ReadSizesAt[s], ReadSizesAt[t]) = [Classes |-> Seen(classes), Total |-> Counted(classes)]
  <2>1. ReadSizesAt[t].Boundaries = Boundaries
    BY <1>2 DEF ReadSizesAt
  <2>2. Len(a) = Len(b) /\ DOMAIN b = 1..n
    OBVIOUS
  <2>3. classes = [j \in DOMAIN b |-> [AtMost |-> boundOf(Boundaries, j), Count |-> delta(a[j], b[j])]]
    BY <1>7, <2>2
  <2> QED
    BY <1>3, <1>4, <2>1, <2>2, <2>3 DEF DiffSizes
<1>11. \A i \in Buckets : /\ classes[i].AtMost = boundOf(Boundaries, i)
                          /\ classes[i].Count = ReadSizesAt[t].Counts[i] - ReadSizesAt[s].Counts[i]
  BY <1>1, <1>3, <1>4, <1>5, <1>7
<1> QED
  BY <1>1, <1>8, <1>9, <1>10, <1>11

\* What two readings differ by, of a size class.
LEMMA DiffSpread ==
    ASSUME NEW i \in Buckets, NEW s \in 0..Limit, NEW t \in s..Limit
    PROVE  /\ CountAt(DiffSizes(ReadSizesAt[s], ReadSizesAt[t]), boundOf(Boundaries, i)) \in Nat
           /\ CountAt(DiffSizes(ReadSizesAt[s], ReadSizesAt[t]), boundOf(Boundaries, i))
                = ReadSizesAt[t].Counts[i] - ReadSizesAt[s].Counts[i]
<1>1. PICK n \in Nat : \E classes \in [1..n -> [AtMost : Nat, Count : Nat]] :
         /\ Buckets = 1..n
         /\ \A j \in Buckets : /\ classes[j].AtMost = boundOf(Boundaries, j)
                               /\ classes[j].Count = ReadSizesAt[t].Counts[j] - ReadSizesAt[s].Counts[j]
         /\ \A j, k \in 1..n : classes[j].AtMost = classes[k].AtMost => j = k
         /\ DiffSizes(ReadSizesAt[s], ReadSizesAt[t])
              = [Classes |-> Seen(classes), Total |-> Counted(classes)]
  BY DiffClasses
<1>2. PICK classes \in [1..n -> [AtMost : Nat, Count : Nat]] :
         /\ Buckets = 1..n
         /\ classes[i].AtMost = boundOf(Boundaries, i)
         /\ classes[i].Count = ReadSizesAt[t].Counts[i] - ReadSizesAt[s].Counts[i]
         /\ \A j, k \in 1..n : classes[j].AtMost = classes[k].AtMost => j = k
         /\ DiffSizes(ReadSizesAt[s], ReadSizesAt[t])
              = [Classes |-> Seen(classes), Total |-> Counted(classes)]
  BY <1>1
<1>3. PICK spread : /\ spread = DiffSizes(ReadSizesAt[s], ReadSizesAt[t])
                    /\ spread.Classes = Seen(classes)
  BY <1>2
<1>4. CountAt(spread, classes[i].AtMost) = classes[i].Count
  BY <1>2, <1>3, SeenCounts
<1>5. classes[i].Count \in Nat
  BY <1>2
<1> QED
  BY <1>2, <1>3, <1>4, <1>5

-----------------------------------------------------------------------------
(* The ledger: what the accounts claim is covered by what each runner could  *)
(* have put there, which is what had happened when its open run began.       *)

\* So much is claimed, and each runner's share of it is no more than its slack.
Covered(claimed, slack) ==
    \E share \in [Runners -> Nat] : /\ claimed <= SumFunction(share)
                                    /\ \A r \in Runners : share[r] <= slack[r]

\* Of a counter: claimed by all accounts, and what one could have claimed by time t
\* whose run is at x.
Claimed(c) == SumFunction([k \in DOMAIN totals |-> totals[k].Spent[c]])
Slack(x, t, c) ==
    IF x.stage \in {"begun", "running"} THEN x.before.Counters[c]
    ELSE IF x.stage \in {"ended", "recording"} THEN ReadAt[t].Counters[c] - x.change.Spent[c]
    ELSE ReadAt[t].Counters[c]

\* Of a size class: the sizes are read later than the counters.
Edge(i) == boundOf(Boundaries, i)
ClaimedAt(edge) == SumFunction([k \in DOMAIN sizes |-> At(sizes[k], edge, 0)])
SlackAt(x, t, i) ==
    IF x.stage \in {"running", "ended"} THEN x.sizesBefore.Counts[i]
    ELSE IF x.stage = "recording" THEN ReadSizesAt[t].Counts[i] - CountAt(x.spread, Edge(i))
    ELSE ReadSizesAt[t].Counts[i]

\* What was read by time t was read before it, and what was made of it is a number.
InPast(x, t, keepsSizes) ==
    /\ x.stage \in {"begun", "running"} => x.before \in {ReadAt[s] : s \in 0..t}
    /\ x.stage \in {"ended", "recording"} => \A c \in Counters : x.change.Spent[c] \in Nat
    /\ keepsSizes =>
         /\ x.stage \in {"running", "ended"} => x.sizesBefore \in {ReadSizesAt[s] : s \in 0..t}
         /\ x.stage = "recording" => \A i \in Buckets : CountAt(x.spread, Edge(i)) \in Nat

Amounts ==
    /\ IsFiniteSet(DOMAIN totals)
    /\ \A k \in DOMAIN totals : \A c \in Counters : totals[k].Spent[c] \in Nat
    /\ IsFiniteSet(DOMAIN sizes)
    /\ \A k \in DOMAIN sizes : \A i \in Buckets : At(sizes[k], Edge(i), 0) \in Nat

CountersCovered ==
    \A c \in Counters : Covered(Claimed(c), [r \in Runners |-> Slack(run[r], now, c)])
SizesCovered ==
    IF mode.keepsSizes
    THEN \A i \in Buckets : Covered(ClaimedAt(Edge(i)), [r \in Runners |-> SlackAt(run[r], now, i)])
    ELSE sizes = <<>>

LedgerInv == /\ \A r \in Runners : InPast(run[r], now, mode.keepsSizes)
             /\ Amounts /\ CountersCovered /\ SizesCovered

\* A claim stays covered while the slack does not shrink, and so does a larger one
\* if some runner's slack grows as much.
LEMMA StaysCovered ==
    ASSUME NEW claimed, NEW slack, Covered(claimed, slack),
           NEW slack2, \A r \in Runners : slack[r] <= slack2[r],
           \A r \in Runners : slack[r] \in Int /\ slack2[r] \in Int
    PROVE  Covered(claimed, slack2)
<1>1. PICK share \in [Runners -> Nat] : /\ claimed <= SumFunction(share)
                                        /\ \A r \in Runners : share[r] <= slack[r]
  BY DEF Covered
<1>2. ASSUME NEW r \in Runners PROVE share[r] <= slack2[r]
  <2>1. share[r] \in Int /\ share[r] <= slack[r] /\ slack[r] <= slack2[r]
    BY <1>1
  <2> QED
    BY <2>1
<1> QED
  BY <1>1, <1>2 DEF Covered

\* What covers a claim covers it with more behind it, and covers a smaller one.
LEMMA CoversMore ==
    ASSUME NEW claimed \in Int, NEW slack, Covered(claimed, slack),
           NEW who \in Runners, NEW more \in Nat, NEW now2 \in Int, now2 <= claimed + more,
           NEW slack2, \A r \in Runners : slack[r] <= slack2[r], slack[who] + more <= slack2[who],
           \A r \in Runners : slack[r] \in Int /\ slack2[r] \in Int
    PROVE  Covered(now2, slack2)
<1>1. PICK share \in [Runners -> Nat] : /\ claimed <= SumFunction(share)
                                        /\ \A r \in Runners : share[r] <= slack[r]
  BY DEF Covered
<1>2. PICK share2 \in [Runners -> Nat] : share2 = [share EXCEPT ![who] = share[who] + more]
  <2>1. share[who] + more \in Nat
    OBVIOUS
  <2> QED
    BY <2>1
<1>3. share2[who] = share[who] + more /\ \A r \in Runners \ {who} : share2[r] = share[r]
  BY <1>2
<1>4. SumFunction(share2) = SumFunction(share) + more
  <2>1. IsFiniteSet(Runners) /\ Runners \cup {who} = Runners
    BY CostsAssumption
  <2> QED
    BY <1>3, <2>1, SumWith
<1>5. ASSUME NEW r \in Runners PROVE share2[r] <= slack2[r]
  <2>1. /\ share[r] \in Int /\ share[r] <= slack[r] /\ slack[r] <= slack2[r]
        /\ slack[r] \in Int /\ slack2[r] \in Int
    BY <1>1
  <2>2. CASE r = who
    BY <1>3, <2>1, <2>2
  <2>3. CASE r # who
    BY <1>3, <2>1, <2>3
  <2> QED
    BY <2>2, <2>3
<1>6. SumFunction(share) \in Int
  <2>1. IsFiniteSet(Runners)
    BY CostsAssumption
  <2> QED
    BY <2>1, SumType
<1>7. now2 <= SumFunction(share2)
  BY <1>1, <1>4, <1>6
<1> QED
  BY <1>5, <1>7 DEF Covered

\* A claim that is covered is no more than every runner's seeing everything.
LEMMA CoveredBound ==
    ASSUME NEW claimed \in Int, NEW slack, Covered(claimed, slack),
           NEW n \in Nat, \A r \in Runners : slack[r] \in Int /\ slack[r] <= n
    PROVE  claimed <= Cardinality(Runners) * n
<1>1. PICK share \in [Runners -> Nat] : /\ claimed <= SumFunction(share)
                                        /\ \A r \in Runners : share[r] <= slack[r]
  BY DEF Covered
<1>2. ASSUME NEW r \in Runners PROVE share[r] <= n
  <2>1. share[r] \in Int /\ share[r] <= slack[r] /\ slack[r] \in Int /\ slack[r] <= n
    BY <1>1
  <2> QED
    BY <2>1
<1>3. IsFiniteSet(Runners)
  BY CostsAssumption
<1>4. SumFunction(share) <= Cardinality(Runners) * n /\ SumFunction(share) \in Nat
  BY <1>2, <1>3, SumBounded, SumType
<1>5. PICK most \in Int : most = Cardinality(Runners) * n
  <2>1. Cardinality(Runners) \in Nat
    BY <1>3, FS_CardinalityType
  <2> QED
    BY <2>1
<1> QED
  BY <1>1, <1>4, <1>5

\* What could have been claimed by a time is a number and no more than happened by it.
LEMMA SlackType ==
    ASSUME NEW t \in 0..Limit, NEW x, NEW keepsSizes, InPast(x, t, keepsSizes)
    PROVE  /\ \A c \in Counters : /\ ReadAt[t].Counters[c] \in Nat
                                  /\ Slack(x, t, c) \in Int /\ Slack(x, t, c) <= ReadAt[t].Counters[c]
           /\ \A i \in Buckets :
                /\ ReadSizesAt[t].Counts[i] \in Nat
                /\ keepsSizes => SlackAt(x, t, i) \in Int /\ SlackAt(x, t, i) <= ReadSizesAt[t].Counts[i]
<1>0. Limit \in Nat /\ t \in t..Limit
  BY LimitType
<1>1. ASSUME NEW c \in Counters
      PROVE  /\ ReadAt[t].Counters[c] \in Nat
             /\ Slack(x, t, c) \in Int /\ Slack(x, t, c) <= ReadAt[t].Counters[c]
  <2>1. ReadAt[t].Counters[c] \in Nat
    BY <1>0, CountersGrow
  <2>2. CASE x.stage \in {"begun", "running"}
    <3>1. PICK s \in 0..t : x.before = ReadAt[s]
      BY <2>2 DEF InPast
    <3>2. s \in 0..Limit /\ t \in s..Limit
      BY <1>0
    <3>3. ReadAt[s].Counters[c] \in Nat /\ ReadAt[s].Counters[c] <= ReadAt[t].Counters[c]
      BY <3>2, CountersGrow
    <3> QED
      BY <2>1, <2>2, <3>1, <3>3 DEF Slack
  <2>3. CASE x.stage \in {"ended", "recording"}
    <3>1. x.change.Spent[c] \in Nat
      BY <2>3 DEF InPast
    <3> QED
      BY <2>1, <2>3, <3>1 DEF Slack
  <2>4. CASE x.stage \notin {"begun", "running", "ended", "recording"}
    BY <2>1, <2>4 DEF Slack
  <2> QED
    BY <2>1, <2>2, <2>3, <2>4
<1>2. ASSUME NEW i \in Buckets
      PROVE  /\ ReadSizesAt[t].Counts[i] \in Nat
             /\ keepsSizes => SlackAt(x, t, i) \in Int /\ SlackAt(x, t, i) <= ReadSizesAt[t].Counts[i]
  <2>1. ReadSizesAt[t].Counts[i] \in Nat
    BY <1>0, BucketsGrow
  <2> SUFFICES ASSUME keepsSizes
               PROVE  SlackAt(x, t, i) \in Int /\ SlackAt(x, t, i) <= ReadSizesAt[t].Counts[i]
    BY <2>1
  <2>2. CASE x.stage \in {"running", "ended"}
    <3>1. PICK s \in 0..t : x.sizesBefore = ReadSizesAt[s]
      BY <2>2 DEF InPast
    <3>2. s \in 0..Limit /\ t \in s..Limit
      BY <1>0
    <3>3. ReadSizesAt[s].Counts[i] \in Nat /\ ReadSizesAt[s].Counts[i] <= ReadSizesAt[t].Counts[i]
      BY <3>2, BucketsGrow
    <3> QED
      BY <2>1, <2>2, <3>1, <3>3 DEF SlackAt
  <2>3. CASE x.stage = "recording"
    <3>1. CountAt(x.spread, Edge(i)) \in Nat
      BY <2>3 DEF InPast
    <3> QED
      BY <2>1, <2>3, <3>1 DEF SlackAt
  <2>4. CASE x.stage \notin {"running", "ended", "recording"}
    BY <2>1, <2>4 DEF SlackAt
  <2> QED
    BY <2>1, <2>2, <2>3, <2>4
<1> QED
  BY <1>1, <1>2

\* Whoever waits while the process works could claim no less than before.
LEMMA WaitingGrows ==
    ASSUME NEW t \in 0..Limit, t < Limit, NEW x, NEW keepsSizes, InPast(x, t, keepsSizes)
    PROVE  /\ InPast(x, t + 1, keepsSizes)
           /\ \A c \in Counters : Slack(x, t, c) <= Slack(x, t + 1, c)
           /\ keepsSizes => \A i \in Buckets : SlackAt(x, t, i) <= SlackAt(x, t + 1, i)
<1>0. t + 1 \in 0..Limit /\ t + 1 \in t..Limit /\ 0..t \subseteq 0..(t + 1)
  BY LimitType
<1>1. InPast(x, t + 1, keepsSizes)
  BY <1>0 DEF InPast
<1>2. ASSUME NEW c \in Counters PROVE Slack(x, t, c) <= Slack(x, t + 1, c)
  <2>1. /\ ReadAt[t].Counters[c] \in Nat /\ ReadAt[t + 1].Counters[c] \in Nat
        /\ ReadAt[t].Counters[c] <= ReadAt[t + 1].Counters[c]
    BY <1>0, CountersGrow
  <2>2. Slack(x, t, c) \in Int /\ Slack(x, t + 1, c) \in Int
    BY <1>0, <1>1, SlackType
  <2>3. x.stage \in {"ended", "recording"} => x.change.Spent[c] \in Nat
    BY DEF InPast
  <2> QED
    BY <2>1, <2>2, <2>3 DEF Slack
<1>3. ASSUME keepsSizes, NEW i \in Buckets PROVE SlackAt(x, t, i) <= SlackAt(x, t + 1, i)
  <2>1. /\ ReadSizesAt[t].Counts[i] \in Nat /\ ReadSizesAt[t + 1].Counts[i] \in Nat
        /\ ReadSizesAt[t].Counts[i] <= ReadSizesAt[t + 1].Counts[i]
    BY <1>0, BucketsGrow
  <2>2. SlackAt(x, t, i) \in Int /\ SlackAt(x, t + 1, i) \in Int
    BY <1>0, <1>1, <1>3, SlackType
  <2>3. x.stage = "recording" => CountAt(x.spread, Edge(i)) \in Nat
    BY <1>3 DEF InPast
  <2> QED
    BY <2>1, <2>2, <2>3 DEF SlackAt
<1> QED
  BY <1>1, <1>2, <1>3

\* In the beginning nothing is claimed.
LEMMA LedgerInit == Init => LedgerInv
<1> SUFFICES ASSUME Init PROVE LedgerInv
  OBVIOUS
<1>1. \A r \in Runners : run[r].stage = "idle"
  BY DEF Init, Idle
<1>2. \A r \in Runners : InPast(run[r], now, mode.keepsSizes)
  BY <1>1 DEF InPast
<1>3. now \in 0..Limit
  BY LimitType DEF Init
<1>4. DOMAIN totals = {} /\ DOMAIN sizes = {}
  BY DEF Init
<1>5. Amounts
  BY <1>4, FS_EmptySet DEF Amounts
<1>6. ASSUME NEW slack, \A r \in Runners : slack[r] \in Nat PROVE Covered(0, slack)
  <2>1. PICK share \in [Runners -> Nat] : \A r \in Runners : share[r] = 0
    <3>1. [r \in Runners |-> 0] \in [Runners -> Nat]
      OBVIOUS
    <3> QED
      BY <3>1
  <2>2. IsFiniteSet(Runners)
    BY CostsAssumption
  <2>3. 0 <= SumFunction(share)
    BY <2>2, SumType
  <2>4. \A r \in Runners : share[r] <= slack[r]
    BY <1>6, <2>1
  <2> QED
    BY <2>3, <2>4 DEF Covered
<1>7. CountersCovered
  <2> SUFFICES ASSUME NEW c \in Counters
               PROVE  Covered(Claimed(c), [r \in Runners |-> Slack(run[r], now, c)])
    BY DEF CountersCovered
  <2>1. PICK g : g = [k \in DOMAIN totals |-> totals[k].Spent[c]]
    OBVIOUS
  <2>2. g \in [{} -> Nat]
    BY <1>4, <2>1
  <2>3. Claimed(c) = 0
    BY <2>1, <2>2, SumOfOne DEF Claimed
  <2>4. ReadAt[now].Counters[c] \in Nat
    BY <1>2, <1>3, SlackType, CountersGrow, LimitType
  <2>5. \A r \in Runners : Slack(run[r], now, c) = ReadAt[now].Counters[c]
    BY <1>1 DEF Slack
  <2> QED
    BY <1>6, <2>3, <2>4, <2>5
<1>8. SizesCovered
  <2> SUFFICES ASSUME mode.keepsSizes, NEW i \in Buckets
               PROVE  Covered(ClaimedAt(Edge(i)), [r \in Runners |-> SlackAt(run[r], now, i)])
    BY DEF SizesCovered, Init
  <2>1. PICK g : g = [k \in DOMAIN sizes |-> At(sizes[k], Edge(i), 0)]
    OBVIOUS
  <2>2. g \in [{} -> Nat]
    BY <1>4, <2>1
  <2>3. ClaimedAt(Edge(i)) = 0
    BY <2>1, <2>2, SumOfOne DEF ClaimedAt
  <2>4. ReadSizesAt[now].Counts[i] \in Nat
    BY <1>3, BucketsGrow, LimitType
  <2>5. \A r \in Runners : SlackAt(run[r], now, i) = ReadSizesAt[now].Counts[i]
    BY <1>1 DEF SlackAt
  <2> QED
    BY <1>6, <2>3, <2>4, <2>5
<1> QED
  BY <1>2, <1>5, <1>7, <1>8 DEF LedgerInv

\* A step that records nothing, and after which everyone could claim as much as before.
LEMMA QuietStep ==
    ASSUME LedgerInv, now \in 0..Limit, now' \in 0..Limit, UNCHANGED <<mode, totals, sizes>>,
           \A r \in Runners :
             /\ InPast(run'[r], now', mode.keepsSizes)
             /\ \A c \in Counters : Slack(run[r], now, c) <= Slack(run'[r], now', c)
             /\ mode.keepsSizes =>
                  \A i \in Buckets : SlackAt(run[r], now, i) <= SlackAt(run'[r], now', i)
    PROVE  LedgerInv'
<1>1. Amounts'
  BY DEF LedgerInv, Amounts
<1>2. CountersCovered'
  <2> SUFFICES ASSUME NEW c \in Counters
               PROVE  Covered(Claimed(c)', [r \in Runners |-> Slack(run'[r], now', c)])
    BY DEF CountersCovered
  <2> DEFINE slack == [r \in Runners |-> Slack(run[r], now, c)]
             slack2 == [r \in Runners |-> Slack(run'[r], now', c)]
  <2>1. Claimed(c)' = Claimed(c)
    BY DEF Claimed
  <2>2. Covered(Claimed(c), slack)
    BY DEF LedgerInv, CountersCovered
  <2>3. \A r \in Runners : slack[r] \in Int /\ slack2[r] \in Int
    BY SlackType DEF LedgerInv
  <2>4. \A r \in Runners : slack[r] <= slack2[r]
    OBVIOUS
  <2> HIDE DEF slack, slack2
  <2>5. Covered(Claimed(c), slack2)
    BY <2>2, <2>3, <2>4, StaysCovered
  <2> QED
    BY <2>1, <2>5 DEF slack2
<1>3. SizesCovered'
  <2>1. CASE ~mode.keepsSizes
    BY <2>1 DEF LedgerInv, SizesCovered
  <2>2. CASE mode.keepsSizes
    <3> SUFFICES ASSUME NEW i \in Buckets
                 PROVE  Covered(ClaimedAt(Edge(i))', [r \in Runners |-> SlackAt(run'[r], now', i)])
      BY <2>2 DEF SizesCovered
    <3> DEFINE slack == [r \in Runners |-> SlackAt(run[r], now, i)]
               slack2 == [r \in Runners |-> SlackAt(run'[r], now', i)]
    <3>1. ClaimedAt(Edge(i))' = ClaimedAt(Edge(i))
      BY DEF ClaimedAt
    <3>2. Covered(ClaimedAt(Edge(i)), slack)
      BY <2>2 DEF LedgerInv, SizesCovered
    <3>3. \A r \in Runners : slack[r] \in Int /\ slack2[r] \in Int
      BY <2>2, SlackType DEF LedgerInv
    <3>4. \A r \in Runners : slack[r] <= slack2[r]
      BY <2>2
    <3> HIDE DEF slack, slack2
    <3>5. Covered(ClaimedAt(Edge(i)), slack2)
      BY <3>2, <3>3, <3>4, StaysCovered
    <3> QED
      BY <3>1, <3>5 DEF slack2
  <2> QED
    BY <2>1, <2>2
<1> QED
  BY <1>1, <1>2, <1>3 DEF LedgerInv

\* A runner moves alone, records nothing and could claim as much as before.
LEMMA QuietMove ==
    ASSUME IInv, LedgerInv, NEW r \in Runners, NEW value,
           run' = [run EXCEPT ![r] = value], UNCHANGED <<mode, totals, sizes, now>>,
           InPast(value, now, mode.keepsSizes),
           \A c \in Counters : Slack(run[r], now, c) <= Slack(value, now, c),
           mode.keepsSizes => \A i \in Buckets : SlackAt(run[r], now, i) <= SlackAt(value, now, i)
    PROVE  LedgerInv'
<1>1. run'[r] = value /\ \A q \in Runners \ {r} : run'[q] = run[q]
  BY DEF IInv, TypeOK
<1>2. now \in 0..Limit /\ now' = now
  BY DEF IInv, TypeOK
<1>3. ASSUME NEW q \in Runners
      PROVE  /\ InPast(run'[q], now', mode.keepsSizes)
             /\ \A c \in Counters : Slack(run[q], now, c) <= Slack(run'[q], now', c)
             /\ mode.keepsSizes =>
                  \A i \in Buckets : SlackAt(run[q], now, i) <= SlackAt(run'[q], now', i)
  <2>1. CASE q = r
    BY <1>1, <1>2, <2>1
  <2>2. CASE q # r
    <3>1. run'[q] = run[q] /\ InPast(run[q], now, mode.keepsSizes)
      BY <1>1, <2>2 DEF LedgerInv
    <3>2. \A c \in Counters : Slack(run[q], now, c) \in Int
      BY <1>2, <3>1, SlackType
    <3>3. mode.keepsSizes => \A i \in Buckets : SlackAt(run[q], now, i) \in Int
      BY <1>2, <3>1, SlackType
    <3>4. \A n \in Int : n <= n
      OBVIOUS
    <3> QED
      BY <1>2, <3>1, <3>2, <3>3, <3>4
  <2> QED
    BY <2>1, <2>2
<1> QED
  BY <1>2, <1>3, QuietStep

\* As long as nothing has been read, or what was read has been recorded, all that
\* happened could be claimed.
LEMMA Unread ==
    ASSUME NEW t \in 0..Limit, NEW x, x.stage \in {"idle", "opened", "closing"}, NEW keepsSizes
    PROVE  /\ InPast(x, t, keepsSizes)
           /\ \A c \in Counters : Slack(x, t, c) = ReadAt[t].Counters[c]
           /\ \A i \in Buckets : SlackAt(x, t, i) = ReadSizesAt[t].Counts[i]
  BY DEF InPast, Slack, SlackAt

\* What a reading taken now allows is no less than what any reader could claim.
LEMMA Presently ==
    ASSUME IInv, LedgerInv, NEW r \in Runners
    PROVE  /\ now \in 0..Limit /\ InPast(run[r], now, mode.keepsSizes)
           /\ \A c \in Counters : Slack(run[r], now, c) <= ReadAt[now].Counters[c]
           /\ mode.keepsSizes => \A i \in Buckets : SlackAt(run[r], now, i) <= ReadSizesAt[now].Counts[i]
<1>1. now \in 0..Limit /\ InPast(run[r], now, mode.keepsSizes)
  BY DEF IInv, TypeOK, LedgerInv
<1> QED
  BY <1>1, SlackType

\* Opening and closing a span, or waiting, claims nothing.
LEMMA SpanLedger ==
    ASSUME IInv, LedgerInv, NEW r \in Runners, SpanStarted(r) \/ SpanEnded(r) PROVE LedgerInv'
<1>1. PICK value : /\ run' = [run EXCEPT ![r] = value] /\ value.stage \in {"opened", "idle"}
                   /\ UNCHANGED <<mode, totals, sizes, now>>
  <2>1. CASE SpanStarted(r)
    BY <2>1 DEF SpanStarted, Accounts
  <2>2. CASE SpanEnded(r)
    <3>1. Idle.stage = "idle"
      BY DEF Idle
    <3> QED
      BY <2>2, <3>1 DEF SpanEnded, Accounts
  <2> QED
    BY <2>1, <2>2
<1>2. value.stage \in {"idle", "opened", "closing"}
  BY <1>1
<1>3. now \in 0..Limit
  BY Presently
<1>4. /\ InPast(value, now, mode.keepsSizes)
      /\ \A c \in Counters : Slack(value, now, c) = ReadAt[now].Counters[c]
      /\ \A i \in Buckets : SlackAt(value, now, i) = ReadSizesAt[now].Counts[i]
  BY <1>2, <1>3, Unread
<1>5. \A c \in Counters : Slack(run[r], now, c) <= Slack(value, now, c)
  BY <1>4, Presently
<1>6. mode.keepsSizes => \A i \in Buckets : SlackAt(run[r], now, i) <= SlackAt(value, now, i)
  BY <1>4, Presently
<1> QED
  BY <1>1, <1>4, <1>5, <1>6, QuietMove

\* The first reading is what the runner could claim by then.
LEMMA ReadBeforeLedger ==
    ASSUME IInv, LedgerInv, NEW r \in Runners, ReadBefore(r) PROVE LedgerInv'
<1>1. PICK value : /\ run' = [run EXCEPT ![r] = value]
                   /\ value.stage = IF mode.keepsSizes THEN "begun" ELSE "running"
                   /\ value.before = ReadAt[now]
                   /\ UNCHANGED <<mode, totals, sizes, now>>
  BY DEF ReadBefore, Goto, Accounts, Read
<1>2. now \in 0..now
  BY DEF IInv, TypeOK
<1>3. InPast(value, now, mode.keepsSizes)
  BY <1>1, <1>2 DEF InPast
<1>4. \A c \in Counters : Slack(value, now, c) = ReadAt[now].Counters[c]
  BY <1>1 DEF Slack
<1>5. mode.keepsSizes => \A i \in Buckets : SlackAt(value, now, i) = ReadSizesAt[now].Counts[i]
  BY <1>1 DEF SlackAt
<1> QED
  BY <1>1, <1>3, <1>4, <1>5, Presently, QuietMove

\* The first histogram reading marks where a run's sizes begin.
LEMMA ReadSizesBeforeLedger ==
    ASSUME IInv, LedgerInv, NEW r \in Runners, ReadSizesBefore(r) PROVE LedgerInv'
<1>1. run[r] \in Running /\ run[r].stage = "begun"
  BY StageTells DEF IInv, ReadSizesBefore
<1>2. PICK value : value = [run[r] EXCEPT !.stage = "running", !.sizesBefore = ReadSizes]
  OBVIOUS
<1>3. /\ run' = [run EXCEPT ![r] = value] /\ UNCHANGED <<mode, totals, sizes, now>>
  BY <1>2 DEF ReadSizesBefore, Goto, Accounts
<1>4. value.stage = "running" /\ value.before = run[r].before /\ value.sizesBefore = ReadSizesAt[now]
  BY <1>1, <1>2 DEF Running, ReadSizes
<1>5. now \in 0..now
  BY DEF IInv, TypeOK
<1>6. InPast(value, now, mode.keepsSizes)
  BY <1>1, <1>4, <1>5, Presently DEF InPast
<1>7. \A c \in Counters : Slack(value, now, c) = Slack(run[r], now, c)
  BY <1>1, <1>4 DEF Slack
<1>8. \A i \in Buckets : SlackAt(value, now, i) = ReadSizesAt[now].Counts[i]
  BY <1>4 DEF SlackAt
<1>9. \A c \in Counters : Slack(run[r], now, c) <= Slack(value, now, c)
  <2>1. \A c \in Counters : Slack(run[r], now, c) \in Int
    BY Presently, SlackType
  <2>2. \A n \in Int : n <= n
    OBVIOUS
  <2> QED
    BY <1>7, <2>1, <2>2
<1> QED
  BY <1>3, <1>6, <1>8, <1>9, Presently, QuietMove

\* The second reading takes as much as has happened since the first, no more.
LEMMA ReadAfterLedger ==
    ASSUME IInv, LedgerInv, NEW r \in Runners, ReadAfter(r) PROVE LedgerInv'
<1>1. run[r].stage = "running"
  BY DEF ReadAfter
<1>2. PICK value : /\ run' = [run EXCEPT ![r] = value]
                   /\ value.stage = IF mode.keepsSizes THEN "ended" ELSE "recording"
                   /\ value.change = Diff(run[r].before, ReadAt[now])
                   /\ value.sizesBefore = run[r].sizesBefore
                   /\ UNCHANGED <<mode, totals, sizes, now>>
  <2>1. PICK value : value = [stage |-> IF mode.keepsSizes THEN "ended" ELSE "recording",
                              name |-> run[r].name, sizesBefore |-> run[r].sizesBefore,
                              change |-> Diff(run[r].before, Read),
                              spread |-> NoSpread, span |-> run[r].span]
    OBVIOUS
  <2>2. run' = [run EXCEPT ![r] = value] /\ UNCHANGED <<mode, totals, sizes, now>>
    BY <2>1 DEF ReadAfter, Goto, Accounts
  <2>3. /\ value.stage = IF mode.keepsSizes THEN "ended" ELSE "recording"
        /\ value.change = Diff(run[r].before, ReadAt[now])
        /\ value.sizesBefore = run[r].sizesBefore
    BY <2>1 DEF Read
  <2> QED
    BY <2>2, <2>3
<1>3. now \in 0..Limit /\ InPast(run[r], now, mode.keepsSizes) /\ Limit \in Nat
  BY Presently, LimitType
<1>4. PICK s \in 0..now : run[r].before = ReadAt[s]
  BY <1>1, <1>3 DEF InPast
<1>5. s \in 0..Limit /\ now \in s..Limit
  BY <1>3
<1>6. ASSUME NEW c \in Counters
      PROVE  /\ value.change.Spent[c] \in Nat
             /\ Slack(run[r], now, c) <= Slack(value, now, c)
  <2>1. /\ value.change.Spent[c] \in Nat
        /\ value.change.Spent[c] = ReadAt[now].Counters[c] - ReadAt[s].Counters[c]
    BY <1>2, <1>4, <1>5, DiffSpent
  <2>2. ReadAt[now].Counters[c] \in Nat /\ ReadAt[s].Counters[c] \in Nat
    BY <1>5, CountersGrow
  <2>3. Slack(run[r], now, c) = ReadAt[s].Counters[c]
    BY <1>1, <1>4 DEF Slack
  <2>4. Slack(value, now, c) = ReadAt[now].Counters[c] - value.change.Spent[c]
    BY <1>2 DEF Slack
  <2> QED
    BY <2>1, <2>2, <2>3, <2>4
<1>7. InPast(value, now, mode.keepsSizes)
  BY <1>1, <1>2, <1>3, <1>6 DEF InPast
<1>8. ASSUME mode.keepsSizes, NEW i \in Buckets PROVE SlackAt(run[r], now, i) <= SlackAt(value, now, i)
  <2>1. SlackAt(value, now, i) = SlackAt(run[r], now, i)
    BY <1>1, <1>2, <1>8 DEF SlackAt
  <2>2. SlackAt(run[r], now, i) \in Int
    BY <1>3, <1>8, SlackType
  <2> QED
    BY <2>1, <2>2
<1> QED
  BY <1>2, <1>6, <1>7, <1>8, QuietMove

\* The second histogram reading closes the stretch whose sizes a run may claim.
LEMMA ReadSizesAfterLedger ==
    ASSUME IInv, LedgerInv, NEW r \in Runners, ReadSizesAfter(r) PROVE LedgerInv'
<1>1. run[r] \in Ended /\ run[r].stage = "ended"
  BY StageTells DEF IInv, ReadSizesAfter
<1>2. PICK value : value = [run[r] EXCEPT !.stage = "recording",
                                          !.spread = DiffSizes(run[r].sizesBefore, ReadSizes)]
  OBVIOUS
<1>3. /\ run' = [run EXCEPT ![r] = value] /\ UNCHANGED <<mode, totals, sizes, now>>
  BY <1>2 DEF ReadSizesAfter, Goto, Accounts
<1>4. /\ value.stage = "recording" /\ value.change = run[r].change
      /\ value.spread = DiffSizes(run[r].sizesBefore, ReadSizesAt[now])
  BY <1>1, <1>2 DEF Ended, ReadSizes
<1>5. now \in 0..Limit /\ InPast(run[r], now, mode.keepsSizes) /\ Limit \in Nat
  BY Presently, LimitType
<1>6. ASSUME mode.keepsSizes, NEW i \in Buckets
      PROVE  /\ CountAt(value.spread, Edge(i)) \in Nat
             /\ SlackAt(run[r], now, i) <= SlackAt(value, now, i)
  <2>1. PICK s \in 0..now : run[r].sizesBefore = ReadSizesAt[s]
    BY <1>1, <1>5, <1>6 DEF InPast
  <2>2. s \in 0..Limit /\ now \in s..Limit
    BY <1>5
  <2>3. /\ CountAt(value.spread, Edge(i)) \in Nat
        /\ CountAt(value.spread, Edge(i)) = ReadSizesAt[now].Counts[i] - ReadSizesAt[s].Counts[i]
    BY <1>4, <2>1, <2>2, DiffSpread DEF Edge
  <2>4. ReadSizesAt[now].Counts[i] \in Nat /\ ReadSizesAt[s].Counts[i] \in Nat
    BY <2>2, BucketsGrow
  <2>5. SlackAt(run[r], now, i) = ReadSizesAt[s].Counts[i]
    BY <1>1, <2>1 DEF SlackAt
  <2>6. SlackAt(value, now, i) = ReadSizesAt[now].Counts[i] - CountAt(value.spread, Edge(i))
    BY <1>4 DEF SlackAt
  <2> QED
    BY <2>3, <2>4, <2>5, <2>6
<1>7. InPast(value, now, mode.keepsSizes)
  BY <1>1, <1>4, <1>5, <1>6 DEF InPast
<1>8. ASSUME NEW c \in Counters PROVE Slack(run[r], now, c) <= Slack(value, now, c)
  <2>1. Slack(value, now, c) = Slack(run[r], now, c)
    BY <1>1, <1>4 DEF Slack
  <2>2. Slack(run[r], now, c) \in Int
    BY <1>5, SlackType
  <2> QED
    BY <2>1, <2>2
<1> QED
  BY <1>3, <1>6, <1>7, <1>8, QuietMove

\* Time passes.
LEMMA WorkLedger == ASSUME IInv, LedgerInv, Work PROVE LedgerInv'
<1>1. /\ now \in 0..Limit /\ now < Limit /\ now' = now + 1 /\ now' \in 0..Limit
      /\ UNCHANGED <<mode, totals, sizes, run>>
  BY LimitType DEF Work, IInv, TypeOK
<1>2. ASSUME NEW r \in Runners
      PROVE  /\ InPast(run'[r], now', mode.keepsSizes)
             /\ \A c \in Counters : Slack(run[r], now, c) <= Slack(run'[r], now', c)
             /\ mode.keepsSizes =>
                  \A i \in Buckets : SlackAt(run[r], now, i) <= SlackAt(run'[r], now', i)
  <2>1. InPast(run[r], now, mode.keepsSizes)
    BY DEF LedgerInv
  <2> QED
    BY <1>1, <2>1, WaitingGrows
<1> QED
  BY <1>1, <1>2, QuietStep

\* What a run spent is added to its account and to no other.
LEMMA RecordClaims ==
    ASSUME Amounts, NEW r \in Runners, Record(r), NEW c \in Counters,
           run[r].change.Spent[c] \in Nat
    PROVE  /\ Claimed(c) \in Nat /\ Claimed(c)' = Claimed(c) + run[r].change.Spent[c]
           /\ IsFiniteSet(DOMAIN totals')
           /\ \A k \in DOMAIN totals' : totals'[k].Spent[c] \in Nat
<1>1. PICK key : key = keyFor(run[r].name)
  OBVIOUS
<1>2. PICK p \in Nat : p = run[r].change.Spent[c]
  OBVIOUS
<1>3. totals' = With(totals, key, summed(At(totals, key, NoCost), run[r].change))
  BY <1>1 DEF Record
<1>4. PICK S : S = DOMAIN totals /\ IsFiniteSet(S)
  BY DEF Amounts
<1>5. DOMAIN totals' = S \cup {key} /\ IsFiniteSet(S \cup {key})
  BY <1>3, <1>4, FS_AddElement DEF With
<1>6. PICK f : f = [k \in S |-> totals[k].Spent[c]] /\ f \in [S -> Nat]
  <2>1. \A k \in S : totals[k].Spent[c] \in Nat
    BY <1>4 DEF Amounts
  <2>2. [k \in S |-> totals[k].Spent[c]] \in [S -> Nat]
    BY <2>1
  <2> QED
    BY <2>2, Zenon
<1>7. PICK g : g = [k \in S \cup {key} |-> totals'[k].Spent[c]]
  OBVIOUS
<1>8. \A k \in S \ {key} : g[k] = f[k]
  BY <1>3, <1>4, <1>6, <1>7 DEF With
<1>9. g[key] = (IF key \in S THEN f[key] ELSE 0) + p
  <2>1. totals'[key] = summed(At(totals, key, NoCost), run[r].change)
    BY <1>3 DEF With
  <2>2. totals'[key].Spent[c] = At(totals, key, NoCost).Spent[c] + p
    BY <1>2, <2>1 DEF summed
  <2>3. At(totals, key, NoCost).Spent[c] = IF key \in S THEN f[key] ELSE 0
    BY <1>4, <1>6 DEF At, NoCost
  <2> QED
    BY <1>7, <2>2, <2>3
<1>10. g \in [S \cup {key} -> Nat]
  <2>1. ASSUME NEW k \in S \cup {key} PROVE g[k] \in Nat
    BY <1>6, <1>8, <1>9
  <2> QED
    BY <1>7, <2>1
<1>11. SumFunction(g) = SumFunction(f) + p /\ SumFunction(f) \in Nat
  <2>1. SumFunction(f) \in Nat
    BY <1>4, <1>6, SumType
  <2>2. SumFunction(g) = SumFunction(f) + p
    <3>1. IsFiniteSet(S) /\ f \in [S -> Nat] /\ p \in Nat
      BY <1>4, <1>6
    <3> QED
      BY <3>1, <1>8, <1>9, <1>10, SumWith
  <2> QED
    BY <2>1, <2>2
<1>12. Claimed(c) = SumFunction(f) /\ Claimed(c)' = SumFunction(g)
  BY <1>4, <1>5, <1>6, <1>7 DEF Claimed
<1> QED
  BY <1>2, <1>5, <1>7, <1>10, <1>11, <1>12

\* So is what it allocated of each size, unless it allocated nothing.
LEMMA RecordSizes ==
    ASSUME Amounts, NEW r \in Runners, Record(r), NEW i \in Buckets,
           CountAt(run[r].spread, Edge(i)) \in Nat
    PROVE  /\ ClaimedAt(Edge(i)) \in Nat /\ ClaimedAt(Edge(i))' \in Nat
           /\ ClaimedAt(Edge(i))' <= ClaimedAt(Edge(i)) + CountAt(run[r].spread, Edge(i))
           /\ IsFiniteSet(DOMAIN sizes')
           /\ \A k \in DOMAIN sizes' : At(sizes'[k], Edge(i), 0) \in Nat
<1>1. PICK key, spread, e : key = keyFor(run[r].name) /\ spread = run[r].spread /\ e = Edge(i)
  OBVIOUS
<1>2. PICK S : S = DOMAIN sizes /\ IsFiniteSet(S)
  BY DEF Amounts
<1>3. PICK f : f = [k \in S |-> At(sizes[k], e, 0)] /\ f \in [S -> Nat]
  <2>1. \A k \in S : At(sizes[k], e, 0) \in Nat
    BY <1>1, <1>2 DEF Amounts
  <2>2. [k \in S |-> At(sizes[k], e, 0)] \in [S -> Nat]
    BY <2>1
  <2> QED
    BY <2>2, Zenon
<1>4. ClaimedAt(e) = SumFunction(f) /\ SumFunction(f) \in Nat
  BY <1>2, <1>3, SumType DEF ClaimedAt
<1>5. CASE UNCHANGED sizes
  <2>1. ClaimedAt(e)' = ClaimedAt(e)
    BY <1>1, <1>5 DEF ClaimedAt
  <2>2. \A k \in DOMAIN sizes' : At(sizes'[k], e, 0) \in Nat
    BY <1>1, <1>5 DEF Amounts
  <2> QED
    BY <1>1, <1>2, <1>4, <1>5, <2>1, <2>2
<1>6. CASE sizes' = With(sizes, key, merged(At(sizes, key, <<>>), spread))
  <2>1. DOMAIN sizes' = S \cup {key} /\ IsFiniteSet(S \cup {key})
    BY <1>2, <1>6, FS_AddElement DEF With
  <2>2. PICK g : g = [k \in S \cup {key} |-> At(sizes'[k], e, 0)]
    OBVIOUS
  <2>3. \A k \in S \ {key} : g[k] = f[k]
    BY <1>2, <1>3, <1>6, <2>2 DEF With
  <2>4. PICK old \in Nat : /\ old = At(At(sizes, key, <<>>), e, 0)
                           /\ old = IF key \in S THEN f[key] ELSE 0
    <3>1. key \in S => At(At(sizes, key, <<>>), e, 0) = f[key]
      BY <1>2, <1>3 DEF At
    <3>2. key \notin S => At(At(sizes, key, <<>>), e, 0) = 0
      BY <1>2 DEF At
    <3> QED
      BY <1>3, <3>1, <3>2
  <2>5. PICK d \in Nat : d <= CountAt(spread, e) /\ g[key] = old + d
    <3>1. sizes'[key] = merged(At(sizes, key, <<>>), spread)
      BY <1>6 DEF With
    <3>2. g[key] = At(merged(At(sizes, key, <<>>), spread), e, 0)
      BY <2>2, <3>1
    <3>3. CASE e \in DOMAIN merged(At(sizes, key, <<>>), spread)
      <4>1. merged(At(sizes, key, <<>>), spread)[e] = old + CountAt(spread, e)
        BY <2>4, <3>3 DEF merged
      <4> QED
        BY <1>1, <3>2, <3>3, <4>1 DEF At
    <3>4. CASE e \notin DOMAIN merged(At(sizes, key, <<>>), spread)
      <4>1. e \notin DOMAIN At(sizes, key, <<>>)
        BY <3>4 DEF merged
      <4>2. old = 0
        BY <2>4, <4>1 DEF At
      <4>3. g[key] = 0
        BY <3>2, <3>4 DEF At
      <4> QED
        BY <1>1, <4>2, <4>3
    <3> QED
      BY <3>3, <3>4
  <2>6. g[key] = (IF key \in S THEN f[key] ELSE 0) + d
    BY <2>4, <2>5
  <2>7. g \in [S \cup {key} -> Nat]
    <3>1. ASSUME NEW k \in S \cup {key} PROVE g[k] \in Nat
      BY <1>3, <2>3, <2>5
    <3> QED
      BY <2>2, <3>1
  <2>8. SumFunction(g) = SumFunction(f) + d
    BY <1>2, <1>3, <2>3, <2>6, <2>7, SumWith
  <2>9. ClaimedAt(e)' = SumFunction(g)
    BY <1>1, <2>1, <2>2 DEF ClaimedAt
  <2>10. \A k \in DOMAIN sizes' : At(sizes'[k], e, 0) \in Nat
    BY <2>1, <2>2, <2>7
  <2>11. ClaimedAt(e)' \in Nat /\ ClaimedAt(e)' <= ClaimedAt(e) + CountAt(spread, e)
    BY <1>1, <1>4, <2>5, <2>8, <2>9
  <2> QED
    BY <1>1, <1>4, <2>1, <2>10, <2>11
<1> QED
  BY <1>1, <1>5, <1>6 DEF Record

\* What is recorded was the recording runner's to claim.
LEMMA RecordLedger ==
    ASSUME IInv, LedgerInv, NEW r \in Runners, Record(r) PROVE LedgerInv'
<1>1. run[r].stage = "recording" /\ now' = now /\ mode' = mode /\ now \in 0..Limit
  BY Presently DEF Record
<1>2. /\ run'[r].stage \in {"idle", "closing"}
      /\ \A q \in Runners \ {r} : run'[q] = run[q]
  <2>1. Idle.stage = "idle"
    BY DEF Idle
  <2>2. run \in [Runners -> {Idle} \cup Opened \cup Running \cup Ended \cup Closing]
    BY DEF IInv, TypeOK
  <2> QED
    BY <2>1, <2>2 DEF Record
<1>3. /\ \A c \in Counters : run[r].change.Spent[c] \in Nat
      /\ mode.keepsSizes => \A i \in Buckets : CountAt(run[r].spread, Edge(i)) \in Nat
  BY <1>1, Presently DEF InPast
<1>4. ASSUME NEW q \in Runners PROVE InPast(run'[q], now, mode.keepsSizes)
  <2>1. CASE q = r
    BY <1>1, <1>2, <2>1, Unread
  <2>2. CASE q # r
    BY <1>2, <2>2 DEF LedgerInv
  <2> QED
    BY <2>1, <2>2
<1>5. ASSUME NEW q \in Runners, NEW c \in Counters
      PROVE  /\ Slack(run[q], now, c) \in Int /\ Slack(run'[q], now, c) \in Int
             /\ Slack(run[q], now, c) <= Slack(run'[q], now, c)
             /\ q = r => Slack(run[q], now, c) + run[r].change.Spent[c] <= Slack(run'[q], now, c)
  <2>1. /\ Slack(run[q], now, c) \in Int /\ Slack(run'[q], now, c) \in Int
        /\ ReadAt[now].Counters[c] \in Nat
    BY <1>1, <1>4, SlackType, Presently
  <2>2. CASE q = r
    <3>1. Slack(run'[r], now, c) = ReadAt[now].Counters[c]
      BY <1>1, <1>2, Unread
    <3>2. Slack(run[r], now, c) = ReadAt[now].Counters[c] - run[r].change.Spent[c]
      BY <1>1 DEF Slack
    <3>3. run[r].change.Spent[c] \in Nat
      BY <1>3
    <3> QED
      BY <2>1, <2>2, <3>1, <3>2, <3>3
  <2>3. CASE q # r
    BY <1>2, <2>1, <2>3
  <2> QED
    BY <2>2, <2>3
<1>6. ASSUME mode.keepsSizes, NEW q \in Runners, NEW i \in Buckets
      PROVE  /\ SlackAt(run[q], now, i) \in Int /\ SlackAt(run'[q], now, i) \in Int
             /\ SlackAt(run[q], now, i) <= SlackAt(run'[q], now, i)
             /\ q = r => SlackAt(run[q], now, i) + CountAt(run[r].spread, Edge(i)) <= SlackAt(run'[q], now, i)
  <2>1. /\ SlackAt(run[q], now, i) \in Int /\ SlackAt(run'[q], now, i) \in Int
        /\ ReadSizesAt[now].Counts[i] \in Nat
    BY <1>1, <1>4, <1>6, SlackType, Presently
  <2>2. CASE q = r
    <3>1. SlackAt(run'[r], now, i) = ReadSizesAt[now].Counts[i]
      BY <1>1, <1>2, Unread
    <3>2. SlackAt(run[r], now, i) = ReadSizesAt[now].Counts[i] - CountAt(run[r].spread, Edge(i))
      BY <1>1 DEF SlackAt
    <3>3. CountAt(run[r].spread, Edge(i)) \in Nat
      BY <1>3, <1>6
    <3> QED
      BY <2>1, <2>2, <3>1, <3>2, <3>3
  <2>3. CASE q # r
    BY <1>2, <2>1, <2>3
  <2> QED
    BY <2>2, <2>3
<1>7. Amounts
  BY DEF LedgerInv
<1>8. /\ IsFiniteSet(DOMAIN totals')
      /\ \A k \in DOMAIN totals' : \A c \in Counters : totals'[k].Spent[c] \in Nat
  <2>1. "AllocBytes" \in Counters
    BY DEF Counters
  <2> QED
    BY <1>3, <1>7, <2>1, RecordClaims
<1>9. CountersCovered'
  <2> SUFFICES ASSUME NEW c \in Counters
               PROVE  Covered(Claimed(c)', [q \in Runners |-> Slack(run'[q], now', c)])
    BY DEF CountersCovered
  <2> DEFINE slack == [q \in Runners |-> Slack(run[q], now, c)]
             slack2 == [q \in Runners |-> Slack(run'[q], now, c)]
  <2>1. PICK n \in Nat, p \in Nat : n = Claimed(c) /\ p = run[r].change.Spent[c] /\ Claimed(c)' = n + p
    BY <1>3, <1>7, RecordClaims
  <2>2. Covered(n, slack)
    BY <2>1 DEF LedgerInv, CountersCovered
  <2>3. \A q \in Runners : slack[q] <= slack2[q] /\ slack[q] \in Int /\ slack2[q] \in Int
    BY <1>5
  <2>4. slack[r] + p <= slack2[r]
    BY <1>5, <2>1
  <2>5. n + p \in Int /\ n + p <= n + p
    OBVIOUS
  <2> HIDE DEF slack, slack2
  <2>6. Covered(n + p, slack2)
    BY <2>2, <2>3, <2>4, <2>5, CoversMore
  <2> QED
    BY <1>1, <2>1, <2>6 DEF slack2
<1>10. CASE ~mode.keepsSizes
  <2>1. sizes' = sizes /\ sizes = <<>>
    BY <1>10 DEF Record, LedgerInv, SizesCovered
  <2>2. Amounts' /\ SizesCovered'
    BY <1>1, <1>7, <1>8, <1>10, <2>1 DEF Amounts, SizesCovered
  <2> QED
    BY <1>1, <1>4, <1>9, <2>2 DEF LedgerInv
<1>11. CASE mode.keepsSizes
  <2>1. ASSUME NEW i \in Buckets
        PROVE  Covered(ClaimedAt(Edge(i))', [q \in Runners |-> SlackAt(run'[q], now, i)])
    <3> DEFINE slack == [q \in Runners |-> SlackAt(run[q], now, i)]
               slack2 == [q \in Runners |-> SlackAt(run'[q], now, i)]
    <3>1. PICK n \in Nat, m \in Nat, p \in Nat :
             /\ n = ClaimedAt(Edge(i)) /\ m = ClaimedAt(Edge(i))' /\ p = CountAt(run[r].spread, Edge(i))
             /\ m <= n + p
      BY <1>3, <1>7, <1>11, RecordSizes
    <3>2. Covered(n, slack)
      BY <1>11, <3>1 DEF LedgerInv, SizesCovered
    <3>3. \A q \in Runners : slack[q] <= slack2[q] /\ slack[q] \in Int /\ slack2[q] \in Int
      BY <1>6, <1>11
    <3>4. slack[r] + p <= slack2[r]
      BY <1>6, <1>11, <3>1
    <3> HIDE DEF slack, slack2
    <3>5. Covered(m, slack2)
      BY <3>1, <3>2, <3>3, <3>4, CoversMore
    <3> QED
      BY <3>1, <3>5 DEF slack2
  <2>2. SizesCovered'
    BY <1>1, <1>11, <2>1 DEF SizesCovered
  <2>3. /\ IsFiniteSet(DOMAIN sizes')
        /\ \A k \in DOMAIN sizes' : \A i \in Buckets : At(sizes'[k], Edge(i), 0) \in Nat
    <3>1. IsFiniteSet(DOMAIN sizes')
      <4>1. IsFiniteSet(DOMAIN sizes)
        BY <1>7 DEF Amounts
      <4> QED
        BY <4>1, FS_AddElement DEF Record, With
    <3> QED
      BY <1>3, <1>7, <1>11, <3>1, RecordSizes
  <2>4. Amounts'
    BY <1>8, <2>3 DEF Amounts, Edge
  <2> QED
    BY <1>1, <1>4, <1>9, <2>2, <2>4 DEF LedgerInv
<1> QED
  BY <1>10, <1>11

\* Every step keeps the ledger.
LEMMA LedgerStep == IInv /\ LedgerInv /\ [Next]_vars => LedgerInv'
<1> SUFFICES ASSUME IInv, LedgerInv, [Next]_vars PROVE LedgerInv'
  OBVIOUS
<1>1. CASE UNCHANGED vars
  BY <1>1 DEF vars, LedgerInv, Amounts, CountersCovered, SizesCovered, Claimed, ClaimedAt
<1>2. CASE Work
  BY <1>2, WorkLedger
<1>3. CASE \E r \in Runners : \/ SpanStarted(r) \/ SpanEnded(r)
                              \/ ReadBefore(r) \/ ReadSizesBefore(r)
                              \/ ReadAfter(r) \/ ReadSizesAfter(r) \/ Record(r)
  BY <1>3, SpanLedger, ReadBeforeLedger, ReadSizesBeforeLedger, ReadAfterLedger,
     ReadSizesAfterLedger, RecordLedger
<1> QED
  BY <1>1, <1>2, <1>3 DEF Next

\* All accounts together never claim more than every runner could have seen, of any
\* counter and of any size class: for every program, any number of runners and names,
\* and any interleaving of the four readings of a run with those of the others.
THEOREM ClaimsAreCovered == Spec => []NeverOvercounts
<1>1. IInv /\ LedgerInv => NeverOvercounts
  <2> SUFFICES ASSUME IInv, LedgerInv PROVE NeverOvercounts
    OBVIOUS
  <2>1. /\ now \in 0..Limit /\ now \in now..Limit
        /\ \A r \in Runners : InPast(run[r], now, mode.keepsSizes)
    BY LimitType DEF IInv, TypeOK, LedgerInv
  <2>2. ASSUME NEW c \in Counters PROVE Claimed(c) <= Cardinality(Runners) * Read.Counters[c]
    <3> DEFINE slack == [r \in Runners |-> Slack(run[r], now, c)]
    <3>1. PICK n \in Nat : n = Read.Counters[c] /\ n = ReadAt[now].Counters[c]
      BY <2>1, CountersGrow DEF Read
    <3>2. \A r \in Runners : slack[r] \in Int /\ slack[r] <= n
      BY <2>1, <3>1, SlackType
    <3>3. Covered(Claimed(c), slack)
      BY DEF LedgerInv, CountersCovered
    <3>4. Claimed(c) \in Int
      <4>1. PICK g : g = [k \in DOMAIN totals |-> totals[k].Spent[c]]
        OBVIOUS
      <4>2. g \in [DOMAIN totals -> Nat] /\ IsFiniteSet(DOMAIN totals)
        BY <4>1 DEF LedgerInv, Amounts
      <4>3. SumFunction(g) \in Nat
        BY <4>2, SumType
      <4> QED
        BY <4>1, <4>3 DEF Claimed
    <3> HIDE DEF slack
    <3> QED
      BY <3>1, <3>2, <3>3, <3>4, CoveredBound
  <2>3. ASSUME NEW i \in Buckets
        PROVE  ClaimedAt(Edge(i)) <= Cardinality(Runners) * ReadSizes.Counts[i]
    <3> DEFINE slack == [r \in Runners |-> SlackAt(run[r], now, i)]
    <3>1. PICK n \in Nat : n = ReadSizes.Counts[i] /\ n = ReadSizesAt[now].Counts[i]
      BY <2>1, BucketsGrow DEF ReadSizes
    <3>2. PICK g : g = [k \in DOMAIN sizes |-> At(sizes[k], Edge(i), 0)]
      OBVIOUS
    <3>3. /\ g \in [DOMAIN sizes -> Nat] /\ IsFiniteSet(DOMAIN sizes)
          /\ ClaimedAt(Edge(i)) = SumFunction(g)
      BY <3>2 DEF LedgerInv, Amounts, ClaimedAt
    <3>4. CASE mode.keepsSizes
      <4>1. \A r \in Runners : slack[r] \in Int /\ slack[r] <= n
        BY <2>1, <3>1, <3>4, SlackType
      <4>2. Covered(ClaimedAt(Edge(i)), slack)
        BY <3>4 DEF LedgerInv, SizesCovered
      <4>3. ClaimedAt(Edge(i)) \in Int
        BY <3>3, SumType
      <4> HIDE DEF slack
      <4> QED
        BY <3>1, <4>1, <4>2, <4>3, CoveredBound
    <3>5. CASE ~mode.keepsSizes
      <4>1. DOMAIN sizes = {}
        BY <3>5 DEF LedgerInv, SizesCovered
      <4>2. ClaimedAt(Edge(i)) = 0
        BY <3>3, <4>1, SumOfOne
      <4>3. Cardinality(Runners) * n \in Nat
        <5>1. Cardinality(Runners) \in Nat
          BY CostsAssumption, FS_CardinalityType
        <5> QED
          BY <5>1
      <4> QED
        BY <3>1, <4>2, <4>3
    <3> QED
      BY <3>4, <3>5
  <2> QED
    BY <2>2, <2>3 DEF NeverOvercounts, Claimed, ClaimedAt, Edge
<1> QED
  BY <1>1, InitHolds, StepKeeps, LedgerInit, LedgerStep, PTL DEF Spec

-----------------------------------------------------------------------------
(* The accounts: what was recorded under a name, added up.                   *)

\* What was read of the counters, and of the sizes, at two ticks up to some tick.
Measured(change, t) == \E s \in 0..t : \E u \in s..t : change = Diff(ReadAt[s], ReadAt[u])
Sized(spread, t) == \/ spread = NoSpread
                    \/ \E s \in 0..t : \E u \in s..t : spread = DiffSizes(ReadSizesAt[s], ReadSizesAt[u])

\* What the steps of a run hand on was read in order.
Taken(x, t, keepsSizes) ==
    /\ x.stage \in {"ended", "recording"} => Measured(x.change, t)
    /\ x.stage \in {"begun", "ended"} => keepsSizes
    /\ x.stage = "recording" => Sized(x.spread, t) /\ (~keepsSizes => x.spread = NoSpread)
TakenInv == \A r \in Runners : Taken(run[r], now, mode.keepsSizes)

\* What is measured of work that takes no time back.
LEMMA MeasuredType ==
    ASSUME NEW t \in 0..Limit, NEW change, Measured(change, t)
    PROVE  /\ change \in Changes
           /\ \A c \in Counters : change.Spent[c] \in Nat
           /\ change.CPUSeconds \in Nat /\ change.Duration \in Nat
<1>0. PICK s \in 0..t : \E u \in s..t : change = Diff(ReadAt[s], ReadAt[u])
  BY DEF Measured
<1>1. PICK u \in s..t : change = Diff(ReadAt[s], ReadAt[u])
  BY <1>0
<1>2. s \in 0..Limit /\ u \in 0..Limit /\ u \in s..Limit
  BY LimitType
<1>3. change \in Changes /\ change.Duration = u - s
  BY <1>1, <1>2, ReadTime, DiffTime
<1>4. \A c \in Counters : change.Spent[c] \in Nat
  BY <1>1, <1>2, DiffSpent
<1>5. ASSUME NEW v \in 0..Limit PROVE workSeconds(ReadAt[v]) \in Nat
  <2>1. PICK f : f = [i \in 1..Limit |-> Program[i].used]
    OBVIOUS
  <2>2. f \in [1..Limit -> Nat]
    BY <2>1, ProgramType
  <2>3. [i \in 1..v |-> Program[i].used] = [i \in 1..v |-> f[i]]
    BY <2>1, LimitType
  <2>4. v \in v..Limit
    BY LimitType
  <2>5. SumFunction([i \in 1..v |-> f[i]]) \in Nat
    BY <2>2, <2>4, SoFarGrows
  <2>6. ReadAt[v].CPU.total = SumFunction([i \in 1..v |-> Program[i].used]) /\ ReadAt[v].CPU.idle = 0
    BY DEF ReadAt, SoFar
  <2> QED
    BY <2>3, <2>5, <2>6 DEF workSeconds, deltaSeconds
<1>6. change.CPUSeconds = deltaSeconds(workSeconds(ReadAt[s]), workSeconds(ReadAt[u]))
  BY <1>1 DEF Diff
<1>7. change.CPUSeconds \in Nat
  <2>1. workSeconds(ReadAt[s]) \in Nat /\ workSeconds(ReadAt[u]) \in Nat
    BY <1>2, <1>5
  <2> QED
    BY <1>6, <2>1 DEF deltaSeconds
<1>8. change.Duration \in Nat
  BY <1>2, <1>3
<1> QED
  BY <1>3, <1>4, <1>7, <1>8

\* The largest number of a set.
LEMMA MaxIs ==
    ASSUME NEW S, S \subseteq Int, NEW m \in S, \A x \in S : x <= m
    PROVE  Max(S) = m
<1>1. \E x \in S : \A y \in S : x >= y
  OBVIOUS
<1>2. PICK x \in S : x = Max(S) /\ \A y \in S : x >= y
  BY <1>1 DEF Max
<1>3. x <= m /\ x >= m /\ x \in Int /\ m \in Int
  BY <1>2
<1> QED
  BY <1>2, <1>3
LEMMA MinIs ==
    ASSUME NEW S, S \subseteq Int, NEW m \in S, \A x \in S : m <= x
    PROVE  Min(S) = m
<1>1. \E x \in S : \A y \in S : x <= y
  OBVIOUS
<1>2. PICK x \in S : x = Min(S) /\ \A y \in S : x <= y
  BY <1>1 DEF Min
<1>3. x <= m /\ x >= m /\ x \in Int /\ m \in Int
  BY <1>2
<1> QED
  BY <1>2, <1>3

\* One more value is added to a sum along a sequence.
LEMMA SumAppend ==
    ASSUME NEW n \in Nat, NEW f \in [1..n -> Nat], NEW g \in [1..(n + 1) -> Nat],
           \A i \in 1..n : g[i] = f[i]
    PROVE  SumFunction(g) = SumFunction(f) + g[n + 1]
<1>1. PICK S, k : S = 1..n /\ k = n + 1
  OBVIOUS
<1>2. IsFiniteSet(S)
  BY <1>1, FS_Interval
<1>3. S \cup {k} = 1..(n + 1) /\ k \notin S /\ S \ {k} = S
  BY <1>1
<1>4. f \in [S -> Nat] /\ g \in [S \cup {k} -> Nat] /\ g[k] \in Nat
  BY <1>1, <1>3
<1>5. PICK d \in Nat : d = g[k]
  BY <1>4
<1>8. g[k] = (IF k \in S THEN f[k] ELSE 0) + d
  BY <1>3, <1>5
<1>9. f \in [S -> Nat] /\ g \in [S \cup {k} -> Nat]
  BY <1>4
<1>6. \A x \in S \ {k} : g[x] = f[x]
  BY <1>1
<1>7. SumFunction(g) = SumFunction(f) + d
  BY <1>2, <1>6, <1>8, <1>9, SumWith, SMTT(40)
<1> QED
  BY <1>1, <1>5, <1>7

\* A value is no more than a sum it is part of.
LEMMA PartOfSum ==
    ASSUME NEW S, IsFiniteSet(S), NEW f \in [S -> Nat], NEW x \in S
    PROVE  f[x] <= SumFunction(f)
<1>1. PICK h : Adder(f, S, h) /\ SumFunction(f) = h[S]
  BY SumIs
<1>2. h[S] = f[x] + h[S \ {x}] /\ h[S \ {x}] \in Nat /\ f[x] \in Nat
  BY <1>1 DEF Adder
<1> QED
  BY <1>1, <1>2

\* A sum of zeros.
LEMMA SumOfNone ==
    ASSUME NEW S, IsFiniteSet(S), NEW f \in [S -> Nat], \A x \in S : f[x] = 0
    PROVE  SumFunction(f) = 0
<1>1. PICK none : none = {}
  OBVIOUS
<1>2. PICK g : g = [x \in none |-> f[x]]
  OBVIOUS
<1>3. g \in [none -> Nat]
  BY <1>1, <1>2
<1>4. PICK h : Adder(f, S, h) /\ SumFunction(f) = h[S]
  BY SumIs
<1> DEFINE Good == {T \in SUBSET S : h[T] = 0}
<1>5. {} \in Good
  BY <1>4 DEF Adder
<1>6. ASSUME NEW T \in SUBSET S, T # {}, \A x \in T : T \ {x} \in Good PROVE T \in Good
  <2>1. PICK x \in T : h[T] = f[x] + h[T \ {x}]
    BY <1>4, <1>6 DEF Adder
  <2> QED
    BY <1>6, <2>1
<1> HIDE DEF Good
<1>7. SUBSET S \subseteq Good
  BY <1>5, <1>6, SubsetInduction
<1>8. S \in Good
  BY <1>7
<1> QED
  BY <1>4, <1>8 DEF Good

\* The classes that saw something, in the order they had.
LEMMA SeenIs ==
    ASSUME NEW n \in Nat, NEW classes \in [1..n -> [AtMost : Nat, Count : Nat]]
    PROVE  \E k \in Nat : \E those \in [1..k -> {i \in 1..n : classes[i].Count # 0}] :
              /\ Seen(classes) = [m \in 1..k |-> classes[those[m]]]
              /\ \A a, b \in 1..k : a < b => those[a] < those[b]
              /\ \A a, b \in 1..k : those[a] = those[b] => a = b
              /\ \A i \in 1..n : classes[i].Count # 0 => \E a \in 1..k : those[a] = i
<1>1. PICK S : S = {i \in 1..n : classes[i].Count # 0}
  OBVIOUS
<1>2. IsFiniteSet(S) /\ S \subseteq Nat
  <2>1. IsFiniteSet(1..n)
    BY FS_Interval
  <2> QED
    BY <1>1, <2>1, FS_Subset
<1>3. PICK k \in Nat : k = Cardinality(S)
  BY <1>2, FS_CardinalityType
<1>4. PICK those \in [1..k -> S] : /\ those = Ascending(S)
                                   /\ \A a, b \in 1..k : a < b => those[a] < those[b]
                                   /\ \A a, b \in 1..k : those[a] = those[b] => a = b
                                   /\ \A x \in S : \E a \in 1..k : those[a] = x
  <2>1. /\ Ascending(S) \in [1..Cardinality(S) -> S]
        /\ \A a, b \in 1..Cardinality(S) : a < b => Ascending(S)[a] < Ascending(S)[b]
        /\ \A a, b \in 1..Cardinality(S) : Ascending(S)[a] = Ascending(S)[b] => a = b
        /\ \A x \in S : \E a \in 1..Cardinality(S) : Ascending(S)[a] = x
    BY <1>2, NumbersInOrder
  <2> QED
    BY <1>3, <2>1
<1>5. Seen(classes) = [m \in 1..k |-> classes[those[m]]]
  <2>1. S = {i \in DOMAIN classes : classes[i].Count # 0} /\ DOMAIN those = 1..k
    BY <1>1
  <2> QED
    BY <1>4, <2>1 DEF Seen
<1>6. \A i \in 1..n : classes[i].Count # 0 => \E a \in 1..k : those[a] = i
  BY <1>1, <1>4
<1>7. those \in [1..k -> {i \in 1..n : classes[i].Count # 0}]
  BY <1>1
<1>8. \A a, b \in 1..k : a < b => those[a] < those[b]
  BY <1>4
<1>9. \A a, b \in 1..k : those[a] = those[b] => a = b
  BY <1>4
<1> QED
  BY <1>5, <1>6, <1>7, <1>8, <1>9, Zenon

\* What the sizes read differ by: a number in every bucket, nothing at another edge, and
\* nothing at all if nothing was allocated.
LEMMA SizedType ==
    ASSUME NEW t \in 0..Limit, NEW spread, Sized(spread, t)
    PROVE  /\ \A i \in Buckets : CountAt(spread, Edge(i)) \in Nat
           /\ \A i \in Buckets : spread.Total = 0 => CountAt(spread, Edge(i)) = 0
           /\ {class.AtMost : class \in Range(spread.Classes)} \subseteq Edges
<1>1. CASE spread = NoSpread
  <2>1. spread.Classes = <<>> /\ DOMAIN spread.Classes = {}
    BY <1>1 DEF NoSpread
  <2>2. ASSUME NEW i \in Buckets PROVE CountAt(spread, Edge(i)) = 0
    <3>1. PICK D, g : /\ D = {m \in DOMAIN spread.Classes : spread.Classes[m].AtMost = Edge(i)}
                      /\ g = [m \in D |-> spread.Classes[m].Count]
      OBVIOUS
    <3>2. D = {} /\ g \in [D -> Nat]
      BY <2>1, <3>1
    <3>3. SumFunction(g) = 0
      BY <3>2, SumOfOne
    <3> QED
      BY <3>1, <3>3 DEF CountAt, CountWhere
  <2>3. Range(spread.Classes) = {}
    BY <2>1 DEF Range
  <2> QED
    BY <2>2, <2>3
<1>2. CASE \E s \in 0..t : \E u \in s..t : spread = DiffSizes(ReadSizesAt[s], ReadSizesAt[u])
  <2>1. PICK s \in 0..t : \E u \in s..t : spread = DiffSizes(ReadSizesAt[s], ReadSizesAt[u])
    BY <1>2
  <2>2. PICK u \in s..t : spread = DiffSizes(ReadSizesAt[s], ReadSizesAt[u])
    BY <2>1
  <2>3. s \in 0..Limit /\ u \in s..Limit
    BY LimitType
  <2>4. PICK n \in Nat : \E classes \in [1..n -> [AtMost : Nat, Count : Nat]] :
           /\ Buckets = 1..n
           /\ \A j \in Buckets : /\ classes[j].AtMost = boundOf(Boundaries, j)
                                 /\ classes[j].Count = ReadSizesAt[u].Counts[j] - ReadSizesAt[s].Counts[j]
           /\ \A j, k \in 1..n : classes[j].AtMost = classes[k].AtMost => j = k
           /\ DiffSizes(ReadSizesAt[s], ReadSizesAt[u])
                = [Classes |-> Seen(classes), Total |-> Counted(classes)]
    BY <2>3, DiffClasses
  <2>5. PICK classes \in [1..n -> [AtMost : Nat, Count : Nat]] :
           /\ Buckets = 1..n
           /\ \A j \in Buckets : classes[j].AtMost = boundOf(Boundaries, j)
           /\ \A j, k \in 1..n : classes[j].AtMost = classes[k].AtMost => j = k
           /\ spread = [Classes |-> Seen(classes), Total |-> Counted(classes)]
    BY <2>2, <2>4
  <2>6. ASSUME NEW i \in Buckets
        PROVE  CountAt(spread, Edge(i)) = classes[i].Count /\ classes[i].Count \in Nat
    <3>1. i \in 1..n /\ spread.Classes = Seen(classes) /\ classes[i].AtMost = Edge(i)
      BY <2>5 DEF Edge
    <3>2. CountAt(spread, classes[i].AtMost) = classes[i].Count
      BY <2>5, <3>1, SeenCounts
    <3> QED
      BY <3>1, <3>2
  <2>7. ASSUME NEW i \in Buckets, spread.Total = 0 PROVE classes[i].Count = 0
    <3>1. PICK g : g = [j \in 1..n |-> classes[j].Count] /\ g \in [1..n -> Nat]
      <4>1. [j \in 1..n |-> classes[j].Count] \in [1..n -> Nat]
        OBVIOUS
      <4> QED
        BY <4>1, Zenon
    <3>2. spread.Total = SumFunction(g)
      <4>1. {j \in DOMAIN classes : TRUE} = 1..n
        OBVIOUS
      <4>2. Counted(classes) = SumFunction([j \in {m \in DOMAIN classes : TRUE} |-> classes[j].Count])
        BY DEF Counted, CountWhere
      <4> QED
        BY <2>5, <3>1, <4>1, <4>2
    <3>3. i \in 1..n /\ IsFiniteSet(1..n)
      BY <2>5, FS_Interval
    <3>4. g[i] <= SumFunction(g)
      BY <3>1, <3>3, PartOfSum
    <3> QED
      BY <2>7, <3>1, <3>2, <3>3, <3>4
  <2>8. {class.AtMost : class \in Range(spread.Classes)} \subseteq Edges
    <3>1. PICK k \in Nat : \E those \in [1..k -> {i \in 1..n : classes[i].Count # 0}] :
             /\ Seen(classes) = [m \in 1..k |-> classes[those[m]]]
             /\ \A a, b \in 1..k : a < b => those[a] < those[b]
             /\ \A a, b \in 1..k : those[a] = those[b] => a = b
             /\ \A i \in 1..n : classes[i].Count # 0 => \E a \in 1..k : those[a] = i
      BY SeenIs
    <3>2. PICK those \in [1..k -> {i \in 1..n : classes[i].Count # 0}] :
             Seen(classes) = [m \in 1..k |-> classes[those[m]]]
      BY <3>1
    <3>3. ASSUME NEW m \in 1..k PROVE spread.Classes[m].AtMost \in Edges
      <4>1. those[m] \in Buckets /\ spread.Classes[m] = classes[those[m]]
        BY <2>5, <3>2
      <4> QED
        BY <2>5, <4>1, SMTT(40) DEF Edges
    <3>4. DOMAIN spread.Classes = 1..k
      BY <2>5, <3>2
    <3>5. ASSUME NEW class \in Range(spread.Classes) PROVE class.AtMost \in Edges
      BY <3>3, <3>4 DEF Range
    <3> QED
      BY <3>5
  <2> QED
    BY <2>6, <2>7, <2>8
<1> QED
  BY <1>1, <1>2 DEF Sized

LEMMA SumMore ==
    ASSUME NEW n \in Nat, NEW f \in [1..n -> Nat], NEW d \in Nat,
           NEW g, DOMAIN g = 1..(n + 1), g = [i \in DOMAIN g |-> g[i]],
           \A i \in 1..n : g[i] = f[i], g[n + 1] = d
    PROVE  SumFunction(g) = SumFunction(f) + d
<1>1. \A i \in 1..(n + 1) : g[i] \in Nat
  <2> SUFFICES ASSUME NEW i \in 1..(n + 1) PROVE g[i] \in Nat
    OBVIOUS
  <2>1. i \in 1..n \/ i = n + 1
    OBVIOUS
  <2> QED
    BY <2>1
<1>2. g \in [1..(n + 1) -> Nat]
  BY <1>1
<1> QED
  BY <1>2, SumAppend

\* The greater of two numbers.
LEMMA Greater ==
    ASSUME NEW a \in Int, NEW b \in Int
    PROVE  Max({a, b}) = IF a >= b THEN a ELSE b
  BY DEF Max

\* What was recorded under a name by some tick.
Entries(all, t) ==
    /\ all \in Seq(Entry)
    /\ \A i \in DOMAIN all : Measured(all[i].change, t) /\ Sized(all[i].spread, t)

\* An account's sums are those of what was recorded, and so are its sizes.
SumsUp(cost, all) ==
    /\ cost.Times = Len(all)
    /\ \A c \in Counters : cost.Spent[c] = SumFunction([i \in DOMAIN all |-> all[i].change.Spent[c]])
    /\ cost.CPUSeconds = SumFunction([i \in DOMAIN all |-> all[i].change.CPUSeconds])
    /\ cost.Duration = SumFunction([i \in DOMAIN all |-> all[i].change.Duration])
    /\ IF all = <<>> THEN cost.Longest = 0 ELSE \E i \in DOMAIN all : cost.Longest = all[i].change.Duration
    /\ \A i \in DOMAIN all : all[i].change.Duration <= cost.Longest

SizesSumUp(classes, all) ==
    /\ classes \in [DOMAIN classes -> Nat] /\ DOMAIN classes \subseteq Edges
    /\ \A i \in Buckets : At(classes, Edge(i), 0)
                            = SumFunction([n \in DOMAIN all |-> CountAt(all[n].spread, Edge(i))])

AccountInv ==
    /\ DOMAIN totals \subseteq names \cup {Other}
    /\ DOMAIN sizes \subseteq DOMAIN totals
    /\ \A key \in DOMAIN totals :
         /\ Entries(recorded[key], now) /\ recorded[key] # <<>>
         /\ SumsUp(totals[key], recorded[key])
         /\ SizesSumUp(At(sizes, key, <<>>), recorded[key])

\* What was read by some tick was read by every later one.
LEMMA Later ==
    ASSUME NEW t \in Nat, NEW u \in Nat, t <= u
    PROVE  /\ \A change : Measured(change, t) => Measured(change, u)
           /\ \A spread : Sized(spread, t) => Sized(spread, u)
           /\ \A all : Entries(all, t) => Entries(all, u)
<1>1. 0..t \subseteq 0..u /\ \A s \in 0..t : s..t \subseteq s..u
  OBVIOUS
<1>2. \A change : Measured(change, t) => Measured(change, u)
  BY <1>1 DEF Measured
<1>3. \A spread : Sized(spread, t) => Sized(spread, u)
  BY <1>1 DEF Sized
<1> QED
  BY <1>2, <1>3 DEF Entries

\* The members of a sequence with one more.
LEMMA Appended ==
    ASSUME NEW S, NEW all \in Seq(S), NEW entry \in S
    PROVE  /\ Append(all, entry) \in Seq(S) /\ Len(all) \in Nat
           /\ DOMAIN all = 1..Len(all) /\ DOMAIN Append(all, entry) = 1..(Len(all) + 1)
           /\ Len(Append(all, entry)) = Len(all) + 1 /\ Append(all, entry) # <<>>
           /\ Append(all, entry)[Len(all) + 1] = entry
           /\ \A i \in 1..Len(all) : Append(all, entry)[i] = all[i]
  OBVIOUS

\* One more run is summed into its account.
LEMMA SumsUpMore ==
    ASSUME NEW t \in 0..Limit, NEW all, Entries(all, t), NEW cost, SumsUp(cost, all),
           NEW entry \in Entry, Measured(entry.change, t)
    PROVE  SumsUp(summed(cost, entry.change), Append(all, entry))
<1>0. all \in Seq(Entry)
  BY DEF Entries
<1>1. PICK n \in Nat, more \in Seq(Entry) :
        /\ n = Len(all) /\ more = Append(all, entry) /\ DOMAIN all = 1..n /\ DOMAIN more = 1..(n + 1)
        /\ Len(more) = n + 1 /\ more # <<>> /\ more[n + 1] = entry /\ \A i \in 1..n : more[i] = all[i]
  <2>1. PICK n \in Nat : n = Len(all) /\ DOMAIN all = 1..n
    BY <1>0, Appended
  <2>2. PICK more \in Seq(Entry) : more = Append(all, entry)
    BY <1>0, Appended
  <2>3. /\ DOMAIN more = 1..(n + 1) /\ Len(more) = n + 1 /\ more # <<>> /\ more[n + 1] = entry
        /\ \A i \in 1..n : more[i] = all[i]
    BY <1>0, <2>1, <2>2, Appended
  <2> QED
    BY <2>1, <2>2, <2>3
<1>2. PICK change : change = entry.change
  OBVIOUS
<1>3. /\ \A c \in Counters : change.Spent[c] \in Nat
      /\ change.CPUSeconds \in Nat /\ change.Duration \in Nat
  BY <1>2, MeasuredType
<1>4. ASSUME NEW i \in 1..n
      PROVE  /\ \A c \in Counters : all[i].change.Spent[c] \in Nat
             /\ all[i].change.CPUSeconds \in Nat /\ all[i].change.Duration \in Nat
  BY <1>1, MeasuredType DEF Entries
<1>5. PICK new : new = summed(cost, change)
  OBVIOUS
<1>6. /\ new.Times = cost.Times + 1
      /\ \A c \in Counters : new.Spent[c] = cost.Spent[c] + change.Spent[c]
      /\ new.CPUSeconds = cost.CPUSeconds + change.CPUSeconds
      /\ new.Duration = cost.Duration + change.Duration
      /\ new.Longest = Max({change.Duration, cost.Longest})
  BY <1>5 DEF summed
<1>7. ASSUME NEW c \in Counters
      PROVE  new.Spent[c] = SumFunction([i \in DOMAIN more |-> more[i].change.Spent[c]])
  <2>1. PICK f : f = [i \in 1..n |-> all[i].change.Spent[c]]
    OBVIOUS
  <2>2. PICK g : g = [i \in 1..(n + 1) |-> more[i].change.Spent[c]]
    OBVIOUS
  <2>3. \A i \in 1..n : g[i] = f[i]
    BY <1>1, <2>1, <2>2
  <2>4. g[n + 1] = change.Spent[c]
    BY <1>1, <1>2, <2>2
  <2>5. f \in [1..n -> Nat]
    <3>1. \A i \in 1..n : all[i].change.Spent[c] \in Nat
      BY <1>4
    <3> QED
      BY <2>1, <3>1
  <2>6. SumFunction(g) = SumFunction(f) + change.Spent[c]
    BY <1>3, <2>2, <2>3, <2>4, <2>5, SumMore
  <2>7. cost.Spent[c] = SumFunction(f)
    BY <1>1, <2>1 DEF SumsUp
  <2> QED
    BY <1>1, <1>6, <2>2, <2>6, <2>7
<1>8. new.CPUSeconds = SumFunction([i \in DOMAIN more |-> more[i].change.CPUSeconds])
  <2>1. PICK f : f = [i \in 1..n |-> all[i].change.CPUSeconds]
    OBVIOUS
  <2>2. PICK g : g = [i \in 1..(n + 1) |-> more[i].change.CPUSeconds]
    OBVIOUS
  <2>3. \A i \in 1..n : g[i] = f[i]
    BY <1>1, <2>1, <2>2
  <2>4. g[n + 1] = change.CPUSeconds
    BY <1>1, <1>2, <2>2
  <2>5. f \in [1..n -> Nat]
    <3>1. \A i \in 1..n : all[i].change.CPUSeconds \in Nat
      BY <1>4
    <3> QED
      BY <2>1, <3>1
  <2>6. SumFunction(g) = SumFunction(f) + change.CPUSeconds
    BY <1>3, <2>2, <2>3, <2>4, <2>5, SumMore
  <2>7. cost.CPUSeconds = SumFunction(f)
    BY <1>1, <2>1 DEF SumsUp
  <2> QED
    BY <1>1, <1>6, <2>2, <2>6, <2>7
<1>9. new.Duration = SumFunction([i \in DOMAIN more |-> more[i].change.Duration])
  <2>1. PICK f : f = [i \in 1..n |-> all[i].change.Duration]
    OBVIOUS
  <2>2. PICK g : g = [i \in 1..(n + 1) |-> more[i].change.Duration]
    OBVIOUS
  <2>3. \A i \in 1..n : g[i] = f[i]
    BY <1>1, <2>1, <2>2
  <2>4. g[n + 1] = change.Duration
    BY <1>1, <1>2, <2>2
  <2>5. f \in [1..n -> Nat]
    <3>1. \A i \in 1..n : all[i].change.Duration \in Nat
      BY <1>4
    <3> QED
      BY <2>1, <3>1
  <2>6. SumFunction(g) = SumFunction(f) + change.Duration
    BY <1>3, <2>2, <2>3, <2>4, <2>5, SumMore
  <2>7. cost.Duration = SumFunction(f)
    BY <1>1, <2>1 DEF SumsUp
  <2> QED
    BY <1>1, <1>6, <2>2, <2>6, <2>7
<1>10. cost.Longest \in Nat /\ (all = <<>> \/ \E i \in 1..n : cost.Longest = all[i].change.Duration)
  BY <1>1, <1>4 DEF SumsUp
<1>11. /\ change.Duration <= new.Longest /\ cost.Longest <= new.Longest
       /\ new.Longest = change.Duration \/ (all # <<>> /\ new.Longest = cost.Longest)
  <2>1. CASE change.Duration >= cost.Longest
    <3>1. new.Longest = change.Duration
      BY <1>3, <1>6, <1>10, <2>1, Greater
    <3> QED
      BY <1>3, <1>10, <2>1, <3>1
  <2>2. CASE change.Duration < cost.Longest
    <3>1. new.Longest = cost.Longest
      BY <1>3, <1>6, <1>10, <2>2, Greater
    <3>2. all # <<>>
      BY <1>3, <2>2 DEF SumsUp
    <3> QED
      BY <1>3, <1>10, <2>2, <3>1, <3>2
  <2> QED
    BY <1>3, <1>10, <2>1, <2>2
<1>12. \E i \in DOMAIN more : new.Longest = more[i].change.Duration
  <2>1. CASE new.Longest = change.Duration
    <3>1. n + 1 \in DOMAIN more /\ more[n + 1].change.Duration = change.Duration
      BY <1>1, <1>2
    <3> QED
      BY <2>1, <3>1
  <2>2. CASE all # <<>> /\ new.Longest = cost.Longest
    <3>1. PICK i \in 1..n : cost.Longest = all[i].change.Duration
      BY <1>10, <2>2
    <3>2. i \in DOMAIN more /\ more[i] = all[i]
      BY <1>1
    <3> QED
      BY <2>2, <3>1, <3>2
  <2> QED
    BY <1>11, <2>1, <2>2
<1>13. ASSUME NEW i \in DOMAIN more PROVE more[i].change.Duration <= new.Longest
  <2>1. CASE i = n + 1
    BY <1>1, <1>2, <1>11, <2>1
  <2>2. CASE i # n + 1
    <3>1. i \in 1..n /\ i \in DOMAIN all /\ more[i] = all[i]
      BY <1>1, <2>2
    <3>2. all[i].change.Duration <= cost.Longest /\ all[i].change.Duration \in Nat
      BY <1>4, <3>1 DEF SumsUp
    <3>3. new.Longest \in Nat
      BY <1>3, <1>10, <1>11
    <3> QED
      BY <1>10, <1>11, <3>1, <3>2, <3>3
  <2> QED
    BY <2>1, <2>2
<1>14. new.Times = Len(more)
  BY <1>1, <1>6 DEF SumsUp
<1>15. SumsUp(new, more)
  BY <1>1, <1>7, <1>8, <1>9, <1>12, <1>13, <1>14 DEF SumsUp
<1> QED
  BY <1>1, <1>2, <1>5, <1>15

\* What one more run allocated of a size is added to what its account did.
LEMMA SizesSumMore ==
    ASSUME NEW t \in 0..Limit, NEW all, Entries(all, t), NEW classes, SizesSumUp(classes, all),
           NEW entry \in Entry, Sized(entry.spread, t), NEW i \in Buckets
    PROVE  SumFunction([n \in DOMAIN Append(all, entry) |-> CountAt(Append(all, entry)[n].spread, Edge(i))])
             = At(classes, Edge(i), 0) + CountAt(entry.spread, Edge(i))
<1>0. all \in Seq(Entry)
  BY DEF Entries
<1>1. PICK n \in Nat, more \in Seq(Entry) :
        /\ n = Len(all) /\ more = Append(all, entry) /\ DOMAIN all = 1..n /\ DOMAIN more = 1..(n + 1)
        /\ more[n + 1] = entry /\ \A k \in 1..n : more[k] = all[k]
  <2>1. PICK n \in Nat : n = Len(all) /\ DOMAIN all = 1..n
    BY <1>0, Appended
  <2>2. PICK more \in Seq(Entry) : more = Append(all, entry)
    BY <1>0, Appended
  <2>3. DOMAIN more = 1..(n + 1) /\ more[n + 1] = entry /\ \A k \in 1..n : more[k] = all[k]
    BY <1>0, <2>1, <2>2, Appended
  <2> QED
    BY <2>1, <2>2, <2>3
<1>2. PICK e : e = Edge(i)
  OBVIOUS
<1>3. CountAt(entry.spread, e) \in Nat
  BY <1>2, SizedType
<1>4. \A k \in 1..n : CountAt(all[k].spread, e) \in Nat
  BY <1>1, <1>2, SizedType DEF Entries
<1>5. PICK f : f = [k \in 1..n |-> CountAt(all[k].spread, e)]
  OBVIOUS
<1>6. PICK g : g = [k \in 1..(n + 1) |-> CountAt(more[k].spread, e)]
  OBVIOUS
<1>7. (\A k \in 1..n : g[k] = f[k]) /\ g[n + 1] = CountAt(entry.spread, e)
  BY <1>1, <1>5, <1>6
<1>8. f \in [1..n -> Nat]
  BY <1>4, <1>5
<1>9. SumFunction(g) = SumFunction(f) + CountAt(entry.spread, e)
  BY <1>3, <1>6, <1>7, <1>8, SumMore
<1>10. At(classes, e, 0) = SumFunction(f)
  BY <1>1, <1>2, <1>5 DEF SizesSumUp
<1> QED
  BY <1>1, <1>2, <1>6, <1>9, <1>10

\* An account's sizes with those of one more run.
LEMMA SizesSumUpMore ==
    ASSUME NEW t \in 0..Limit, NEW all, Entries(all, t), NEW classes, SizesSumUp(classes, all),
           NEW entry \in Entry, Sized(entry.spread, t)
    PROVE  /\ SizesSumUp(merged(classes, entry.spread), Append(all, entry))
           /\ entry.spread.Total = 0 => SizesSumUp(classes, Append(all, entry))
<1>1. PICK spread, more : spread = entry.spread /\ more = Append(all, entry)
  OBVIOUS
<1>2. ASSUME NEW i \in Buckets
      PROVE  /\ CountAt(spread, Edge(i)) \in Nat /\ (spread.Total = 0 => CountAt(spread, Edge(i)) = 0)
             /\ At(classes, Edge(i), 0) \in Nat
             /\ SumFunction([n \in DOMAIN more |-> CountAt(more[n].spread, Edge(i))])
                  = At(classes, Edge(i), 0) + CountAt(spread, Edge(i))
  <2>1. CountAt(spread, Edge(i)) \in Nat /\ (spread.Total = 0 => CountAt(spread, Edge(i)) = 0)
    BY <1>1, SizedType
  <2>2. At(classes, Edge(i), 0) \in Nat
    BY DEF SizesSumUp, At
  <2> QED
    BY <1>1, <2>1, <2>2, SizesSumMore
<1>3. ASSUME spread.Total = 0 PROVE SizesSumUp(classes, more)
  <2>1. ASSUME NEW i \in Buckets
        PROVE  At(classes, Edge(i), 0) = SumFunction([n \in DOMAIN more |-> CountAt(more[n].spread, Edge(i))])
    BY <1>2, <1>3
  <2> QED
    BY <2>1 DEF SizesSumUp
<1>4. PICK new : new = merged(classes, spread)
  OBVIOUS
<1>5. DOMAIN new = DOMAIN classes \cup {class.AtMost : class \in Range(spread.Classes)}
  BY <1>4 DEF merged
<1>6. DOMAIN new \subseteq Edges
  BY <1>1, <1>5, SizedType DEF SizesSumUp
<1>7. \A edge \in DOMAIN new : new[edge] = At(classes, edge, 0) + CountAt(spread, edge)
  BY <1>4, <1>5 DEF merged
<1>8. \A edge \in Edges : \E i \in Buckets : edge = Edge(i)
  BY DEF Edges, Edge
<1>9. ASSUME NEW edge \in DOMAIN new PROVE new[edge] \in Nat
  <2>1. PICK i \in Buckets : edge = Edge(i)
    BY <1>6, <1>8
  <2>2. PICK a \in Nat, b \in Nat : a = At(classes, edge, 0) /\ b = CountAt(spread, edge)
    BY <1>2, <2>1
  <2>3. new[edge] = a + b
    BY <1>7, <2>2
  <2> QED
    BY <2>3
<1>10. new = [edge \in DOMAIN new |-> new[edge]]
  BY <1>4 DEF merged
<1>11. new \in [DOMAIN new -> Nat]
  BY <1>9, <1>10
<1>12. ASSUME NEW i \in Buckets
       PROVE  At(new, Edge(i), 0) = At(classes, Edge(i), 0) + CountAt(spread, Edge(i))
  <2>1. CASE Edge(i) \in DOMAIN new
    BY <1>7, <2>1 DEF At
  <2>2. CASE Edge(i) \notin DOMAIN new
    <3>1. At(new, Edge(i), 0) = 0 /\ At(classes, Edge(i), 0) = 0
      BY <1>5, <2>2 DEF At
    <3>2. CountAt(spread, Edge(i)) = 0
      <4>1. PICK D, g : /\ D = {m \in DOMAIN spread.Classes : spread.Classes[m].AtMost = Edge(i)}
                        /\ g = [m \in D |-> spread.Classes[m].Count]
        OBVIOUS
      <4>2. \A m \in DOMAIN spread.Classes : spread.Classes[m] \in Range(spread.Classes)
        BY DEF Range
      <4>3. D = {}
        BY <1>5, <2>2, <4>1, <4>2
      <4>4. g \in [D -> Nat]
        BY <4>1, <4>3
      <4>5. SumFunction(g) = 0
        BY <4>3, <4>4, SumOfOne
      <4> QED
        BY <4>1, <4>5 DEF CountAt, CountWhere
    <3> QED
      BY <3>1, <3>2
  <2> QED
    BY <2>1, <2>2
<1>13. ASSUME NEW i \in Buckets
       PROVE  At(new, Edge(i), 0) = SumFunction([n \in DOMAIN more |-> CountAt(more[n].spread, Edge(i))])
  BY <1>2, <1>12
<1>14. SizesSumUp(new, more)
  BY <1>6, <1>11, <1>13 DEF SizesSumUp
<1> QED
  BY <1>1, <1>3, <1>4, <1>14

\* Nothing adds up to nothing.
LEMMA NothingSumsUp == SumsUp(NoCost, <<>>) /\ SizesSumUp(<<>>, <<>>)
<1>0. DOMAIN <<>> = {} /\ Len(<<>>) = 0
  OBVIOUS
<1>5. PICK none : none = {}
  OBVIOUS
<1>1. none = {} /\ DOMAIN <<>> = none /\ Len(<<>>) = 0
  BY <1>0, <1>5
<1>2. ASSUME NEW g, DOMAIN g = none, g = [i \in DOMAIN g |-> g[i]] PROVE SumFunction(g) = 0
  <2>1. g \in [none -> Nat]
    BY <1>1, <1>2
  <2> QED
    BY <1>1, <2>1, SumOfOne
<1>3. SumsUp(NoCost, <<>>)
  <2>1. ASSUME NEW c \in Counters
        PROVE  NoCost.Spent[c] = SumFunction([i \in DOMAIN <<>> |-> <<>>[i].change.Spent[c]])
    BY <1>1, <1>2 DEF NoCost
  <2>2. NoCost.CPUSeconds = SumFunction([i \in DOMAIN <<>> |-> <<>>[i].change.CPUSeconds])
    BY <1>1, <1>2 DEF NoCost
  <2>3. NoCost.Duration = SumFunction([i \in DOMAIN <<>> |-> <<>>[i].change.Duration])
    BY <1>1, <1>2 DEF NoCost
  <2>4. NoCost.Times = 0 /\ NoCost.Longest = 0
    BY DEF NoCost
  <2> QED
    BY <1>1, <2>1, <2>2, <2>3, <2>4 DEF SumsUp
<1>4. SizesSumUp(<<>>, <<>>)
  <2>1. ASSUME NEW i \in Buckets
        PROVE  At(<<>>, Edge(i), 0) = SumFunction([n \in DOMAIN <<>> |-> CountAt(<<>>[n].spread, Edge(i))])
    BY <1>1, <1>2 DEF At
  <2>2. <<>> \in [DOMAIN <<>> -> Nat] /\ DOMAIN <<>> \subseteq Edges
    BY <1>1
  <2> QED
    BY <2>1, <2>2 DEF SizesSumUp
<1> QED
  BY <1>3, <1>4

\* One more entry.
LEMMA EntriesMore ==
    ASSUME NEW t, NEW all, Entries(all, t), NEW entry \in Entry,
           Measured(entry.change, t), Sized(entry.spread, t)
    PROVE  Entries(Append(all, entry), t) /\ Append(all, entry) # <<>>
<1>1. all \in Seq(Entry)
  BY DEF Entries
<1>4. PICK more \in Seq(Entry) : more = Append(all, entry)
  BY <1>1, Appended
<1>2. /\ more # <<>> /\ DOMAIN all = 1..Len(all) /\ Len(all) \in Nat
      /\ DOMAIN more = 1..(Len(all) + 1) /\ more[Len(all) + 1] = entry
      /\ \A i \in 1..Len(all) : more[i] = all[i]
  BY <1>1, <1>4, Appended
<1>3. ASSUME NEW i \in DOMAIN more PROVE Measured(more[i].change, t) /\ Sized(more[i].spread, t)
  <2>1. CASE i = Len(all) + 1
    BY <1>2, <2>1
  <2>2. CASE i # Len(all) + 1
    <3>1. i \in DOMAIN all /\ more[i] = all[i]
      BY <1>2, <2>2
    <3> QED
      BY <3>1 DEF Entries
  <2> QED
    BY <2>1, <2>2
<1> QED
  BY <1>2, <1>3, <1>4 DEF Entries

\* Every step hands on what was read in order.
LEMMA TakenStep == IInv /\ LedgerInv /\ TakenInv /\ [Next]_vars => TakenInv'
<1> SUFFICES ASSUME IInv, LedgerInv, TakenInv, [Next]_vars PROVE TakenInv'
  OBVIOUS
<1>1. /\ now \in 0..Limit /\ now \in Nat /\ mode' = mode
      /\ \A r \in Runners : InPast(run[r], now, mode.keepsSizes)
  <2>1. now \in 0..Limit /\ now \in Nat
    BY LimitType DEF IInv, TypeOK
  <2>2. mode' = mode
    BY DEF Next, Work, SpanStarted, SpanEnded, ReadBefore, ReadSizesBefore,
       ReadAfter, ReadSizesAfter, Record, Goto, Accounts, vars
  <2> QED
    BY <2>1, <2>2 DEF LedgerInv
<1>2. \A r \in Runners : Taken(run[r], now, mode.keepsSizes)
  BY DEF TakenInv
<1>3. CASE UNCHANGED vars
  BY <1>3 DEF vars, TakenInv
<1>4. CASE Work
  <2>1. now' = now + 1 /\ now' \in Nat /\ run' = run
    BY <1>1, <1>4 DEF Work
  <2>2. ASSUME NEW r \in Runners PROVE Taken(run[r], now', mode.keepsSizes)
    BY <1>1, <1>2, <2>1, Later DEF Taken
  <2> QED
    BY <1>1, <2>1, <2>2 DEF TakenInv
<1>5. ASSUME NEW r \in Runners, NEW value, run' = [run EXCEPT ![r] = value], now' = now,
             Taken(value, now, mode.keepsSizes)
      PROVE  TakenInv'
  <2>1. run'[r] = value /\ \A q \in Runners \ {r} : run'[q] = run[q]
    BY <1>5 DEF IInv, TypeOK
  <2>2. ASSUME NEW q \in Runners PROVE Taken(run'[q], now, mode.keepsSizes)
    BY <1>2, <1>5, <2>1
  <2> QED
    BY <1>1, <1>5, <2>2 DEF TakenInv
<1>6. ASSUME NEW value, value.stage \in {"idle", "opened", "running", "closing"}
      PROVE  Taken(value, now, mode.keepsSizes)
  BY <1>6 DEF Taken
<1>7. CASE \E r \in Runners : SpanStarted(r) \/ SpanEnded(r) \/ Record(r)
  <2>1. PICK r \in Runners : SpanStarted(r) \/ SpanEnded(r) \/ Record(r)
    BY <1>7
  <2>2. Idle.stage = "idle"
    BY DEF Idle
  <2>3. PICK value : /\ run' = [run EXCEPT ![r] = value] /\ now' = now
                     /\ value.stage \in {"idle", "opened", "closing"}
    <3>1. CASE SpanStarted(r)
      BY <3>1 DEF SpanStarted, Accounts
    <3>2. CASE SpanEnded(r)
      BY <2>2, <3>2 DEF SpanEnded, Accounts
    <3>3. CASE Record(r) /\ mode.measured
      <4>1. PICK value : value = [stage |-> "closing", span |-> run[r].span]
        OBVIOUS
      <4>2. run' = [run EXCEPT ![r] = value] /\ now' = now /\ value.stage = "closing"
        BY <3>3, <4>1 DEF Record
      <4> QED
        BY <4>2
    <3>4. CASE Record(r) /\ ~mode.measured
      <4>1. run' = [run EXCEPT ![r] = Idle] /\ now' = now
        BY <3>4 DEF Record
      <4> QED
        BY <2>2, <4>1
    <3> QED
      BY <2>1, <3>1, <3>2, <3>3, <3>4
  <2>4. Taken(value, now, mode.keepsSizes)
    BY <1>6, <2>3
  <2> QED
    BY <1>5, <2>3, <2>4
<1>8. CASE \E r \in Runners : ReadBefore(r)
  <2>1. PICK r \in Runners : ReadBefore(r)
    BY <1>8
  <2>4. PICK name : Goto(r, [stage |-> IF mode.keepsSizes THEN "begun" ELSE "running", name |-> name,
                             before |-> Read, sizesBefore |-> NotRead,
                             span |-> IF mode.measured THEN run[r].span ELSE 0])
    BY <2>1 DEF ReadBefore
  <2>5. PICK value : value = [stage |-> IF mode.keepsSizes THEN "begun" ELSE "running", name |-> name,
                              before |-> Read, sizesBefore |-> NotRead,
                              span |-> IF mode.measured THEN run[r].span ELSE 0]
    OBVIOUS
  <2>2. /\ run' = [run EXCEPT ![r] = value] /\ now' = now
        /\ value.stage = IF mode.keepsSizes THEN "begun" ELSE "running"
    BY <2>4, <2>5 DEF Goto, Accounts
  <2>3. Taken(value, now, mode.keepsSizes)
    BY <2>2 DEF Taken
  <2> QED
    BY <1>5, <2>2, <2>3
<1>9. CASE \E r \in Runners : ReadSizesBefore(r)
  <2>1. PICK r \in Runners : ReadSizesBefore(r)
    BY <1>9
  <2>2. run[r] \in Running
    BY <2>1, StageTells DEF IInv, ReadSizesBefore
  <2>3. PICK value : value = [run[r] EXCEPT !.stage = "running", !.sizesBefore = ReadSizes]
    OBVIOUS
  <2>4. value.stage = "running" /\ run' = [run EXCEPT ![r] = value] /\ now' = now
    BY <2>1, <2>2, <2>3 DEF ReadSizesBefore, Goto, Accounts, Running
  <2>5. Taken(value, now, mode.keepsSizes)
    BY <1>6, <2>4
  <2> QED
    BY <1>5, <2>4, <2>5
<1>10. CASE \E r \in Runners : ReadAfter(r)
  <2>1. PICK r \in Runners : ReadAfter(r)
    BY <1>10
  <2>2. run[r].stage = "running"
    BY <2>1 DEF ReadAfter
  <2>3. PICK s \in 0..now : run[r].before = ReadAt[s]
    BY <1>1, <2>2 DEF InPast
  <2>4. PICK value :
          /\ run' = [run EXCEPT ![r] = value] /\ now' = now
          /\ value = [stage |-> IF mode.keepsSizes THEN "ended" ELSE "recording",
                      name |-> run[r].name, sizesBefore |-> run[r].sizesBefore,
                      change |-> Diff(run[r].before, Read), spread |-> NoSpread, span |-> run[r].span]
    BY <2>1 DEF ReadAfter, Goto, Accounts
  <2>5. /\ value.stage = IF mode.keepsSizes THEN "ended" ELSE "recording"
        /\ value.change = Diff(ReadAt[s], ReadAt[now]) /\ value.spread = NoSpread
    BY <2>3, <2>4 DEF Read
  <2>6. now \in s..now
    BY <1>1
  <2>7. Measured(value.change, now)
    BY <2>5, <2>6 DEF Measured
  <2>8. Taken(value, now, mode.keepsSizes)
    BY <2>5, <2>7 DEF Taken, Sized
  <2> QED
    BY <1>5, <2>4, <2>8
<1>11. CASE \E r \in Runners : ReadSizesAfter(r)
  <2>1. PICK r \in Runners : ReadSizesAfter(r)
    BY <1>11
  <2>2. run[r].stage = "ended" /\ run[r] \in Ended
    BY <2>1, StageTells DEF IInv, ReadSizesAfter
  <2>3. mode.keepsSizes /\ Measured(run[r].change, now)
    BY <1>2, <2>2 DEF Taken
  <2>4. PICK s \in 0..now : run[r].sizesBefore = ReadSizesAt[s]
    BY <1>1, <2>2, <2>3 DEF InPast
  <2>5. PICK value : value = [run[r] EXCEPT !.stage = "recording",
                                            !.spread = DiffSizes(run[r].sizesBefore, ReadSizes)]
    OBVIOUS
  <2>6. run' = [run EXCEPT ![r] = value] /\ now' = now
    BY <2>1, <2>5 DEF ReadSizesAfter, Goto, Accounts
  <2>7. value.stage = "recording" /\ value.change = run[r].change
    BY <2>2, <2>5 DEF Ended
  <2>8. value.spread = DiffSizes(ReadSizesAt[s], ReadSizesAt[now])
    BY <2>2, <2>4, <2>5 DEF Ended, ReadSizes
  <2>9. now \in s..now
    BY <1>1
  <2>10. Sized(value.spread, now)
    BY <2>8, <2>9 DEF Sized
  <2>11. Taken(value, now, mode.keepsSizes)
    BY <2>3, <2>7, <2>10 DEF Taken
  <2> QED
    BY <1>5, <2>6, <2>11
<1> QED
  BY <1>3, <1>4, <1>7, <1>8, <1>9, <1>10, <1>11 DEF Next

\* What is recorded goes to one account, and every account sums what went to it.
LEMMA RecordAccount ==
    ASSUME IInv, RingInv, TakenInv, AccountInv, NEW r \in Runners, Record(r) PROVE AccountInv'
<1>1. PICK key, entry : /\ key = keyFor(run[r].name)
                        /\ entry = [change |-> run[r].change, spread |-> run[r].spread]
  OBVIOUS
<1>2. now' = now /\ now \in 0..Limit /\ run[r].stage = "recording"
  BY DEF Record, IInv, TypeOK
<1>3. /\ totals' = With(totals, key, summed(At(totals, key, NoCost), entry.change))
      /\ recorded' = With(recorded, key, Append(At(recorded, key, <<>>), entry))
  BY <1>1 DEF Record
<1>4. sizes' = IF ~mode.keepsSizes \/ entry.spread.Total = 0 THEN sizes
               ELSE With(sizes, key, merged(At(sizes, key, <<>>), entry.spread))
  BY <1>1 DEF Record
<1>5. entry \in Entry
  <2>1. run[r] \in Ended
    BY <1>2, StageTells DEF IInv
  <2> QED
    BY <1>1, <2>1 DEF Ended, Entry
<1>6. /\ Measured(entry.change, now) /\ Sized(entry.spread, now)
      /\ ~mode.keepsSizes => entry.spread.Total = 0
  <2>1. NoSpread.Total = 0
    BY DEF NoSpread
  <2> QED
    BY <1>1, <1>2, <2>1 DEF TakenInv, Taken
<1>7. key \in names \cup {Other}
  BY <1>1 DEF keyFor
<1>8. PICK all : all = At(recorded, key, <<>>)
  OBVIOUS
<1>9. Entries(all, now)
  <2>1. CASE key \in DOMAIN totals
    BY <1>8, <2>1 DEF AccountInv, RingInv, At
  <2>2. CASE key \notin DOMAIN totals
    <3>1. all = <<>>
      BY <1>8, <2>2 DEF RingInv, At
    <3> QED
      BY <3>1 DEF Entries
  <2> QED
    BY <2>1, <2>2
<1>10. SumsUp(At(totals, key, NoCost), all)
  <2>1. CASE key \in DOMAIN totals
    BY <1>8, <2>1 DEF AccountInv, RingInv, At
  <2>2. CASE key \notin DOMAIN totals
    <3>1. all = <<>> /\ At(totals, key, NoCost) = NoCost
      BY <1>8, <2>2 DEF RingInv, At
    <3> QED
      BY <3>1, NothingSumsUp
  <2> QED
    BY <2>1, <2>2
<1>11. SizesSumUp(At(sizes, key, <<>>), all)
  <2>1. CASE key \in DOMAIN totals
    BY <1>8, <2>1 DEF AccountInv, RingInv, At
  <2>2. CASE key \notin DOMAIN totals
    <3>1. all = <<>> /\ At(sizes, key, <<>>) = <<>>
      BY <1>8, <2>2 DEF RingInv, AccountInv, At
    <3> QED
      BY <3>1, NothingSumsUp
  <2> QED
    BY <2>1, <2>2
<1>12. PICK more : more = Append(all, entry) /\ Entries(more, now) /\ more # <<>>
  BY <1>5, <1>6, <1>9, EntriesMore
<1>13. SumsUp(summed(At(totals, key, NoCost), entry.change), more)
  BY <1>2, <1>5, <1>6, <1>9, <1>10, <1>12, SumsUpMore
<1>14. /\ SizesSumUp(merged(At(sizes, key, <<>>), entry.spread), more)
       /\ entry.spread.Total = 0 => SizesSumUp(At(sizes, key, <<>>), more)
  BY <1>2, <1>5, <1>6, <1>9, <1>11, <1>12, SizesSumUpMore
<1>15. /\ DOMAIN totals' = DOMAIN totals \cup {key}
       /\ totals'[key] = summed(At(totals, key, NoCost), entry.change)
       /\ \A k \in DOMAIN totals \ {key} : totals'[k] = totals[k]
  BY <1>3 DEF With
<1>16. /\ recorded'[key] = more /\ \A k \in DOMAIN totals \ {key} : recorded'[k] = recorded[k]
  BY <1>3, <1>8, <1>12 DEF With, RingInv
<1>17. SizesSumUp(At(sizes', key, <<>>), more)
  <2>1. CASE ~mode.keepsSizes \/ entry.spread.Total = 0
    BY <1>4, <1>6, <1>14, <2>1
  <2>2. CASE ~(~mode.keepsSizes \/ entry.spread.Total = 0)
    <3>1. At(sizes', key, <<>>) = merged(At(sizes, key, <<>>), entry.spread)
      BY <1>4, <2>2 DEF With, At
    <3> QED
      BY <1>14, <3>1
  <2> QED
    BY <2>1, <2>2
<1>18. \A k \in DOMAIN totals \ {key} : At(sizes', k, <<>>) = At(sizes, k, <<>>)
  BY <1>4 DEF With, At
<1>19. DOMAIN sizes' \subseteq DOMAIN totals'
  BY <1>4, <1>15 DEF With, AccountInv
<1>20. ASSUME NEW k \in DOMAIN totals'
       PROVE  /\ Entries(recorded'[k], now) /\ recorded'[k] # <<>>
              /\ SumsUp(totals'[k], recorded'[k])
              /\ SizesSumUp(At(sizes', k, <<>>), recorded'[k])
  <2>1. CASE k = key
    BY <1>12, <1>13, <1>15, <1>16, <1>17, <2>1
  <2>2. CASE k # key
    <3>1. k \in DOMAIN totals \ {key}
      BY <1>15, <2>2
    <3> QED
      BY <1>15, <1>16, <1>18, <3>1 DEF AccountInv
  <2> QED
    BY <2>1, <2>2
<1>21. DOMAIN totals' \subseteq names \cup {Other}
  BY <1>7, <1>15 DEF AccountInv
<1> QED
  BY <1>2, <1>19, <1>20, <1>21 DEF AccountInv

\* Every step keeps the accounts.
LEMMA AccountStep ==
    IInv /\ RingInv /\ TakenInv /\ AccountInv /\ [Next]_vars => AccountInv'
<1> SUFFICES ASSUME IInv, RingInv, TakenInv, AccountInv, [Next]_vars PROVE AccountInv'
  OBVIOUS
<1>1. CASE \E r \in Runners : Record(r)
  BY <1>1, RecordAccount
<1>2. CASE UNCHANGED <<totals, sizes, recorded, now>>
  BY <1>2 DEF AccountInv
<1>3. CASE Work
  <2>1. now \in Nat /\ now' \in Nat /\ now <= now' /\ UNCHANGED <<totals, sizes, recorded>>
    BY <1>3, LimitType DEF Work, IInv, TypeOK
  <2>2. \A key \in DOMAIN totals : Entries(recorded[key], now')
    BY <2>1, Later DEF AccountInv
  <2> QED
    BY <2>1, <2>2 DEF AccountInv
<1> QED
  BY <1>1, <1>2, <1>3 DEF Next, SpanStarted, SpanEnded, ReadBefore, ReadSizesBefore, ReadAfter,
     ReadSizesAfter, Goto, Accounts, vars

\* One account as a reader gets it.
AccountOf(key) ==
    [Name |-> key, Times |-> totals[key].Times, Spent |-> totals[key].Spent,
     CPUSeconds |-> totals[key].CPUSeconds, Duration |-> totals[key].Duration,
     Longest |-> totals[key].Longest,
     Spread |-> spreadOf(At(sizes, key, <<>>)), Runs |-> recent(rings[key])]

\* Names have places of their own.
LEMMA PlaceType ==
    ASSUME NEW k \in names \cup {Other}
    PROVE  Place(k) \in Nat /\ Alphabet[Place(k)] = k
<1>1. Alphabet \in Seq(Names \cup Declared \cup {Other}) /\ k \in Range(Alphabet)
  BY CostsAssumption
<1>2. \E i \in DOMAIN Alphabet : Alphabet[i] = k
  BY <1>1 DEF Range
<1>3. Place(k) \in DOMAIN Alphabet /\ Alphabet[Place(k)] = k
  BY <1>2 DEF Place
<1>4. DOMAIN Alphabet \subseteq Nat
  BY <1>1
<1> QED
  BY <1>3, <1>4

\* A snapshot lists each account once, the most allocated first.
LEMMA SnapshotIs ==
    ASSUME LedgerInv, AccountInv
    PROVE  \E n \in Nat : \E keys \in [1..n -> DOMAIN totals] :
              /\ \A key \in DOMAIN totals : \E i \in 1..n : keys[i] = key
              /\ \A i, j \in 1..n : i < j => Before(keys[i], keys[j])
              /\ \A i, j \in 1..n : i < j => keys[i] # keys[j]
              /\ Snapshot = [i \in 1..n |-> AccountOf(keys[i])]
<1>1. PICK S : S = DOMAIN totals
  OBVIOUS
<1>2. IsFiniteSet(S) /\ S \subseteq names \cup {Other}
  BY <1>1 DEF LedgerInv, Amounts, AccountInv
<1>3. PICK n \in Nat : n = Cardinality(S)
  BY <1>2, FS_CardinalityType
<1>4. PICK bytes : bytes = [k \in S |-> totals[k].Spent["AllocBytes"]]
  OBVIOUS
<1>5. \A k \in S : bytes[k] \in Nat
  <2>1. "AllocBytes" \in Counters
    BY DEF Counters
  <2> QED
    BY <1>1, <1>4, <2>1 DEF LedgerInv, Amounts
<1>6. PICK place : place = [k \in S |-> Place(k)]
  OBVIOUS
<1>7. \A k, l \in S : place[k] \in Nat /\ (place[k] = place[l] => k = l)
  BY <1>2, <1>6, PlaceType
<1>8. \A k, l \in S : Before(k, l) <=> bytes[k] > bytes[l] \/ (bytes[k] = bytes[l] /\ place[k] < place[l])
  BY <1>4, <1>6 DEF Before
<1> DEFINE R == {p \in S \X S : Before(p[1], p[2])}
<1>9. \A k, l \in S : <<k, l>> \in R <=> Before(k, l)
  OBVIOUS
<1> HIDE DEF R
<1>10. /\ \A x \in S : <<x, x>> \notin R
       /\ \A x, y, z \in S : <<x, y>> \in R /\ <<y, z>> \in R => <<x, z>> \in R
       /\ \A x, y \in S : x # y => <<x, y>> \in R \/ <<y, x>> \in R
  BY <1>5, <1>7, <1>8, <1>9
<1>11. \E s \in [1..n -> S] : \A i, j \in 1..n : i < j => <<s[i], s[j]>> \in R
  BY <1>2, <1>3, <1>10, ListedInOrder
<1>12. PICK keys \in [1..n -> S] :
         /\ keys = CHOOSE ks \in [1..n -> S] : \A i, j \in DOMAIN ks : i < j => Before(ks[i], ks[j])
         /\ \A i, j \in 1..n : i < j => Before(keys[i], keys[j])
  <2>1. PICK s \in [1..n -> S] : \A i, j \in 1..n : i < j => <<s[i], s[j]>> \in R
    BY <1>11
  <2>2. \A i, j \in 1..n : s[i] \in S /\ s[j] \in S
    OBVIOUS
  <2>3. \A i, j \in DOMAIN s : i < j => Before(s[i], s[j])
    BY <1>9, <2>1, <2>2
  <2>4. \E ks \in [1..n -> S] : \A i, j \in DOMAIN ks : i < j => Before(ks[i], ks[j])
    BY <2>3
  <2>5. PICK keys \in [1..n -> S] :
          /\ keys = CHOOSE ks \in [1..n -> S] : \A i, j \in DOMAIN ks : i < j => Before(ks[i], ks[j])
          /\ \A i, j \in DOMAIN keys : i < j => Before(keys[i], keys[j])
    BY <2>4, Zenon
  <2> QED
    BY <2>5
<1>13. \A i, j \in 1..n : i < j => keys[i] # keys[j]
  <2> SUFFICES ASSUME NEW i \in 1..n, NEW j \in 1..n, i < j, keys[i] = keys[j] PROVE FALSE
    OBVIOUS
  <2>1. keys[i] \in S /\ Before(keys[i], keys[i])
    BY <1>12
  <2> QED
    BY <1>5, <1>7, <1>8, <2>1
<1>14. \A key \in S : \E i \in 1..n : keys[i] = key
  <2>1. \A i, j \in 1..n : keys[i] = keys[j] => i = j
    BY <1>13
  <2>2. keys \in Injection(1..n, S)
    BY <2>1 DEF Injection, IsInjective
  <2>3. IsFiniteSet(1..n) /\ Cardinality(1..n) = n
    BY FS_Interval
  <2>4. keys \in Surjection(1..n, S)
    BY <1>2, <1>3, <2>2, <2>3, FS_Injection
  <2> QED
    BY <2>4 DEF Surjection
<1>15. Snapshot = [i \in 1..n |-> AccountOf(keys[i])]
  <2>1. Snapshot = [i \in DOMAIN keys |-> AccountOf(keys[i])]
    BY <1>1, <1>3, <1>12 DEF Snapshot, AccountOf
  <2> QED
    BY <2>1
<1>16. keys \in [1..n -> DOMAIN totals]
  BY <1>1
<1>17. \A key \in DOMAIN totals : \E i \in 1..n : keys[i] = key
  BY <1>1, <1>14
<1>18. \A i, j \in 1..n : i < j => Before(keys[i], keys[j])
  BY <1>12
<1> QED
  BY <1>13, <1>15, <1>16, <1>17, <1>18, Zenon

-----------------------------------------------------------------------------
(* Averages.                                                                 *)

\* Multiplication over sums, and of numbers in order.
LEMMA Times == ASSUME NEW m \in Nat, NEW a \in Nat, NEW b \in Nat
               PROVE  m * (a + b) = m * a + m * b /\ m * a \in Nat /\ m * b \in Nat
  OBVIOUS
LEMMA TimesGrows == ASSUME NEW m \in Nat, NEW a \in Nat, NEW b \in Nat, a <= b
                    PROVE  m * a <= m * b /\ m * a \in Nat /\ m * b \in Nat
<1>1. PICK d \in Nat : b = a + d
  <2>1. b - a \in Nat /\ b = a + (b - a)
    OBVIOUS
  <2> QED
    BY <2>1
<1>2. m * b = m * a + m * d /\ m * a \in Nat /\ m * d \in Nat
  BY <1>1, Times
<1> QED
  BY <1>2

\* What adds up to so many times the other, value by value, does in sum.
LEMMA SumScaled ==
    ASSUME NEW S, IsFiniteSet(S), NEW m \in Nat, NEW a \in [S -> Nat], NEW b \in [S -> Nat],
           NEW c \in [S -> Nat], \A x \in S : a[x] + b[x] = m * c[x]
    PROVE  SumFunction(a) + SumFunction(b) = m * SumFunction(c)
<1>1. PICK f : Adder(a, S, f) /\ SumFunction(a) = f[S]
  BY SumIs
<1>2. PICK g : Adder(b, S, g) /\ SumFunction(b) = g[S]
  BY SumIs
<1>3. PICK h : Adder(c, S, h) /\ SumFunction(c) = h[S]
  BY SumIs
<1> DEFINE Good == {T \in SUBSET S : f[T] + g[T] = m * h[T]}
<1>4. {} \in Good
  BY <1>1, <1>2, <1>3 DEF Adder
<1>5. ASSUME NEW T \in SUBSET S, T # {}, \A x \in T : T \ {x} \in Good PROVE T \in Good
  <2>1. PICK x \in T : TRUE
    BY <1>5
  <2>2. /\ f[T] = a[x] + f[T \ {x}] /\ g[T] = b[x] + g[T \ {x}] /\ h[T] = c[x] + h[T \ {x}]
        /\ a[x] \in Nat /\ b[x] \in Nat /\ c[x] \in Nat
        /\ f[T \ {x}] \in Nat /\ g[T \ {x}] \in Nat /\ h[T \ {x}] \in Nat
    BY <1>1, <1>2, <1>3 DEF Adder
  <2>3. f[T \ {x}] + g[T \ {x}] = m * h[T \ {x}] /\ a[x] + b[x] = m * c[x]
    BY <1>5
  <2>4. m * h[T] = m * c[x] + m * h[T \ {x}]
    BY <2>2, Times
  <2>5. f[T] + g[T] = m * h[T]
    BY <2>2, <2>3, <2>4
  <2> QED
    BY <2>5
<1> HIDE DEF Good
<1>6. SUBSET S \subseteq Good
  BY <1>4, <1>5, SubsetInduction
<1>7. S \in Good
  BY <1>6
<1> QED
  BY <1>1, <1>2, <1>3, <1>7 DEF Good

\* What is no more than so many times the other, value by value, is so in sum.
LEMMA SumAtMost ==
    ASSUME NEW S, IsFiniteSet(S), NEW m \in Nat, NEW a \in [S -> Nat],
           NEW c \in [S -> Nat], \A x \in S : a[x] <= m * c[x]
    PROVE  SumFunction(a) <= m * SumFunction(c)
<1>1. PICK b : b = [x \in S |-> m * c[x] - a[x]]
  OBVIOUS
<1>2. \A x \in S : m * c[x] \in Nat
  BY Times
<1>3. \A x \in S : b[x] \in Nat /\ a[x] + b[x] = m * c[x]
  BY <1>1, <1>2
<1>4. b \in [S -> Nat]
  BY <1>1, <1>3
<1>5. SumFunction(a) + SumFunction(b) = m * SumFunction(c)
  BY <1>3, <1>4, SumScaled
<1>6. SumFunction(a) \in Nat /\ SumFunction(b) \in Nat
  BY <1>4, SumType
<1> QED
  BY <1>5, <1>6

\* No less than so many times the smallest.
LEMMA SumAtLeast ==
    ASSUME NEW S, IsFiniteSet(S), NEW m \in Nat, NEW a \in [S -> Nat], \A x \in S : m <= a[x]
    PROVE  m * Cardinality(S) <= SumFunction(a)
<1>1. PICK h : Adder(a, S, h) /\ SumFunction(a) = h[S]
  BY SumIs
<1> DEFINE Good == {T \in SUBSET S : m * Cardinality(T) <= h[T]}
<1>2. {} \in Good
  BY <1>1, FS_EmptySet DEF Adder
<1>3. ASSUME NEW T \in SUBSET S, T # {}, \A x \in T : T \ {x} \in Good PROVE T \in Good
  <2>1. PICK x \in T : h[T] = a[x] + h[T \ {x}]
    BY <1>1, <1>3 DEF Adder
  <2>2. PICK n \in Nat : n = Cardinality(T \ {x}) /\ Cardinality(T) = n + 1
    <3>1. IsFiniteSet(T) /\ IsFiniteSet(T \ {x})
      BY FS_Subset
    <3>2. Cardinality(T) \in Nat /\ Cardinality(T \ {x}) \in Nat
      BY <3>1, FS_CardinalityType
    <3>3. Cardinality(T \ {x}) = Cardinality(T) - 1
      BY <3>1, FS_RemoveElement
    <3> QED
      BY <3>2, <3>3
  <2>3. m * n <= h[T \ {x}] /\ h[T \ {x}] \in Nat /\ a[x] \in Nat /\ m <= a[x]
    BY <1>1, <1>3, <2>2 DEF Adder
  <2>4. m * (n + 1) = m * n + m * 1 /\ m * 1 = m /\ m * n \in Nat
    BY Times
  <2>5. m * (n + 1) <= h[T]
    BY <2>1, <2>3, <2>4
  <2> QED
    BY <2>2, <2>5
<1> HIDE DEF Good
<1>4. SUBSET S \subseteq Good
  BY <1>2, <1>3, SubsetInduction
<1>5. S \in Good
  BY <1>4
<1> QED
  BY <1>1, <1>5 DEF Good

\* An average lies between what bounds the whole.
LEMMA MeanBetween ==
    ASSUME NEW n \in Nat \ {0}, NEW whole \in Nat, NEW least \in Nat, NEW most \in Nat,
           n * least <= whole, whole <= n * most
    PROVE  Mean(whole, n) \in least..most
<1>1. PICK q \in Nat, r \in 0..(n - 1) : q = whole \div n /\ whole = n * q + r
  OBVIOUS
<1>2. n * q \in Nat /\ n * (q + 1) = n * q + n * 1 /\ n * 1 = n
  BY Times
<1>3. q <= most
  <2> SUFFICES ASSUME most + 1 <= q PROVE FALSE
    BY <1>1
  <2>1. n * (most + 1) <= n * q /\ n * (most + 1) = n * most + n * 1 /\ n * most \in Nat
    BY <1>1, Times, TimesGrows
  <2> QED
    BY <1>1, <1>2, <2>1
<1>4. least <= q
  <2> SUFFICES ASSUME q + 1 <= least PROVE FALSE
    BY <1>1
  <2>1. n * (q + 1) <= n * least /\ n * least \in Nat
    BY <1>1, TimesGrows
  <2> QED
    BY <1>1, <1>2, <2>1
<1> QED
  BY <1>1, <1>3, <1>4 DEF Mean

\* A finite set of numbers has a least and a greatest.
LEMMA Extremes ==
    ASSUME NEW S, IsFiniteSet(S), S \subseteq Nat, S # {}
    PROVE  /\ Min(S) \in S /\ \A x \in S : Min(S) <= x
           /\ Max(S) \in S /\ \A x \in S : x <= Max(S)
<1>1. PICK n \in Nat : n = Cardinality(S)
  BY FS_CardinalityType
<1>2. PICK s \in [1..n -> S] : /\ \A i, j \in 1..n : i < j => s[i] < s[j]
                               /\ \A x \in S : \E i \in 1..n : s[i] = x
  <2>1. /\ Ascending(S) \in [1..Cardinality(S) -> S]
        /\ \A i, j \in 1..Cardinality(S) : i < j => Ascending(S)[i] < Ascending(S)[j]
        /\ \A x \in S : \E i \in 1..Cardinality(S) : Ascending(S)[i] = x
    BY NumbersInOrder
  <2> QED
    BY <1>1, <2>1
<1>3. n # 0
  BY <1>1, FS_EmptySet
<1>4. 1 \in 1..n /\ n \in 1..n /\ \A i \in 1..n : s[i] \in Nat
  <2>1. \A i \in 1..n : s[i] \in S
    OBVIOUS
  <2>2. \A i \in 1..n : s[i] \in Nat
    BY <2>1
  <2>3. 1 \in 1..n /\ n \in 1..n
    BY <1>3
  <2> QED
    BY <2>2, <2>3
<1>5. \A i \in 1..n : s[1] <= s[i] /\ s[i] <= s[n]
  <2> SUFFICES ASSUME NEW i \in 1..n PROVE s[1] <= s[i] /\ s[i] <= s[n]
    OBVIOUS
  <2>1. i = 1 \/ 1 < i
    OBVIOUS
  <2>2. i = n \/ i < n
    OBVIOUS
  <2> QED
    BY <1>2, <1>4, <2>1, <2>2
<1>6. s[1] \in S /\ s[n] \in S /\ \A x \in S : s[1] <= x /\ x <= s[n]
  BY <1>2, <1>4, <1>5
<1>7. S \subseteq Int
  OBVIOUS
<1>8. Min(S) = s[1] /\ Max(S) = s[n]
  BY <1>6, <1>7, MinIs, MaxIs
<1> QED
  BY <1>6, <1>8
\* What a run allocated, in bytes, is no more than so many times what it allocated, as the
\* largest there has been.
LEMMA BytesOfObjects ==
    ASSUME NEW t \in 0..Limit, NEW change, Measured(change, t), NEW m \in Nat,
           \A u \in 1..t : \A k \in DOMAIN Program[u].objects : Program[u].objects[k] <= m
    PROVE  change.Spent["AllocBytes"] <= m * change.Spent["AllocObjects"]
<1>1. PICK s \in 0..t : \E u \in s..t : change = Diff(ReadAt[s], ReadAt[u])
  BY DEF Measured
<1>2. PICK u \in s..t : change = Diff(ReadAt[s], ReadAt[u])
  BY <1>1
<1>3. s \in 0..Limit /\ u \in 0..Limit /\ u \in s..Limit /\ 1..s \subseteq 1..Limit /\ 1..u \subseteq 1..Limit
  BY LimitType
<1>4. PICK b : b = [v \in 1..Limit |-> SumFunction(Program[v].objects)]
  OBVIOUS
<1>5. PICK o : o = [v \in 1..Limit |-> Len(Program[v].objects)]
  OBVIOUS
<1>6. ASSUME NEW v \in 1..Limit
      PROVE  /\ b[v] \in Nat /\ o[v] \in Nat
             /\ v <= t => b[v] <= m * o[v]
  <2>1. PICK objects \in Seq(Nat) : objects = Program[v].objects
    BY ProgramType
  <2>2. PICK n \in Nat : n = Len(objects) /\ DOMAIN objects = 1..n /\ objects \in [1..n -> Nat]
    BY <2>1
  <2>3. IsFiniteSet(1..n) /\ Cardinality(1..n) = n
    BY FS_Interval
  <2>4. b[v] = SumFunction(objects) /\ o[v] = n /\ SumFunction(objects) \in Nat
    BY <1>4, <1>5, <2>1, <2>2, <2>3, SumType
  <2>5. ASSUME v <= t PROVE b[v] <= m * n
    <3>1. PICK one : one = [k \in 1..n |-> 1]
      OBVIOUS
    <3>2. one \in [1..n -> Nat]
      BY <3>1
    <3>3. \A k \in 1..n : objects[k] <= m * one[k]
      <4>1. v \in 1..t
        BY <2>5
      <4>2. \A k \in 1..n : objects[k] <= m
        BY <2>1, <2>2, <4>1
      <4> QED
        BY <3>1, <4>2
    <3>4. SumFunction(objects) <= m * SumFunction(one)
      BY <2>2, <2>3, <3>2, <3>3, SumAtMost
    <3>5. SumFunction(one) <= n * 1 /\ SumFunction(one) \in Nat /\ n * 1 = n
      BY <2>3, <3>1, <3>2, SumBounded, SumType, SMTT(40)
    <3>6. m * SumFunction(one) <= m * n /\ m * n \in Nat /\ m * SumFunction(one) \in Nat
      BY <3>5, TimesGrows
    <3> QED
      BY <2>4, <3>4, <3>6
  <2> QED
    BY <2>4, <2>5
<1>7. PICK c : c = [v \in 1..Limit |-> IF v <= t THEN m * o[v] - b[v] ELSE 0]
  OBVIOUS
<1>8. ASSUME NEW v \in 1..Limit PROVE c[v] \in Nat /\ (v <= t => c[v] + b[v] = m * o[v])
  <2>1. m * o[v] \in Nat /\ b[v] \in Nat
    BY <1>6, Times
  <2> QED
    BY <1>6, <1>7, <2>1, SMTT(40)
<1>9. b \in [1..Limit -> Nat] /\ o \in [1..Limit -> Nat] /\ c \in [1..Limit -> Nat]
  BY <1>4, <1>5, <1>6, <1>7, <1>8
<1>10. ASSUME NEW v \in 0..t, 1..v \subseteq 1..Limit, v \in 0..Limit
       PROVE  /\ ReadAt[v].Counters["AllocBytes"] = SumFunction([w \in 1..v |-> b[w]])
              /\ ReadAt[v].Counters["AllocObjects"] = SumFunction([w \in 1..v |-> o[w]])
              /\ SumFunction([w \in 1..v |-> c[w]]) + SumFunction([w \in 1..v |-> b[w]])
                   = m * SumFunction([w \in 1..v |-> o[w]])
  <2>1. /\ [w \in 1..v |-> b[w]] = [w \in 1..v |-> SumFunction(Program[w].objects)]
        /\ [w \in 1..v |-> o[w]] = [w \in 1..v |-> Len(Program[w].objects)]
    BY <1>4, <1>5, <1>10
  <2>2. /\ ReadAt[v].Counters["AllocBytes"] = SumFunction([w \in 1..v |-> b[w]])
        /\ ReadAt[v].Counters["AllocObjects"] = SumFunction([w \in 1..v |-> o[w]])
    BY <1>10, <2>1 DEF ReadAt, SoFar
  <2>3. PICK bv, ov, cv : /\ bv = [w \in 1..v |-> b[w]] /\ ov = [w \in 1..v |-> o[w]]
                          /\ cv = [w \in 1..v |-> c[w]]
    OBVIOUS
  <2>4. bv \in [1..v -> Nat] /\ ov \in [1..v -> Nat] /\ cv \in [1..v -> Nat]
    BY <1>9, <1>10, <2>3
  <2>5. \A w \in 1..v : cv[w] + bv[w] = m * ov[w]
    BY <1>8, <1>10, <2>3
  <2>6. IsFiniteSet(1..v)
    BY FS_Interval
  <2>7. SumFunction(cv) + SumFunction(bv) = m * SumFunction(ov)
    <3>1. PICK W : W = 1..v
      OBVIOUS
    <3>2. /\ cv \in [W -> Nat] /\ bv \in [W -> Nat] /\ ov \in [W -> Nat] /\ IsFiniteSet(W)
          /\ \A w \in W : cv[w] + bv[w] = m * ov[w]
      BY <2>4, <2>5, <2>6, <3>1
    <3> QED
      BY <3>2, SumScaled
  <2> QED
    BY <2>2, <2>3, <2>7
<1>11. PICK bs, bu, os, ou, cs, cu :
         /\ bs = SumFunction([w \in 1..s |-> b[w]]) /\ bu = SumFunction([w \in 1..u |-> b[w]])
         /\ os = SumFunction([w \in 1..s |-> o[w]]) /\ ou = SumFunction([w \in 1..u |-> o[w]])
         /\ cs = SumFunction([w \in 1..s |-> c[w]]) /\ cu = SumFunction([w \in 1..u |-> c[w]])
  OBVIOUS
<1>12. bs \in Nat /\ bu \in Nat /\ bs <= bu
  BY <1>3, <1>9, <1>11, SoFarGrows
<1>13. os \in Nat /\ ou \in Nat /\ os <= ou
  BY <1>3, <1>9, <1>11, SoFarGrows
<1>14. cs \in Nat /\ cu \in Nat /\ cs <= cu
  BY <1>3, <1>9, <1>11, SoFarGrows
<1>15. cs + bs = m * os /\ cu + bu = m * ou
  <2>1. s \in 0..t /\ u \in 0..t
    OBVIOUS
  <2> QED
    BY <1>3, <1>10, <1>11, <2>1
<1>16. change.Spent["AllocBytes"] = bu - bs /\ change.Spent["AllocObjects"] = ou - os
  <2>1. "AllocBytes" \in Counters /\ "AllocObjects" \in Counters
    BY DEF Counters
  <2>2. s \in 0..t /\ u \in 0..t
    OBVIOUS
  <2> QED
    BY <1>2, <1>3, <1>10, <1>11, <2>1, <2>2, DiffSpent
<1>17. m * ou = m * os + m * (ou - os) /\ m * os \in Nat /\ m * ou \in Nat /\ m * (ou - os) \in Nat
  <2>1. PICK d \in Nat : d = ou - os /\ ou = os + d
    BY <1>13
  <2>2. m * (os + d) = m * os + m * d /\ m * os \in Nat /\ m * d \in Nat
    BY <1>13, Times
  <2> QED
    BY <2>1, <2>2
<1>18. bu - bs <= m * (ou - os)
  BY <1>12, <1>14, <1>15, <1>17
<1> QED
  BY <1>16, <1>18

-----------------------------------------------------------------------------
(* What a reader gets.                                                       *)

\* The edges are finitely many numbers.
LEMMA EdgesType == IsFiniteSet(Edges) /\ Edges \subseteq Nat
<1>1. PICK n \in Nat : n = Len(Boundaries) - 1 /\ Buckets = 1..n /\ DOMAIN Boundaries = 1..(n + 1)
  <2>1. PICK m \in Nat \ {0} : m = Len(Boundaries) /\ DOMAIN Boundaries = 1..m
    BY BoundariesType
  <2>2. m - 1 \in Nat /\ m = (m - 1) + 1
    OBVIOUS
  <2> QED
    BY <2>1, <2>2 DEF Buckets
<1>2. PICK f : f = [i \in Buckets |-> boundOf(Boundaries, i)]
  OBVIOUS
<1>3. \A i \in Buckets : f[i] \in Edges
  BY <1>2 DEF Edges
<1>4. \A x \in Edges : \E i \in Buckets : f[i] = x
  BY <1>2 DEF Edges
<1>5. f \in Surjection(Buckets, Edges)
  BY <1>2, <1>3, <1>4 DEF Surjection
<1>6. IsFiniteSet(Buckets)
  BY <1>1, FS_Interval
<1>7. IsFiniteSet(Edges)
  BY <1>5, <1>6, FS_Surjection
<1>8. \A i \in Buckets : boundOf(Boundaries, i) \in Nat
  BY <1>1, BoundariesType DEF boundOf
<1> QED
  BY <1>7, <1>8 DEF Edges

\* A spread has the classes, one each, by size.
Lists(spread, classes, k, edges) ==
    /\ spread.Classes = [m \in 1..k |-> [AtMost |-> edges[m], Count |-> classes[edges[m]]]]
    /\ spread.Total = Counted(spread.Classes)
    /\ \A a, b \in 1..k : a < b => edges[a] < edges[b]
    /\ \A a, b \in 1..k : edges[a] = edges[b] => a = b
    /\ \A x \in DOMAIN classes : \E a \in 1..k : edges[a] = x

\* An account's size classes as a reader gets them.
LEMMA SpreadIs ==
    ASSUME NEW classes, classes \in [DOMAIN classes -> Nat], DOMAIN classes \subseteq Edges
    PROVE  \E k \in Nat : \E edges \in [1..k -> DOMAIN classes] : Lists(spreadOf(classes), classes, k, edges)
<1>1. PICK S : S = DOMAIN classes
  OBVIOUS
<1>2. IsFiniteSet(S) /\ S \subseteq Nat
  BY <1>1, EdgesType, FS_Subset
<1>3. PICK k \in Nat : k = Cardinality(S)
  BY <1>2, FS_CardinalityType
<1>4. PICK edges \in [1..k -> S] : /\ edges = Ascending(S)
                                   /\ \A a, b \in 1..k : a < b => edges[a] < edges[b]
                                   /\ \A a, b \in 1..k : edges[a] = edges[b] => a = b
                                   /\ \A x \in S : \E a \in 1..k : edges[a] = x
  <2>1. /\ Ascending(S) \in [1..Cardinality(S) -> S]
        /\ \A a, b \in 1..Cardinality(S) : a < b => Ascending(S)[a] < Ascending(S)[b]
        /\ \A a, b \in 1..Cardinality(S) : Ascending(S)[a] = Ascending(S)[b] => a = b
        /\ \A x \in S : \E a \in 1..Cardinality(S) : Ascending(S)[a] = x
    BY <1>2, NumbersInOrder
  <2> QED
    BY <1>3, <2>1
<1>5. PICK inOrder : inOrder = [m \in 1..k |-> [AtMost |-> edges[m], Count |-> classes[edges[m]]]]
  OBVIOUS
<1>6. spreadOf(classes) = [Classes |-> inOrder, Total |-> Counted(inOrder)]
  <2>1. DOMAIN edges = 1..k
    OBVIOUS
  <2> QED
    BY <1>1, <1>4, <1>5, <2>1 DEF spreadOf
<1>7. spreadOf(classes).Classes = inOrder /\ spreadOf(classes).Total = Counted(inOrder)
  BY <1>6
<1>8. edges \in [1..k -> DOMAIN classes]
  BY <1>1
<1>9. \A a, b \in 1..k : a < b => edges[a] < edges[b]
  BY <1>4
<1>10. \A a, b \in 1..k : edges[a] = edges[b] => a = b
  BY <1>4
<1>11. \A x \in DOMAIN classes : \E a \in 1..k : edges[a] = x
  BY <1>1, <1>4
<1>12. spreadOf(classes).Classes = [m \in 1..k |-> [AtMost |-> edges[m], Count |-> classes[edges[m]]]]
  BY <1>5, <1>7
<1>13. spreadOf(classes).Total = Counted(spreadOf(classes).Classes)
  BY <1>7
<1>14. Lists(spreadOf(classes), classes, k, edges)
  BY <1>9, <1>10, <1>11, <1>12, <1>13 DEF Lists
<1> QED
  BY <1>8, <1>14

\* It counts at each edge what was kept there.
LEMMA SpreadCounts ==
    ASSUME NEW classes, classes \in [DOMAIN classes -> Nat], DOMAIN classes \subseteq Edges, NEW edge
    PROVE  CountAt(spreadOf(classes), edge) = At(classes, edge, 0)
<1>1. PICK k \in Nat : \E edges \in [1..k -> DOMAIN classes] : Lists(spreadOf(classes), classes, k, edges)
  BY SpreadIs
<1>2. PICK edges \in [1..k -> DOMAIN classes] :
              /\ spreadOf(classes).Classes
                   = [m \in 1..k |-> [AtMost |-> edges[m], Count |-> classes[edges[m]]]]
              /\ \A a, b \in 1..k : edges[a] = edges[b] => a = b
              /\ \A x \in DOMAIN classes : \E a \in 1..k : edges[a] = x
  BY <1>1 DEF Lists
<1>3. PICK seen : seen = spreadOf(classes).Classes /\ DOMAIN seen = 1..k
                  /\ \A m \in 1..k : seen[m].AtMost = edges[m] /\ seen[m].Count = classes[edges[m]]
  BY <1>2
<1>4. PICK D : D = {m \in DOMAIN seen : seen[m].AtMost = edge}
  OBVIOUS
<1>5. PICK g : g = [m \in D |-> seen[m].Count]
  OBVIOUS
<1>6. CountAt(spreadOf(classes), edge) = SumFunction(g)
  BY <1>3, <1>4, <1>5 DEF CountAt, CountWhere
<1>7. g \in [D -> Nat]
  <2>1. \A m \in D : m \in 1..k /\ seen[m].Count \in Nat
    BY <1>3, <1>4
  <2> QED
    BY <1>5, <2>1
<1>8. CASE edge \in DOMAIN classes
  <2>1. PICK a \in 1..k : edges[a] = edge
    BY <1>2, <1>8
  <2>2. D = {a}
    BY <1>2, <1>3, <1>4, <2>1
  <2>3. SumFunction(g) = g[a]
    BY <1>7, <2>2, SumOfOne
  <2> QED
    BY <1>3, <1>5, <1>6, <1>8, <2>1, <2>2, <2>3 DEF At
<1>9. CASE edge \notin DOMAIN classes
  <2>1. D = {}
    BY <1>3, <1>4, <1>9
  <2>2. SumFunction(g) = 0
    BY <1>7, <2>1, SumOfOne
  <2> QED
    BY <1>6, <1>9, <2>2 DEF At
<1> QED
  BY <1>8, <1>9

\* The largest allocation there has been.
LEMMA LargestAllocation ==
    ASSUME NEW t \in 0..Limit
    PROVE  /\ Max(AllocatedBy(t) \cup {0}) \in Nat
           /\ \A u \in 1..t : \A k \in DOMAIN Program[u].objects :
                Program[u].objects[k] <= Max(AllocatedBy(t) \cup {0})
<1>1. PICK S : S = AllocatedBy(t) \cup {0}
  OBVIOUS
<1>2. ASSUME NEW u \in 1..t, NEW k \in DOMAIN Program[u].objects
      PROVE  Program[u].objects[k] \in S
  BY <1>1 DEF AllocatedBy, Range
<1>3. ASSUME NEW x \in S PROVE x \in 0..Unbounded
  <2>1. 0 \in 0..Unbounded
    BY SizesAssumption
  <2>2. ASSUME NEW u \in 1..t, x \in Range(Program[u].objects) PROVE x \in 0..Unbounded
    <3>1. u \in 1..Limit
      BY LimitType
    <3>2. Program[u] \in [objects : Seq(1..Unbounded), GCCycles : {0, 1}, used : Nat, gc : Nat]
      BY <3>1, CostsAssumption, MemberType DEF Limit
    <3>3. PICK these : these = 1..Unbounded
      OBVIOUS
    <3>4. PICK objects \in Seq(these) : objects = Program[u].objects
      BY <3>2, <3>3
    <3>5. DOMAIN objects = 1..Len(objects)
      OBVIOUS
    <3>6. PICK k \in 1..Len(objects) : x = objects[k]
      BY <2>2, <3>4, <3>5 DEF Range
    <3>7. x \in these
      BY <3>6, MemberType
    <3> QED
      BY <3>3, <3>7, SizesAssumption
  <2> QED
    BY <1>1, <2>1, <2>2 DEF AllocatedBy
<1>4. IsFiniteSet(S) /\ S \subseteq Nat /\ S # {}
  <2>1. IsFiniteSet(0..Unbounded)
    BY SizesAssumption, FS_Interval
  <2>2. S \subseteq 0..Unbounded /\ 0..Unbounded \subseteq Nat
    BY <1>3
  <2>3. IsFiniteSet(S)
    BY <2>1, <2>2, FS_Subset
  <2> QED
    BY <1>1, <2>2, <2>3
<1>5. Max(S) \in S /\ \A x \in S : x <= Max(S)
  BY <1>4, Extremes
<1>6. Max(S) \in Nat
  BY <1>4, <1>5
<1>7. \A u \in 1..t : \A k \in DOMAIN Program[u].objects : Program[u].objects[k] <= Max(S)
  BY <1>2, <1>5
<1> QED
  BY <1>1, <1>6, <1>7

\* An account sums its runs, and its averages lie among what they average.
LEMMA AccountSums ==
    ASSUME IInv, AccountInv, NEW key \in DOMAIN totals
    PROVE  SumsItsRuns(AccountOf(key))
<1>1. PICK all : all = recorded[key]
  OBVIOUS
<1>2. /\ Entries(all, now) /\ all # <<>> /\ SumsUp(totals[key], all)
      /\ SizesSumUp(At(sizes, key, <<>>), all)
  BY <1>1 DEF AccountInv
<1>3. PICK n \in Nat \ {0} : n = Len(all) /\ DOMAIN all = 1..n
  <2>1. all \in Seq(Entry) /\ all # <<>>
    BY <1>2 DEF Entries
  <2> QED
    BY <2>1
<1>4. now \in 0..Limit
  BY DEF IInv, TypeOK
<1>5. \A i \in 1..n : /\ Measured(all[i].change, now)
                      /\ \A c \in Counters : all[i].change.Spent[c] \in Nat
                      /\ all[i].change.Duration \in Nat
  BY <1>2, <1>3, <1>4, MeasuredType DEF Entries
<1>6. PICK cost : cost = AccountOf(key)
  OBVIOUS
<1>7. /\ cost.Times = totals[key].Times /\ cost.Spent = totals[key].Spent
      /\ cost.CPUSeconds = totals[key].CPUSeconds /\ cost.Duration = totals[key].Duration
      /\ cost.Longest = totals[key].Longest /\ cost.Spread = spreadOf(At(sizes, key, <<>>))
  BY <1>6 DEF AccountOf
<1>8. cost.Times = Len(recorded[key])
  BY <1>1, <1>2, <1>7 DEF SumsUp
<1>9. ASSUME NEW c \in Counters PROVE cost.Spent[c] = Sum(key, LAMBDA e : e.change.Spent[c])
  BY <1>1, <1>2, <1>7 DEF SumsUp, Sum
<1>10. cost.CPUSeconds = Sum(key, LAMBDA e : e.change.CPUSeconds)
  BY <1>1, <1>2, <1>7 DEF SumsUp, Sum
<1>11. cost.Duration = Sum(key, LAMBDA e : e.change.Duration)
  BY <1>1, <1>2, <1>7 DEF SumsUp, Sum
<1>12. cost.Longest = Max(Recorded(key, LAMBDA change : change.Duration))
  <2>1. PICK S : S = Recorded(key, LAMBDA change : change.Duration)
    OBVIOUS
  <2>2. S = {entry.change.Duration : entry \in Range(all)}
    BY <1>1, <2>1 DEF Recorded
  <2>3. /\ \A i \in 1..n : all[i].change.Duration \in S
        /\ \A x \in S : \E i \in 1..n : x = all[i].change.Duration
    BY <1>3, <2>2 DEF Range
  <2>4. PICK m : m = cost.Longest
    OBVIOUS
  <2>5. m \in S /\ \A i \in 1..n : all[i].change.Duration <= m
    BY <1>2, <1>3, <1>7, <2>3, <2>4 DEF SumsUp
  <2>6. S \subseteq Int /\ \A x \in S : x <= m
    BY <1>5, <2>3, <2>5
  <2> QED
    BY <2>1, <2>4, <2>5, <2>6, MaxIs
<1>13. ASSUME NEW edge \in Edges
       PROVE  CountAt(cost.Spread, edge) = Sum(key, LAMBDA e : CountAt(e.spread, edge))
  <2>1. PICK i \in Buckets : edge = Edge(i)
    BY DEF Edges, Edge
  <2>2. PICK classes : classes = At(sizes, key, <<>>)
    OBVIOUS
  <2>3. /\ classes \in [DOMAIN classes -> Nat] /\ DOMAIN classes \subseteq Edges
        /\ At(classes, Edge(i), 0) = SumFunction([k \in DOMAIN all |-> CountAt(all[k].spread, Edge(i))])
    BY <1>2, <2>2 DEF SizesSumUp
  <2>4. CountAt(cost.Spread, edge) = At(classes, edge, 0)
    BY <1>7, <2>2, <2>3, SpreadCounts
  <2>5. Sum(key, LAMBDA e : CountAt(e.spread, edge))
          = SumFunction([k \in DOMAIN all |-> CountAt(all[k].spread, edge)])
    BY <1>1 DEF Sum
  <2> QED
    BY <2>1, <2>3, <2>4, <2>5
<1>14. PICK bytes : bytes = Recorded(key, LAMBDA change : change.Spent["AllocBytes"])
  OBVIOUS
<1>15. PICK W : W = 1..n /\ IsFiniteSet(W) /\ Cardinality(W) = n
  <2>1. IsFiniteSet(1..n) /\ Cardinality(1..n) = n
    BY FS_Interval
  <2> QED
    BY <2>1
<1>16. PICK a : a = [i \in W |-> all[i].change.Spent["AllocBytes"]] /\ a \in [W -> Nat]
  <2>1. "AllocBytes" \in Counters
    BY DEF Counters
  <2>2. \A i \in W : all[i].change.Spent["AllocBytes"] \in Nat
    BY <1>5, <1>15, <2>1
  <2>3. [i \in W |-> all[i].change.Spent["AllocBytes"]] \in [W -> Nat]
    BY <2>2
  <2> QED
    BY <2>3
<1>17. PICK o : o = [i \in W |-> all[i].change.Spent["AllocObjects"]] /\ o \in [W -> Nat]
  <2>1. "AllocObjects" \in Counters
    BY DEF Counters
  <2>2. \A i \in W : all[i].change.Spent["AllocObjects"] \in Nat
    BY <1>5, <1>15, <2>1
  <2>3. [i \in W |-> all[i].change.Spent["AllocObjects"]] \in [W -> Nat]
    BY <2>2
  <2> QED
    BY <2>3
<1>18. /\ cost.Spent["AllocBytes"] = SumFunction(a) /\ SumFunction(a) \in Nat
       /\ cost.Spent["AllocObjects"] = SumFunction(o) /\ SumFunction(o) \in Nat
       /\ cost.Times = n
  <2>1. \A c \in Counters : cost.Spent[c] = SumFunction([i \in W |-> all[i].change.Spent[c]])
    BY <1>2, <1>3, <1>7, <1>15 DEF SumsUp
  <2>2. "AllocBytes" \in Counters /\ "AllocObjects" \in Counters
    BY DEF Counters
  <2>3. SumFunction(a) \in Nat /\ SumFunction(o) \in Nat
    BY <1>15, <1>16, <1>17, SumType
  <2>4. cost.Times = n
    BY <1>1, <1>3, <1>8
  <2> QED
    BY <1>16, <1>17, <2>1, <2>2, <2>3, <2>4
<1>19. PerRun(cost) \in Min(bytes)..Max(bytes)
  <2>1. bytes = {entry.change.Spent["AllocBytes"] : entry \in Range(all)}
    BY <1>1, <1>14 DEF Recorded
  <2>2. /\ \A i \in W : a[i] \in bytes
        /\ \A x \in bytes : \E i \in W : x = a[i]
    BY <1>3, <1>15, <1>16, <2>1 DEF Range
  <2>3. a \in Surjection(W, bytes)
    BY <1>16, <2>2 DEF Surjection
  <2>4. IsFiniteSet(bytes)
    BY <1>15, <2>3, FS_Surjection
  <2>5. bytes \subseteq Nat /\ bytes # {}
    <3>1. 1 \in W
      BY <1>3, <1>15
    <3> QED
      BY <1>16, <2>2, <3>1
  <2>6. PICK least \in Nat : least = Min(bytes) /\ \A x \in bytes : least <= x
    BY <2>4, <2>5, Extremes
  <2>7. PICK most \in Nat : most = Max(bytes) /\ \A x \in bytes : x <= most
    BY <2>4, <2>5, Extremes
  <2>8. least * n <= SumFunction(a)
    BY <1>15, <1>16, <2>2, <2>6, SumAtLeast
  <2>9. SumFunction(a) <= n * most
    BY <1>15, <1>16, <2>2, <2>7, SumBounded
  <2>10. n * least <= SumFunction(a)
    BY <2>8
  <2>11. Mean(SumFunction(a), n) \in least..most
    BY <1>18, <2>9, <2>10, MeanBetween
  <2> QED
    BY <1>18, <2>6, <2>7, <2>11 DEF PerRun
<1>20. MeanObjectBytes(cost) \in 0..Max(AllocatedBy(now) \cup {0})
  <2>1. PICK m \in Nat : /\ m = Max(AllocatedBy(now) \cup {0})
                         /\ \A u \in 1..now : \A k \in DOMAIN Program[u].objects : Program[u].objects[k] <= m
    BY <1>4, LargestAllocation
  <2>2. ASSUME NEW i \in W PROVE a[i] <= m * o[i]
    <3>1. Measured(all[i].change, now)
      BY <1>5, <1>15
    <3>2. all[i].change.Spent["AllocBytes"] <= m * all[i].change.Spent["AllocObjects"]
      BY <1>4, <2>1, <3>1, BytesOfObjects
    <3> QED
      BY <1>16, <1>17, <3>2
  <2>3. SumFunction(a) <= m * SumFunction(o)
    BY <1>15, <1>16, <1>17, <2>1, <2>2, SumAtMost
  <2>4. PICK whole \in Nat : whole = SumFunction(a)
    BY <1>18
  <2>5. PICK parts \in Nat : parts = SumFunction(o)
    BY <1>18
  <2>6. Mean(whole, parts) \in 0..m
    <3>1. CASE parts = 0
      BY <2>1, <3>1 DEF Mean
    <3>2. CASE parts # 0
      <4>1. parts * 0 <= whole /\ whole <= parts * m
        BY <2>3, <2>4, <2>5
      <4> QED
        BY <3>2, <4>1, MeanBetween
    <3> QED
      BY <3>1, <3>2
  <2> QED
    BY <1>18, <2>1, <2>4, <2>5, <2>6 DEF MeanObjectBytes
<1> QED
  <2>1. cost.Name = key
    BY <1>6 DEF AccountOf
  <2> QED
    BY <1>6, <1>8, <1>9, <1>10, <1>11, <1>12, <1>13, <1>14, <1>19, <1>20, <2>1 DEF SumsItsRuns

\* Nothing is measured before anything runs.
LEMMA AccountInit == Init => TakenInv /\ AccountInv
<1> SUFFICES ASSUME Init PROVE TakenInv /\ AccountInv
  OBVIOUS
<1>1. \A r \in Runners : run[r].stage = "idle"
  BY DEF Init, Idle
<1>2. TakenInv
  BY <1>1 DEF TakenInv, Taken
<1>3. DOMAIN totals = {} /\ DOMAIN sizes = {}
  BY DEF Init
<1> QED
  BY <1>2, <1>3 DEF AccountInv

\* A snapshot has each account once, the most allocated first, under the declared names
\* and Other, and each sums exactly the runs recorded under its name, for every program,
\* any names and runners, and however recordings interleave.
THEOREM SumsEveryRunOnce == Spec => []AccountsSumTheirRuns
<1>1. IInv /\ RingInv /\ LedgerInv /\ AccountInv => AccountsSumTheirRuns
  <2> SUFFICES ASSUME IInv, RingInv, LedgerInv, AccountInv PROVE AccountsSumTheirRuns
    OBVIOUS
  <2>1. PICK n \in Nat : \E keys \in [1..n -> DOMAIN totals] :
              /\ \A key \in DOMAIN totals : \E i \in 1..n : keys[i] = key
              /\ \A i, j \in 1..n : i < j => Before(keys[i], keys[j])
              /\ \A i, j \in 1..n : i < j => keys[i] # keys[j]
              /\ Snapshot = [i \in 1..n |-> AccountOf(keys[i])]
    BY SnapshotIs
  <2>2. PICK keys \in [1..n -> DOMAIN totals] :
              /\ \A key \in DOMAIN totals : \E i \in 1..n : keys[i] = key
              /\ \A i, j \in 1..n : i < j => Before(keys[i], keys[j])
              /\ \A i, j \in 1..n : i < j => keys[i] # keys[j]
              /\ Snapshot = [i \in 1..n |-> AccountOf(keys[i])]
    BY <2>1
  <2>3. PICK costs : costs = Snapshot
    OBVIOUS
  <2>4. DOMAIN costs = 1..n /\ \A i \in 1..n : costs[i] = AccountOf(keys[i])
    BY <2>2, <2>3
  <2>5. \A key : AccountOf(key).Name = key /\ AccountOf(key).Spent = totals[key].Spent
    BY DEF AccountOf
  <2>6. DOMAIN recorded = {costs[i].Name : i \in DOMAIN costs}
    <3>1. DOMAIN recorded = DOMAIN totals
      BY DEF RingInv
    <3>2. \A i \in 1..n : costs[i].Name = keys[i] /\ keys[i] \in DOMAIN totals
      BY <2>4, <2>5
    <3>3. \A key \in DOMAIN totals : \E i \in 1..n : key = costs[i].Name
      BY <2>2, <3>2
    <3>4. \A x : x \in DOMAIN totals <=> x \in {costs[i].Name : i \in 1..n}
      BY <3>2, <3>3
    <3> QED
      BY <2>4, <3>1, <3>4
  <2>7. DOMAIN recorded \subseteq names \cup {Other}
    BY DEF RingInv, AccountInv
  <2>8. ASSUME NEW i \in 1..n, NEW j \in 1..n, i < j
        PROVE  /\ costs[i].Name # costs[j].Name
               /\ costs[i].Spent["AllocBytes"] >= costs[j].Spent["AllocBytes"]
    <3>1. Before(keys[i], keys[j]) /\ keys[i] # keys[j]
      BY <2>2, <2>8
    <3>2. "AllocBytes" \in Counters
      BY DEF Counters
    <3>3. totals[keys[i]].Spent["AllocBytes"] \in Nat /\ totals[keys[j]].Spent["AllocBytes"] \in Nat
      BY <3>2 DEF LedgerInv, Amounts
    <3>4. totals[keys[i]].Spent["AllocBytes"] >= totals[keys[j]].Spent["AllocBytes"]
      BY <3>1, <3>3 DEF Before
    <3> QED
      BY <2>4, <2>5, <3>1, <3>4
  <2>9. ASSUME NEW i \in 1..n PROVE SumsItsRuns(costs[i])
    BY <2>4, AccountSums
  <2> QED
    BY <2>3, <2>4, <2>6, <2>7, <2>8, <2>9 DEF AccountsSumTheirRuns
<1>2. Init => RingInv
  BY DEF Init, RingInv
<1> QED
  BY <1>1, <1>2, InitHolds, StepKeeps, LedgerInit, LedgerStep, RingStep, AccountInit, TakenStep,
     AccountStep, PTL DEF Spec

-----------------------------------------------------------------------------
(* Shares of the kept runs.                                                  *)

\* The rank of a share is the least that is at least that share of the count.
LEMMA RankOfShare ==
    ASSUME NEW a \in Nat \ {0}, NEW b \in Nat \ {0}, a <= b, NEW n \in Nat \ {0}
    PROVE  /\ rankOf(<<a, b>>, n) \in 1..n
           /\ a * n <= rankOf(<<a, b>>, n) * b
           /\ (rankOf(<<a, b>>, n) - 1) * b < a * n
<1>1. PICK w \in Nat : w = a * n
  OBVIOUS
<1>2. w <= n * b /\ n * b \in Nat
  <2>1. n * a <= n * b /\ n * a \in Nat /\ n * b \in Nat
    BY TimesGrows
  <2> QED
    BY <1>1, <2>1
<1>3. 1 <= w
  <2>1. a * 1 <= a * n /\ a * 1 = a
    BY TimesGrows
  <2> QED
    BY <1>1, <2>1
<1>4. PICK z \in Nat : z = w + b - 1
  OBVIOUS
<1>5. PICK q \in Nat, r \in 0..(b - 1) : q = z \div b /\ z = b * q + r
  OBVIOUS
<1>6. b * q \in Nat /\ w <= b * q
  <2>1. b * q \in Nat
    OBVIOUS
  <2> QED
    BY <1>4, <1>5, <2>1
<1>7. 1 <= q
  <2> SUFFICES ASSUME q = 0 PROVE FALSE
    OBVIOUS
  <2>1. b * q = 0
    BY Times
  <2> QED
    BY <1>3, <1>6, <2>1
<1>8. PICK before \in Nat : q = before + 1 /\ before = q - 1
  BY <1>7
<1>9. b * q = b * before + b * 1 /\ b * 1 = b /\ b * before \in Nat
  BY <1>8, Times
<1>10. b * before < w
  BY <1>4, <1>5, <1>9
<1>11. q <= n
  <2> SUFFICES ASSUME n <= before PROVE FALSE
    BY <1>8
  <2>1. b * n <= b * before /\ b * n = n * b
    BY TimesGrows
  <2> QED
    BY <1>2, <1>9, <1>10, <2>1
<1>12. rankOf(<<a, b>>, n) = q
  <2>1. <<a, b>>[1] = a /\ <<a, b>>[2] = b /\ ~(a <= 0) /\ ~(a > b)
    OBVIOUS
  <2>2. (a * n + b - 1) \div b = q
    BY <1>1, <1>4, <1>5
  <2> QED
    BY <1>7, <1>11, <2>1, <2>2 DEF rankOf
<1>13. q * b = b * q /\ (q - 1) * b = b * before
  BY <1>8
<1> QED
  BY <1>1, <1>6, <1>7, <1>10, <1>11, <1>12, <1>13

\* The first so many of an order of all of them are so many.
LEMMA FirstOnes ==
    ASSUME NEW n \in Nat, NEW p \in Bijection(1..n, 1..n), NEW m \in 0..n
    PROVE  IsFiniteSet({p[i] : i \in 1..m}) /\ Cardinality({p[i] : i \in 1..m}) = m
<1>1. PICK S : S = {p[i] : i \in 1..m}
  OBVIOUS
<1>2. p \in [1..n -> 1..n] /\ \A i, j \in 1..n : p[i] = p[j] => i = j
  BY DEF Bijection, Injection, IsInjective
<1>3. PICK f : f = [i \in 1..m |-> p[i]]
  OBVIOUS
<1>4. f \in [1..m -> S] /\ \A x \in S : \E i \in 1..m : f[i] = x
  BY <1>1, <1>3
<1>5. \A i, j \in 1..m : f[i] = f[j] => i = j
  BY <1>2, <1>3
<1>6. f \in Bijection(1..m, S)
  BY <1>4, <1>5 DEF Bijection, Injection, IsInjective, Surjection
<1>7. IsFiniteSet(1..m) /\ Cardinality(1..m) = m
  BY FS_Interval
<1>8. ExistsBijection(1..m, S)
  BY <1>6 DEF ExistsBijection
<1>9. IsFiniteSet(S) /\ Cardinality(S) = m
  BY <1>7, <1>8, FS_Bijection
<1> QED
  BY <1>1, <1>9

\* Of values in order, at least a rank are no more than the one at it, and less are less.
LEMMA AtRank ==
    ASSUME NEW n \in Nat, NEW v \in [1..n -> Nat], NEW p \in Bijection(1..n, 1..n),
           \A i, j \in 1..n : i < j => v[p[i]] <= v[p[j]], NEW rank \in 1..n,
           NEW answer, answer = v[p[rank]],
           NEW upTo, upTo \subseteq 1..n, \A i \in 1..n : i \in upTo <=> v[i] <= answer,
           NEW below, below \subseteq 1..n, \A i \in 1..n : i \in below <=> v[i] < answer
    PROVE  /\ Cardinality(upTo) \in Nat /\ rank <= Cardinality(upTo)
           /\ Cardinality(below) \in Nat /\ Cardinality(below) <= rank - 1
<1>1. /\ p \in [1..n -> 1..n] /\ \A i, j \in 1..n : p[i] = p[j] => i = j
      /\ \A x \in 1..n : \E i \in 1..n : p[i] = x
  BY DEF Bijection, Injection, IsInjective, Surjection
<1>2. answer \in Nat /\ answer = v[p[rank]]
  BY <1>1
<1>3. IsFiniteSet(1..n)
  BY FS_Interval
<1>4. upTo \subseteq 1..n /\ \A i \in 1..n : i \in upTo <=> v[i] <= answer
  OBVIOUS
<1>5. PICK first : first = {p[i] : i \in 1..rank}
  OBVIOUS
<1>6. rank \in 0..n /\ rank - 1 \in 0..n
  OBVIOUS
<1>7. first \subseteq upTo
  <2> SUFFICES ASSUME NEW i \in 1..rank PROVE p[i] \in upTo
    BY <1>5
  <2>1. i \in 1..n /\ (i < rank \/ i = rank)
    OBVIOUS
  <2>2. v[p[i]] <= answer
    <3>1. CASE i < rank
      BY <1>2, <2>1, <3>1
    <3>2. CASE i = rank
      BY <1>2, <3>2
    <3> QED
      BY <2>1, <3>1, <3>2
  <2> QED
    BY <1>1, <1>4, <2>1, <2>2
<1>8. IsFiniteSet(upTo) /\ upTo \subseteq 1..n
  BY <1>3, <1>4, FS_Subset
<1>9. Cardinality(first) = rank
  BY <1>5, <1>6, FirstOnes
<1>10. Cardinality(first) <= Cardinality(upTo) /\ Cardinality(upTo) \in Nat
  BY <1>7, <1>8, FS_Subset, FS_CardinalityType
<1>11. below \subseteq 1..n /\ \A i \in 1..n : i \in below <=> v[i] < answer
  OBVIOUS
<1>12. PICK earlier : earlier = {p[i] : i \in 1..(rank - 1)}
  OBVIOUS
<1>13. below \subseteq earlier
  <2> SUFFICES ASSUME NEW x \in below PROVE x \in earlier
    OBVIOUS
  <2>1. x \in 1..n /\ v[x] < answer
    BY <1>11
  <2>2. PICK i \in 1..n : p[i] = x
    BY <1>1, <2>1
  <2>3. ~(rank < i) /\ rank # i
    <3>1. rank < i => answer <= v[x]
      BY <1>2, <2>2
    <3>2. v[x] \in Nat
      BY <2>1
    <3> QED
      BY <1>2, <2>1, <2>2, <3>1, <3>2
  <2>4. i \in 1..(rank - 1)
    BY <2>3
  <2> QED
    BY <1>12, <2>2, <2>4
<1>14. IsFiniteSet(earlier) /\ Cardinality(earlier) = rank - 1
  BY <1>6, <1>12, FirstOnes
<1>15. IsFiniteSet(below) /\ Cardinality(below) \in Nat /\ Cardinality(below) <= Cardinality(earlier)
  BY <1>13, <1>14, FS_Subset, FS_CardinalityType
<1> QED
  BY <1>9, <1>10, <1>14, <1>15

\* Finitely many values can be put in order.
LEMMA CanBeSorted ==
    ASSUME NEW n \in Nat, NEW v \in [1..n -> Nat]
    PROVE  \E p \in Bijection(1..n, 1..n) : \A i, j \in 1..n : i < j => v[p[i]] <= v[p[j]]
<1>1. PICK S : S = 1..n
  OBVIOUS
<1>2. IsFiniteSet(S) /\ Cardinality(S) = n
  BY <1>1, FS_Interval
<1> DEFINE Earlier(x, y) == v[x] < v[y] \/ (v[x] = v[y] /\ x < y)
           R == {pair \in S \X S : Earlier(pair[1], pair[2])}
<1>3. \A x, y \in S : <<x, y>> \in R <=> Earlier(x, y)
  OBVIOUS
<1> HIDE DEF R
<1>4. \A x \in S : v[x] \in Nat /\ x \in Nat
  BY <1>1
<1>5. \A x \in S : <<x, x>> \notin R
  BY <1>3, <1>4
<1>6. ASSUME NEW x \in S, NEW y \in S, NEW z \in S, <<x, y>> \in R, <<y, z>> \in R
      PROVE  <<x, z>> \in R
  <2>1. Earlier(x, y) /\ Earlier(y, z)
    BY <1>3, <1>6
  <2>2. /\ v[x] \in Nat /\ v[y] \in Nat /\ v[z] \in Nat
        /\ x \in Nat /\ y \in Nat /\ z \in Nat
    BY <1>4
  <2>3. Earlier(x, z)
    BY <2>1, <2>2
  <2> QED
    BY <1>3, <2>3
<1>7. \A x, y \in S : x # y => <<x, y>> \in R \/ <<y, x>> \in R
  BY <1>3, <1>4
<1> HIDE DEF Earlier
<1>8. PICK p \in [1..n -> S] : /\ \A x \in S : \E i \in 1..n : p[i] = x
                              /\ \A i, j \in 1..n : i < j => <<p[i], p[j]>> \in R
  BY <1>2, <1>5, <1>6, <1>7, ListedInOrder
<1>9. p \in [1..n -> 1..n] /\ p \in [S -> S]
  BY <1>1
<1>10. \A i, j \in 1..n : p[i] = p[j] => i = j
  <2> SUFFICES ASSUME NEW i \in 1..n, NEW j \in 1..n, p[i] = p[j], i # j PROVE FALSE
    OBVIOUS
  <2>1. i < j \/ j < i
    OBVIOUS
  <2>2. p[i] \in S
    OBVIOUS
  <2> QED
    BY <1>5, <1>8, <2>1, <2>2
<1>11. \A x \in 1..n : \E i \in 1..n : p[i] = x
  BY <1>1, <1>8
<1>12. p \in Bijection(1..n, 1..n)
  BY <1>9, <1>10, <1>11 DEF Bijection, Injection, IsInjective, Surjection
<1>13. ASSUME NEW i \in 1..n, NEW j \in 1..n, i < j PROVE v[p[i]] <= v[p[j]]
  <2>1. Earlier(p[i], p[j])
    BY <1>3, <1>8, <1>13
  <2>2. v[p[i]] \in Nat /\ v[p[j]] \in Nat
    BY <1>9
  <2> QED
    BY <2>1, <2>2 DEF Earlier
<1> QED
  BY <1>12, <1>13

LEMMA TimesKeeps == ASSUME NEW m \in Nat, NEW a \in Nat, NEW b \in Nat, a <= b
                    PROVE  a * m <= b * m /\ a * m \in Nat /\ b * m \in Nat
<1>1. m * a <= m * b /\ m * a \in Nat /\ m * b \in Nat
  BY TimesGrows
<1>2. m * a = a * m /\ m * b = b * m
  OBVIOUS
<1> QED
  BY <1>1, <1>2

\* What is counted up to a rank and below it is at least the share and less than it.
LEMMA ShareOfRank ==
    ASSUME NEW a \in Nat \ {0}, NEW b \in Nat \ {0}, a <= b, NEW n \in Nat \ {0},
           NEW upTo \in Nat, rankOf(<<a, b>>, n) <= upTo,
           NEW below \in Nat, below <= rankOf(<<a, b>>, n) - 1
    PROVE  a * n <= upTo * b /\ below * b < a * n
<1>1. PICK rank \in 1..n : rank = rankOf(<<a, b>>, n)
  BY RankOfShare
<1>2. PICK whole \in Nat : whole = a * n
  OBVIOUS
<1>3. PICK before \in Nat : before = rank - 1
  OBVIOUS
<1>4. rank \in Nat /\ rank <= upTo /\ below <= before
  BY <1>1, <1>3
<1>5. PICK most \in Nat : most = rank * b
  BY <1>4
<1>6. PICK least \in Nat : least = before * b
  OBVIOUS
<1>7. whole <= most /\ least < whole
  BY <1>1, <1>2, <1>3, <1>5, <1>6, RankOfShare
<1>8. PICK upper \in Nat : upper = upTo * b
  OBVIOUS
<1>9. PICK lower \in Nat : lower = below * b
  OBVIOUS
<1>10. most <= upper
  BY <1>4, <1>5, <1>8, TimesKeeps
<1>11. lower <= least
  BY <1>4, <1>6, <1>9, TimesKeeps
<1>12. whole <= upper /\ lower < whole
  BY <1>7, <1>10, <1>11
<1> QED
  BY <1>2, <1>8, <1>9, <1>12

\* A share of any values is answered at its nearest rank.
LEMMA AtShare ==
    ASSUME NEW n \in Nat \ {0}, NEW values, values \in [1..n -> Nat],
           NEW a \in Nat \ {0}, NEW b \in Nat \ {0}, a <= b
    PROVE  NearestRank(values, <<a, b>>, atShare(values, <<a, b>>))
<1>1. DOMAIN values = 1..n /\ Len(values) = n /\ values # <<>>
  <2>1. DOMAIN values = 1..n /\ 1 \in 1..n
    OBVIOUS
  <2>2. values \in Seq(Nat)
    OBVIOUS
  <2> QED
    BY <2>1, <2>2
<1>2. PICK p \in Bijection(1..n, 1..n) :
         /\ \A i, j \in 1..n : i < j => values[p[i]] <= values[p[j]]
         /\ atShare(values, <<a, b>>) = values[p[rankOf(<<a, b>>, n)]]
  <2>1. PICK sorted : sorted = CHOOSE p \in Bijection(1..n, 1..n) :
                                 \A i, j \in 1..n : i < j => values[p[i]] <= values[p[j]]
    OBVIOUS
  <2>2. /\ sorted \in Bijection(1..n, 1..n)
        /\ \A i, j \in 1..n : i < j => values[sorted[i]] <= values[sorted[j]]
    BY <2>1, CanBeSorted
  <2>3. atShare(values, <<a, b>>) = values[sorted[rankOf(<<a, b>>, n)]]
    BY <1>1, <2>1 DEF atShare
  <2> QED
    BY <2>2, <2>3
<1>3. PICK answer : answer = values[p[rankOf(<<a, b>>, n)]]
  OBVIOUS
<1>4. PICK upTo : upTo = {i \in 1..n : values[i] <= answer}
  OBVIOUS
<1>5. PICK below : below = {i \in 1..n : values[i] < answer}
  OBVIOUS
<1>6. PICK rank \in 1..n : rank = rankOf(<<a, b>>, n)
  BY RankOfShare
<1>7. /\ \E i \in 1..n : values[i] = answer
      /\ a * n <= Cardinality(upTo) * b
      /\ Cardinality(below) * b < a * n
  <2>1. \A i, j \in 1..n : i < j => values[p[i]] <= values[p[j]]
    BY <1>2
  <2>2. answer = values[p[rank]] /\ p[rank] \in 1..n
    BY <1>3, <1>6 DEF Bijection, Injection
  <2>3. PICK most \in Nat, least \in Nat : /\ most = Cardinality(upTo) /\ rank <= most
                                          /\ least = Cardinality(below) /\ least <= rank - 1
    <3>1. upTo \subseteq 1..n /\ \A i \in 1..n : i \in upTo <=> values[i] <= answer
      BY <1>4
    <3>2. below \subseteq 1..n /\ \A i \in 1..n : i \in below <=> values[i] < answer
      BY <1>5
    <3> QED
      BY <2>1, <2>2, <3>1, <3>2, AtRank
  <2>4. a * n <= most * b /\ least * b < a * n
    BY <1>6, <2>3, ShareOfRank
  <2> QED
    BY <2>2, <2>3, <2>4
<1>8. <<a, b>>[1] = a /\ <<a, b>>[2] = b
  OBVIOUS
<1>9. atShare(values, <<a, b>>) = answer
  BY <1>2, <1>3
<1> QED
  BY <1>1, <1>4, <1>5, <1>6, <1>7, <1>8, <1>9 DEF NearestRank

\* The runs kept behind an account were measured, and there are some.
LEMMA KeptRuns ==
    ASSUME IInv, RingInv, AccountInv, NEW key \in DOMAIN totals
    PROVE  \E n \in Nat \ {0} :
              /\ DOMAIN recent(rings[key]) = 1..n
              /\ \A i \in 1..n : Measured(recent(rings[key])[i], now)
<1>1. PICK all : all = recorded[key]
  OBVIOUS
<1>2. PICK runs : runs = recent(rings[key])
  OBVIOUS
<1>3. PICK S : S = {entry.change : entry \in Range(all)}
  OBVIOUS
<1>4. runs \in Seq(S)
  BY <1>1, <1>2, <1>3, RecentIs
<1>5. Len(all) \in Nat /\ Len(runs) = IF Len(all) <= MaxRuns THEN Len(all) ELSE MaxRuns
  BY <1>1, <1>2, RecentIs
<1>6. Entries(all, now) /\ all # <<>>
  BY <1>1 DEF AccountInv
<1>7. Len(all) # 0
  BY <1>6 DEF Entries
<1>8. MaxRuns \in Nat \ {0}
  BY CostsAssumption
<1>9. Len(runs) \in Nat \ {0}
  BY <1>5, <1>7, <1>8
<1>10. ASSUME NEW x \in S PROVE Measured(x, now)
  BY <1>3, <1>6 DEF Entries, Range
<1>11. DOMAIN runs = 1..Len(runs) /\ \A i \in 1..Len(runs) : runs[i] \in S
  BY <1>4, MemberType
<1> QED
  BY <1>2, <1>9, <1>10, <1>11

\* What a snapshot holds is an account.
LEMMA InSnapshot ==
    ASSUME LedgerInv, AccountInv, NEW cost \in Range(Snapshot)
    PROVE  \E key \in DOMAIN totals : cost = AccountOf(key)
<1>1. PICK n \in Nat : \E keys \in [1..n -> DOMAIN totals] :
            /\ \A key \in DOMAIN totals : \E i \in 1..n : keys[i] = key
            /\ \A i, j \in 1..n : i < j => Before(keys[i], keys[j])
            /\ \A i, j \in 1..n : i < j => keys[i] # keys[j]
            /\ Snapshot = [i \in 1..n |-> AccountOf(keys[i])]
  BY SnapshotIs
<1>2. PICK keys \in [1..n -> DOMAIN totals] : Snapshot = [i \in 1..n |-> AccountOf(keys[i])]
  BY <1>1
<1>3. PICK i \in 1..n : cost = AccountOf(keys[i])
  BY <1>2 DEF Range
<1> QED
  BY <1>3

\* A share of the kept runs is answered by a measurement that happened: at least that
\* share of them took no more, and less than that share took less.
THEOREM SharesAreMeasured == Spec => []ShareIsNearestRank
<1>1. IInv /\ RingInv /\ LedgerInv /\ AccountInv => ShareIsNearestRank
  <2> SUFFICES ASSUME IInv, RingInv, LedgerInv, AccountInv,
                      NEW cost \in Range(Snapshot), NEW share \in Shares
               PROVE  /\ NearestRank(Durations(cost), share, DurationAt(cost, share))
                      /\ NearestRank(Spendings(cost, "AllocBytes"), share, BytesAt(cost, share))
                      /\ NearestRank(Spendings(cost, "AllocObjects"), share, ObjectsAt(cost, share))
    BY DEF ShareIsNearestRank
  <2>1. PICK key \in DOMAIN totals : cost = AccountOf(key)
    BY InSnapshot
  <2>2. cost.Runs = recent(rings[key])
    BY <2>1 DEF AccountOf
  <2>3. PICK n \in Nat \ {0} : DOMAIN cost.Runs = 1..n /\ \A i \in 1..n : Measured(cost.Runs[i], now)
    BY <2>2, KeptRuns
  <2>4. PICK a \in Nat \ {0}, b \in Nat \ {0} : a <= b /\ share = <<a, b>>
    <3>1. 1 \in Nat \ {0} /\ 2 \in Nat \ {0} /\ 3 \in Nat \ {0} /\ 99 \in Nat \ {0} /\ 100 \in Nat \ {0}
      OBVIOUS
    <3> QED
      BY <3>1 DEF Shares
  <2>5. now \in 0..Limit
    BY DEF IInv, TypeOK
  <2>6. \A i \in 1..n : /\ \A c \in Counters : cost.Runs[i].Spent[c] \in Nat
                        /\ cost.Runs[i].Duration \in Nat
    BY <2>3, <2>5, MeasuredType
  <2>7. NearestRank(Durations(cost), share, DurationAt(cost, share))
    <3>1. PICK values : values = Durations(cost)
      OBVIOUS
    <3>2. values \in [1..n -> Nat]
      <4>1. \A i \in 1..n : DurationOf(cost.Runs[i]) \in Nat
        BY <2>6 DEF DurationOf
      <4> QED
        BY <2>3, <3>1, <4>1 DEF Durations
    <3>3. NearestRank(values, share, atShare(values, share))
      BY <2>4, <3>2, AtShare
    <3> QED
      BY <3>1, <3>3 DEF DurationAt
  <2>8. ASSUME NEW c \in Counters
        PROVE  NearestRank(Spendings(cost, c), share, atShare(Spendings(cost, c), share))
    <3>1. PICK values : values = Spendings(cost, c)
      OBVIOUS
    <3>2. values \in [1..n -> Nat]
      BY <2>3, <2>6, <3>1 DEF Spendings
    <3>3. NearestRank(values, share, atShare(values, share))
      BY <2>4, <3>2, AtShare
    <3> QED
      BY <3>1, <3>3
  <2>9. "AllocBytes" \in Counters /\ "AllocObjects" \in Counters
    BY DEF Counters
  <2>10. NearestRank(Spendings(cost, "AllocBytes"), share, BytesAt(cost, share))
    BY <2>8, <2>9 DEF BytesAt
  <2>11. NearestRank(Spendings(cost, "AllocObjects"), share, ObjectsAt(cost, share))
    BY <2>8, <2>9 DEF ObjectsAt
  <2> QED
    BY <2>7, <2>10, <2>11
<1>2. Init => RingInv
  BY DEF Init, RingInv
<1> QED
  BY <1>1, <1>2, InitHolds, StepKeeps, LedgerInit, LedgerStep, RingStep, AccountInit, TakenStep,
     AccountStep, PTL DEF Spec

-----------------------------------------------------------------------------
(* Bands.                                                                    *)

\* Added up over one more.
LEMMA SumOver ==
    ASSUME NEW V, IsFiniteSet(V), NEW x, x \notin V, NEW w, \A y \in V \cup {x} : w[y] \in Nat
    PROVE  SumFunction([y \in V \cup {x} |-> w[y]]) = SumFunction([y \in V |-> w[y]]) + w[x]
<1>1. PICK v : v = [y \in V |-> w[y]]
  OBVIOUS
<1>2. PICK u : u = [y \in V \cup {x} |-> w[y]]
  OBVIOUS
<1>3. v \in [V -> Nat] /\ u \in [V \cup {x} -> Nat]
  BY <1>1, <1>2
<1>4. PICK d \in Nat : d = w[x]
  OBVIOUS
<1>5. u[x] = (IF x \in V THEN v[x] ELSE 0) + d
  BY <1>2, <1>4
<1>6. \A y \in V \ {x} : u[y] = v[y]
  BY <1>1, <1>2
<1>7. SumFunction(u) = SumFunction(v) + d
  BY <1>3, <1>5, <1>6, SumWith
<1> QED
  BY <1>1, <1>2, <1>4, <1>7

\* Each part is what adds up over it.
IsParted(g, w, f) == \A b \in DOMAIN g : g[b] = SumFunction([x \in {y \in DOMAIN w : f[y] = b} |-> w[x]])

\* Sums over the parts add up to the sum of the whole.
LEMMA SumOfParts ==
    ASSUME NEW S, IsFiniteSet(S), NEW w \in [S -> Nat], NEW T, IsFiniteSet(T), NEW f \in [S -> T],
           NEW g \in [T -> Nat], IsParted(g, w, f)
    PROVE  SumFunction(g) = SumFunction(w)
<1> DEFINE Part(U, b) == {y \in U : f[y] = b}
           In(U, b) == SumFunction([x \in Part(U, b) |-> w[x]])
           Parts(U) == [b \in T |-> In(U, b)]
           Whole(U) == SumFunction([x \in U |-> w[x]])
           Good == {U \in SUBSET S : SumFunction(Parts(U)) = Whole(U)}
<1>1. ASSUME NEW U \in SUBSET S
      PROVE  /\ IsFiniteSet(U) /\ [x \in U |-> w[x]] \in [U -> Nat]
             /\ \A b \in T : /\ IsFiniteSet(Part(U, b)) /\ [x \in Part(U, b) |-> w[x]] \in [Part(U, b) -> Nat]
                             /\ In(U, b) \in Nat
             /\ Parts(U) \in [T -> Nat]
  <2>1. IsFiniteSet(U) /\ [x \in U |-> w[x]] \in [U -> Nat]
    BY FS_Subset
  <2>2. ASSUME NEW b \in T
        PROVE  /\ IsFiniteSet(Part(U, b)) /\ [x \in Part(U, b) |-> w[x]] \in [Part(U, b) -> Nat]
               /\ In(U, b) \in Nat
    <3>1. Part(U, b) \subseteq S
      OBVIOUS
    <3> HIDE DEF Part
    <3>2. IsFiniteSet(Part(U, b)) /\ [x \in Part(U, b) |-> w[x]] \in [Part(U, b) -> Nat]
      BY <3>1, FS_Subset
    <3>3. In(U, b) \in Nat
      BY <3>2, SumType
    <3> QED
      BY <3>2, <3>3
  <2> HIDE DEF In, Part
  <2>3. Parts(U) \in [T -> Nat]
    BY <2>2
  <2> QED
    BY <2>1, <2>2, <2>3
<1>2. {} \in Good
  <2>1. ASSUME NEW b \in T PROVE In({}, b) = 0
    <3>1. Part({}, b) = {} /\ {} \in SUBSET S
      OBVIOUS
    <3> HIDE DEF Part
    <3>2. [x \in Part({}, b) |-> w[x]] \in [Part({}, b) -> Nat]
      BY <1>1, <3>1
    <3> QED
      BY <3>1, <3>2, SumOfOne
  <2>2. Whole({}) = 0
    <3>1. [x \in {} |-> w[x]] \in [{} -> Nat]
      OBVIOUS
    <3> QED
      BY <3>1, SumOfOne
  <2> HIDE DEF In, Whole
  <2>3. PICK p : p = Parts({})
    OBVIOUS
  <2>4. p \in [T -> Nat] /\ \A b \in T : p[b] = 0
    BY <2>1, <2>3
  <2>5. SumFunction(p) = 0
    BY <2>4, SumOfNone
  <2> QED
    BY <2>2, <2>3, <2>5
<1>3. ASSUME NEW U \in SUBSET S, U # {}, \A x \in U : U \ {x} \in Good PROVE U \in Good
  <2>1. PICK x : x \in U
    BY <1>3
  <2>2. PICK V : V = U \ {x}
    OBVIOUS
  <2>3. V \in SUBSET S /\ x \notin V /\ U = V \cup {x} /\ x \in S /\ f[x] \in T /\ w[x] \in Nat
    BY <2>1, <2>2
  <2>4. SumFunction(Parts(V)) = Whole(V)
    BY <1>3, <2>1, <2>2
  <2>5. Whole(U) = Whole(V) + w[x]
    <3>1. IsFiniteSet(V) /\ \A y \in V \cup {x} : w[y] \in Nat
      BY <1>1, <2>3
    <3> QED
      BY <2>3, <3>1, SumOver
  <2>6. In(U, f[x]) = In(V, f[x]) + w[x]
    <3>1. PICK A : A = Part(V, f[x])
      OBVIOUS
    <3>2. Part(U, f[x]) = A \cup {x} /\ x \notin A /\ A \subseteq S
      BY <2>3, <3>1
    <3>3. IsFiniteSet(A) /\ \A y \in A \cup {x} : w[y] \in Nat
      BY <2>3, <3>2, FS_Subset
    <3>4. SumFunction([y \in A \cup {x} |-> w[y]]) = SumFunction([y \in A |-> w[y]]) + w[x]
      BY <3>2, <3>3, SumOver
    <3> HIDE DEF Part
    <3> QED
      BY <3>1, <3>2, <3>4
  <2>7. ASSUME NEW b \in T \ {f[x]} PROVE In(U, b) = In(V, b)
    <3>1. Part(U, b) = Part(V, b)
      BY <2>3
    <3> HIDE DEF Part
    <3> QED
      BY <3>1
  <2> HIDE DEF In, Whole
  <2>8. PICK p : p = Parts(V)
    OBVIOUS
  <2>9. PICK q : q = Parts(U)
    OBVIOUS
  <2>10. p \in [T -> Nat] /\ q \in [T -> Nat] /\ T \cup {f[x]} = T
    <3>1. Parts(V) \in [T -> Nat] /\ Parts(U) \in [T -> Nat]
      BY <1>1, <2>3
    <3> QED
      BY <2>3, <2>8, <2>9, <3>1
  <2>11. q[f[x]] = (IF f[x] \in T THEN p[f[x]] ELSE 0) + w[x] /\ \A b \in T \ {f[x]} : q[b] = p[b]
    BY <2>3, <2>6, <2>7, <2>8, <2>9
  <2>12. SumFunction(q) = SumFunction(p) + w[x]
    <3>5. PICK k : k = f[x]
      OBVIOUS
    <3>1. PICK d \in Nat : k = f[x] /\ d = w[x]
      BY <2>3, <3>5
    <3>2. q \in [T \cup {k} -> Nat]
      BY <2>10, <3>1
    <3>3. q[k] = (IF k \in T THEN p[k] ELSE 0) + d /\ \A b \in T \ {k} : q[b] = p[b]
      BY <2>11, <3>1
    <3>4. SumFunction(q) = SumFunction(p) + d
      BY <2>10, <3>2, <3>3, SumWith
    <3> QED
      BY <3>1, <3>4
  <2> QED
    BY <2>4, <2>5, <2>8, <2>9, <2>12
<1>4. S \in Good
  <2> HIDE DEF Good
  <2>1. SUBSET S \subseteq Good
    BY <1>2, <1>3, SubsetInduction
  <2> QED
    BY <2>1
<1>5. SumFunction(Parts(S)) = Whole(S)
  BY <1>4
<1>6. Parts(S) = g
  BY DEF IsParted
<1>7. [x \in S |-> w[x]] = w
  OBVIOUS
<1> HIDE DEF Parts
<1> QED
  BY <1>5, <1>6, <1>7

\* Those are the classes that saw something, each once.
SawSomething(those, k, classes, n) ==
    /\ those \in [1..k -> 1..n]
    /\ \A a \in 1..k : classes[those[a]].Count # 0
    /\ \A a, b \in 1..k : those[a] = those[b] => a = b
    /\ \A i \in 1..n : classes[i].Count # 0 => \E a \in 1..k : those[a] = i
InOrder(seen, those, k, classes, n) ==
    /\ seen = [m \in 1..k |-> classes[those[m]]]
    /\ \A a, b \in 1..k : a < b => those[a] < those[b]
    /\ SawSomething(those, k, classes, n)
MappedTo(A, k, f, Q) == A \subseteq 1..k /\ \A a \in 1..k : a \in A <=> f[a] \in Q
CountIn(A, classes) == SumFunction([a \in A |-> classes[a].Count])

\* The classes that saw something count what all of them do.
LEMMA SeenAddsUp ==
    ASSUME NEW n \in Nat, NEW classes \in [1..n -> [AtMost : Nat, Count : Nat]],
           NEW k \in Nat, NEW those, NEW seen, InOrder(seen, those, k, classes, n),
           NEW Q \in SUBSET (1..n), NEW A, MappedTo(A, k, those, Q)
    PROVE  CountIn(A, seen) = CountIn(Q, classes)
<1>1. A \subseteq 1..k /\ \A a \in A : those[a] \in Q
  BY DEF MappedTo
<1>2. IsFiniteSet(A) /\ IsFiniteSet(Q)
  <2>1. IsFiniteSet(1..k) /\ IsFiniteSet(1..n)
    BY FS_Interval
  <2> QED
    BY <1>1, <2>1, FS_Subset
<1>3. PICK w : w = [a \in A |-> seen[a].Count] /\ w = [a \in A |-> classes[those[a]].Count]
  BY <1>1 DEF InOrder
<1>4. PICK g : g = [b \in Q |-> classes[b].Count]
  OBVIOUS
<1>5. PICK f : f = [a \in A |-> those[a]]
  OBVIOUS
<1>6. \A i \in 1..n : classes[i].Count \in Nat
  OBVIOUS
<1>7. w \in [A -> Nat] /\ g \in [Q -> Nat] /\ f \in [A -> Q]
  BY <1>1, <1>3, <1>4, <1>5, <1>6
<1>8. ASSUME NEW b \in Q PROVE g[b] = SumFunction([x \in {y \in A : f[y] = b} |-> w[x]])
  <2>1. PICK P : P = {y \in A : f[y] = b}
    OBVIOUS
  <2>2. PICK v : v = [x \in P |-> w[x]]
    OBVIOUS
  <2>3. v \in [P -> Nat]
    BY <1>7, <2>1, <2>2
  <2>4. CASE classes[b].Count # 0
    <3>1. PICK a \in 1..k : those[a] = b
      BY <2>4 DEF SawSomething, InOrder
    <3>2. P = {a}
      BY <1>1, <1>5, <2>1, <3>1 DEF SawSomething, InOrder, MappedTo
    <3>3. SumFunction(v) = v[a]
      BY <2>3, <3>2, SumOfOne
    <3>4. v[a] = g[b]
      BY <1>3, <1>4, <2>1, <2>2, <3>1, <3>2
    <3> QED
      BY <2>1, <2>2, <3>3, <3>4
  <2>5. CASE classes[b].Count = 0
    <3>1. P = {}
      BY <1>1, <1>5, <2>1, <2>5 DEF SawSomething, InOrder
    <3>2. SumFunction(v) = 0
      BY <2>3, <3>1, SumOfOne
    <3>3. g[b] = 0
      BY <1>4, <2>5
    <3> QED
      BY <2>1, <2>2, <3>2, <3>3
  <2> QED
    BY <2>4, <2>5
<1>9. IsParted(g, w, f)
  <2>1. DOMAIN g = Q /\ DOMAIN w = A
    BY <1>3, <1>4
  <2> QED
    BY <1>8, <2>1 DEF IsParted
<1>10. SumFunction(g) = SumFunction(w)
  BY <1>2, <1>7, <1>9, SumOfParts, ZenonT(40)
<1> QED
  BY <1>3, <1>4, <1>10 DEF CountIn

\* A size belongs to the first band whose edge is at or above it, or to the last.
LEMMA BandOf ==
    ASSUME NEW x \in Nat
    PROVE  /\ Len(bands) \in Nat /\ DOMAIN bands = 1..Len(bands)
           /\ bandOf(x) \in 1..(Len(bands) + 1)
           /\ \A e \in DOMAIN bands : bandOf(x) <= e <=> x <= bands[e]
<1>1. PICK n \in Nat : n = Len(bands) /\ DOMAIN bands = 1..n
  BY SizesAssumption
<1>2. PICK S : S = {i \in DOMAIN bands : x <= bands[i]} \cup {n + 1}
  OBVIOUS
<1>3. S \subseteq 1..(n + 1) /\ n + 1 \in S
  BY <1>1, <1>2
<1>4. IsFiniteSet(S) /\ S \subseteq Nat /\ S # {}
  <2>1. IsFiniteSet(1..(n + 1)) /\ 1..(n + 1) \subseteq Nat
    BY FS_Interval
  <2> QED
    BY <1>3, <2>1, FS_Subset
<1>5. PICK b \in S : b = Min(S) /\ \A y \in S : b <= y
  BY <1>4, Extremes
<1>6. bandOf(x) = b
  BY <1>1, <1>2, <1>5 DEF bandOf
<1>7. ASSUME NEW e \in 1..n PROVE b <= e <=> x <= bands[e]
  <2>1. \A i \in 1..n : bands[i] \in Nat
    BY <1>1, SizesAssumption
  <2>2. ASSUME x <= bands[e] PROVE b <= e
    BY <1>1, <1>2, <1>5, <2>2
  <2>3. ASSUME b <= e PROVE x <= bands[e]
    <3>1. b \in 1..n /\ x <= bands[b]
      BY <1>1, <1>2, <1>3, <2>3
    <3>2. bands[b] <= bands[e]
      <4>1. b < e => bands[b] < bands[e]
        BY <1>1, <3>1, SizesAssumption
      <4> QED
        BY <2>1, <2>3, <3>1, <4>1
    <3> QED
      BY <2>1, <3>1, <3>2
  <2> QED
    BY <2>2, <2>3
<1> QED
  BY <1>1, <1>3, <1>5, <1>6, <1>7

\* What the bands are, the empty ones too: a class of its own each, by size.
LEMMA InBandsType ==
    ASSUME NEW k \in Nat, NEW classes \in [1..k -> [AtMost : Nat, Count : Nat]]
    PROVE  /\ Len(bands) \in Nat /\ DOMAIN bands = 1..Len(bands)
           /\ InBands(classes) \in [1..(Len(bands) + 1) -> [AtMost : Nat, Count : Nat]]
           /\ \A a, b \in 1..(Len(bands) + 1) :
                a < b => InBands(classes)[a].AtMost < InBands(classes)[b].AtMost
<1>1. PICK n \in Nat : n = Len(bands) /\ DOMAIN bands = 1..n
  BY SizesAssumption
<1>2. /\ Unbounded \in Nat /\ \A i \in 1..n : bands[i] \in Nat /\ bands[i] < Unbounded
      /\ \A i, j \in 1..n : i < j => bands[i] < bands[j]
  <2>1. Unbounded \in Nat /\ \A i \in 1..n : bands[i] < Unbounded
    BY <1>1, SizesAssumption
  <2>2. \A i \in 1..n : bands[i] \in Nat
    BY <1>1, SizesAssumption
  <2>3. \A i, j \in 1..n : i < j => bands[i] < bands[j]
    BY <1>1, SizesAssumption
  <2> QED
    BY <2>1, <2>2, <2>3
<1>3. ASSUME NEW b \in 1..(n + 1)
      PROVE  /\ InBands(classes)[b].AtMost = (IF b \in 1..n THEN bands[b] ELSE Unbounded)
             /\ InBands(classes)[b] \in [AtMost : Nat, Count : Nat]
  <2>1. PICK D : D = {m \in DOMAIN classes : bandOf(classes[m].AtMost) = b}
    OBVIOUS
  <2>2. PICK g : g = [m \in D |-> classes[m].Count]
    OBVIOUS
  <2>3. D \subseteq 1..k /\ IsFiniteSet(1..k)
    BY <2>1, FS_Interval
  <2>4. IsFiniteSet(D) /\ g \in [D -> Nat]
    BY <2>2, <2>3, FS_Subset
  <2>5. SumFunction(g) \in Nat
    BY <2>4, SumType
  <2>6. InBands(classes)[b] = [AtMost |-> IF b \in 1..n THEN bands[b] ELSE Unbounded, Count |-> SumFunction(g)]
    BY <1>1, <2>1, <2>2 DEF InBands, CountWhere
  <2>7. (IF b \in 1..n THEN bands[b] ELSE Unbounded) \in Nat
    BY <1>2
  <2> QED
    BY <2>5, <2>6, <2>7
<1>4. ASSUME NEW a \in 1..(n + 1), NEW b \in 1..(n + 1), a < b
      PROVE  InBands(classes)[a].AtMost < InBands(classes)[b].AtMost
  <2>1. a \in 1..n /\ InBands(classes)[a].AtMost = bands[a]
    BY <1>3, <1>4
  <2>2. b \in 1..n => InBands(classes)[b].AtMost = bands[b] /\ bands[a] < bands[b]
    BY <1>2, <1>3, <1>4, <2>1
  <2>3. b \notin 1..n => InBands(classes)[b].AtMost = Unbounded /\ bands[a] < Unbounded
    BY <1>2, <1>3, <2>1
  <2> QED
    BY <2>1, <2>2, <2>3
<1>5. InBands(classes) \in [1..(n + 1) -> [AtMost : Nat, Count : Nat]]
  <2>1. PICK r : r = InBands(classes)
    OBVIOUS
  <2>2. DOMAIN r = 1..(n + 1) /\ r = [b \in 1..(n + 1) |-> r[b]]
    BY <1>1, <2>1 DEF InBands
  <2>3. \A b \in 1..(n + 1) : r[b] \in [AtMost : Nat, Count : Nat]
    BY <1>3, <2>1
  <2> QED
    BY <2>1, <2>2, <2>3
<1> QED
  BY <1>1, <1>4, <1>5

\* Those of the classes whose sizes belong to the bands.
FallIn(M, k, classes, Q) == M \subseteq 1..k /\ \A m \in 1..k : m \in M <=> bandOf(classes[m].AtMost) \in Q

\* The bands count what their classes do.
LEMMA BandsAddUp ==
    ASSUME NEW k \in Nat, NEW classes \in [1..k -> [AtMost : Nat, Count : Nat]],
           NEW n \in Nat, n = Len(bands) + 1,
           NEW Q \in SUBSET (1..n), NEW M, FallIn(M, k, classes, Q)
    PROVE  CountIn(M, classes) = CountIn(Q, InBands(classes))
<1>1. M \subseteq 1..k /\ \A m \in M : bandOf(classes[m].AtMost) \in Q
  BY DEF FallIn
<1>2. IsFiniteSet(M) /\ IsFiniteSet(Q)
  <2>1. IsFiniteSet(1..k) /\ IsFiniteSet(1..n)
    BY FS_Interval
  <2> QED
    BY <1>1, <2>1, FS_Subset
<1>3. PICK w : w = [m \in M |-> classes[m].Count]
  OBVIOUS
<1>4. PICK g : g = [b \in Q |-> InBands(classes)[b].Count]
  OBVIOUS
<1>5. PICK h : h = [m \in M |-> bandOf(classes[m].AtMost)]
  OBVIOUS
<1>6. w \in [M -> Nat] /\ h \in [M -> Q]
  BY <1>1, <1>3, <1>5
<1>7. g \in [Q -> Nat]
  <2>1. \A b \in Q : InBands(classes)[b].Count \in Nat
    BY InBandsType
  <2> QED
    BY <1>4, <2>1
<1>8. ASSUME NEW b \in Q PROVE g[b] = SumFunction([x \in {y \in M : h[y] = b} |-> w[x]])
  <2>1. PICK P : P = {y \in M : h[y] = b}
    OBVIOUS
  <2>2. P = {m \in DOMAIN classes : bandOf(classes[m].AtMost) = b}
    BY <1>1, <1>5, <2>1 DEF FallIn
  <2>3. [x \in P |-> w[x]] = [m \in P |-> classes[m].Count]
    BY <1>3, <2>1
  <2>4. g[b] = SumFunction([m \in P |-> classes[m].Count])
    BY <1>4, <2>2 DEF InBands, CountWhere
  <2> QED
    BY <2>1, <2>3, <2>4
<1>9. IsParted(g, w, h)
  <2>1. DOMAIN g = Q /\ DOMAIN w = M
    BY <1>3, <1>4
  <2> QED
    BY <1>8, <2>1 DEF IsParted
<1>10. SumFunction(g) = SumFunction(w)
  BY <1>2, <1>6, <1>7, <1>9, SumOfParts, ZenonT(60)
<1> QED
  BY <1>3, <1>4, <1>10 DEF CountIn

\* No edge is above the last.
LEMMA EdgesBounded == Unbounded \in Nat /\ \A edge \in Edges : edge \in Nat /\ edge <= Unbounded
<1>1. Unbounded \in Nat
  BY SizesAssumption
<1>2. \A i \in DOMAIN Boundaries : Boundaries[i] <= Unbounded
  BY CostsAssumption
<1>3. \A i \in Buckets : boundOf(Boundaries, i) <= Unbounded
  BY <1>1, <1>2 DEF boundOf
<1> QED
  BY <1>1, <1>3, EdgesType DEF Edges

\* The classes that saw something, in their order.
LEMMA SeenInOrder ==
    ASSUME NEW n \in Nat, NEW classes \in [1..n -> [AtMost : Nat, Count : Nat]]
    PROVE  \E k \in Nat : \E those : InOrder(Seen(classes), those, k, classes, n)
<1>1. PICK k \in Nat : \E those \in [1..k -> {i \in 1..n : classes[i].Count # 0}] :
               /\ Seen(classes) = [m \in 1..k |-> classes[those[m]]]
               /\ \A a, b \in 1..k : a < b => those[a] < those[b]
               /\ \A a, b \in 1..k : those[a] = those[b] => a = b
               /\ \A i \in 1..n : classes[i].Count # 0 => \E a \in 1..k : those[a] = i
  BY SeenIs
<1>2. PICK those \in [1..k -> {i \in 1..n : classes[i].Count # 0}] :
               /\ Seen(classes) = [m \in 1..k |-> classes[those[m]]]
               /\ \A a, b \in 1..k : a < b => those[a] < those[b]
               /\ \A a, b \in 1..k : those[a] = those[b] => a = b
               /\ \A i \in 1..n : classes[i].Count # 0 => \E a \in 1..k : those[a] = i
  BY <1>1
<1>3. \A a \in 1..k : those[a] \in 1..n /\ classes[those[a]].Count # 0
  OBVIOUS
<1>4. those \in [1..k -> 1..n]
  BY <1>3
<1>5. SawSomething(those, k, classes, n)
  BY <1>2, <1>3, <1>4 DEF SawSomething
<1> QED
  BY <1>2, <1>5 DEF InOrder

\* Whatever bands are looked at, the coarse classes taken from them count what the
\* fine classes that fall in them do.
CountsAlike(coarse, j, those, fine, k, n) ==
    \A Q \in SUBSET (1..n) : \A A, M :
        MappedTo(A, j, those, Q) /\ FallIn(M, k, fine, Q) => CountIn(A, coarse) = CountIn(M, fine)
BandedAs(coarse, j, those, fine, k, n) ==
    /\ those \in [1..j -> 1..n]
    /\ DOMAIN coarse = 1..j
    /\ \A a \in 1..j : /\ coarse[a].AtMost = (IF those[a] \in 1..(n - 1) THEN bands[those[a]] ELSE Unbounded)
                       /\ coarse[a].Count \in Nat \ {0}
    /\ \A a, b \in 1..j : a < b => coarse[a].AtMost < coarse[b].AtMost
    /\ CountsAlike(coarse, j, those, fine, k, n)

\* Of a spread's bands: they are its classes gathered, the ones that saw something, by size.
LEMMA BandsAre ==
    ASSUME NEW k \in Nat, NEW fine \in [1..k -> [AtMost : Nat, Count : Nat]],
           NEW n \in Nat, n = Len(bands) + 1
    PROVE  \E j \in Nat : \E those : BandedAs(Seen(InBands(fine)), j, those, fine, k, n)
<1>1. PICK banded : banded = InBands(fine)
  OBVIOUS
<1>2. /\ banded \in [1..n -> [AtMost : Nat, Count : Nat]]
      /\ \A a, b \in 1..n : a < b => banded[a].AtMost < banded[b].AtMost
  BY <1>1, InBandsType
<1>3. PICK j \in Nat : \E those : InOrder(Seen(banded), those, j, banded, n)
  BY <1>2, SeenInOrder
<1>4. PICK those : InOrder(Seen(banded), those, j, banded, n)
  BY <1>3
<1>5. /\ Seen(banded) = [m \in 1..j |-> banded[those[m]]]
      /\ \A a, b \in 1..j : a < b => those[a] < those[b]
      /\ SawSomething(those, j, banded, n)
  BY <1>4 DEF InOrder
<1>6. those \in [1..j -> 1..n] /\ \A a \in 1..j : those[a] \in 1..n /\ banded[those[a]].Count # 0
  BY <1>5 DEF SawSomething
<1>7. PICK coarse : coarse = Seen(banded)
  OBVIOUS
<1>8. DOMAIN coarse = 1..j /\ \A a \in 1..j : coarse[a] = banded[those[a]]
  BY <1>5, <1>7
<1>9. \A a \in 1..j : coarse[a].Count \in Nat \ {0}
  BY <1>2, <1>6, <1>8
<1>10. ASSUME NEW a \in 1..j
       PROVE  coarse[a].AtMost = (IF those[a] \in 1..(n - 1) THEN bands[those[a]] ELSE Unbounded)
  <2>1. Len(bands) \in Nat /\ DOMAIN bands = 1..(n - 1)
    BY SizesAssumption
  <2>2. those[a] \in 1..n /\ coarse[a] = banded[those[a]]
    BY <1>6, <1>8
  <2> QED
    BY <1>1, <2>1, <2>2 DEF InBands
<1>11. ASSUME NEW a \in 1..j, NEW b \in 1..j, a < b PROVE coarse[a].AtMost < coarse[b].AtMost
  <2>1. those[a] < those[b] /\ those[a] \in 1..n /\ those[b] \in 1..n
    BY <1>5, <1>6, <1>11
  <2>2. banded[those[a]].AtMost < banded[those[b]].AtMost
    BY <1>2, <2>1
  <2> QED
    BY <1>8, <2>2
<1>12. ASSUME NEW Q \in SUBSET (1..n), NEW A, NEW M, MappedTo(A, j, those, Q), FallIn(M, k, fine, Q)
       PROVE  CountIn(A, coarse) = CountIn(M, fine)
  <2>1. InOrder(coarse, those, j, banded, n)
    BY <1>4, <1>7
  <2>2. CountIn(A, coarse) = CountIn(Q, banded)
    BY <1>2, <1>12, <2>1, SeenAddsUp, SMTT(40)
  <2>3. CountIn(M, fine) = CountIn(Q, InBands(fine))
    BY <1>12, BandsAddUp
  <2> QED
    BY <1>1, <2>2, <2>3
<1>13. CountsAlike(coarse, j, those, fine, k, n)
  BY <1>12 DEF CountsAlike
<1>14. BandedAs(coarse, j, those, fine, k, n)
  BY <1>6, <1>8, <1>9, <1>10, <1>11, <1>13 DEF BandedAs
<1> QED
  BY <1>1, <1>7, <1>14

\* The bands up to a limit, by number, are those whose edge is within it, and hold the
\* sizes within it.
UpToEdge(Q, edge, n) ==
    /\ Q \subseteq 1..n
    /\ \A b \in 1..n : b \in Q <=> (IF b \in 1..(n - 1) THEN bands[b] ELSE Unbounded) <= edge
    /\ \A x \in 0..Unbounded : bandOf(x) \in Q <=> x <= edge

LEMMA BandsUpTo ==
    ASSUME NEW n \in Nat, n = Len(bands) + 1, NEW edge \in Range(bands) \cup {Unbounded}
    PROVE  \E Q : UpToEdge(Q, edge, n)
<1>1. /\ n - 1 \in Nat /\ DOMAIN bands = 1..(n - 1) /\ Unbounded \in Nat
      /\ \A i \in 1..(n - 1) : bands[i] \in Nat /\ bands[i] < Unbounded
      /\ \A i, j \in 1..(n - 1) : i < j => bands[i] < bands[j]
  <2>1. n - 1 \in Nat /\ DOMAIN bands = 1..(n - 1) /\ Unbounded \in Nat
    BY SizesAssumption
  <2>2. \A i \in 1..(n - 1) : bands[i] \in Nat
    BY <2>1, SizesAssumption
  <2>3. \A i \in 1..(n - 1) : bands[i] < Unbounded
    BY <2>1, SizesAssumption
  <2>4. \A i, j \in 1..(n - 1) : i < j => bands[i] < bands[j]
    BY <2>1, SizesAssumption
  <2> QED
    BY <2>1, <2>2, <2>3, <2>4
<1>2. ASSUME NEW x \in 0..Unbounded
      PROVE  bandOf(x) \in 1..n /\ \A e \in 1..(n - 1) : bandOf(x) <= e <=> x <= bands[e]
  <2>1. x \in Nat
    BY <1>1
  <2> QED
    BY <1>1, <2>1, BandOf
<1>3. CASE edge = Unbounded
  <2>1. \A b \in 1..n : (IF b \in 1..(n - 1) THEN bands[b] ELSE Unbounded) <= edge
    BY <1>1, <1>3
  <2>2. \A x \in 0..Unbounded : x <= edge /\ bandOf(x) \in 1..n
    BY <1>2, <1>3
  <2> QED
    BY <2>1, <2>2 DEF UpToEdge
<1>4. CASE edge # Unbounded
  <2>1. PICK e \in 1..(n - 1) : edge = bands[e]
    BY <1>1, <1>4 DEF Range
  <2>2. 1..e \subseteq 1..n
    BY <2>1
  <2>3. ASSUME NEW b \in 1..n
        PROVE  b \in 1..e <=> (IF b \in 1..(n - 1) THEN bands[b] ELSE Unbounded) <= edge
    <3>1. CASE b \in 1..(n - 1)
      <4>1. bands[b] \in Nat /\ bands[e] \in Nat /\ (b < e => bands[b] < bands[e])
            /\ (e < b => bands[e] < bands[b])
        BY <1>1, <2>1, <3>1
      <4>2. b \in 1..e <=> bands[b] <= bands[e]
        BY <2>1, <3>1, <4>1
      <4> QED
        BY <2>1, <3>1, <4>2
    <3>2. CASE b \notin 1..(n - 1)
      <4>1. bands[e] \in Nat /\ bands[e] < Unbounded /\ Unbounded \in Nat
        BY <1>1, <2>1
      <4>2. b \notin 1..e
        BY <2>1, <3>2
      <4> QED
        BY <2>1, <3>2, <4>1, <4>2
    <3> QED
      BY <3>1, <3>2
  <2>4. ASSUME NEW x \in 0..Unbounded PROVE bandOf(x) \in 1..e <=> x <= edge
    <3>1. bandOf(x) \in 1..n /\ (bandOf(x) <= e <=> x <= bands[e])
      BY <1>2, <2>1
    <3> QED
      BY <2>1, <3>1
  <2> QED
    BY <2>2, <2>3, <2>4 DEF UpToEdge
<1> QED
  BY <1>3, <1>4

\* The largest class leads every class.
LEMMA LargestLeads ==
    ASSUME NEW k \in Nat, k # 0, NEW classes \in [1..k -> [AtMost : Nat, Count : Nat]],
           NEW spread, spread.Classes = classes
    PROVE  \A i \in 1..k : classes[i].Count <= Largest(spread).Count
<1>1. PICK S : S = {classes[i].Count : i \in 1..k}
  OBVIOUS
<1>2. IsFiniteSet(S)
  <2>1. IsFiniteSet(1..k)
    BY FS_Interval
  <2>2. PICK f : f = [i \in 1..k |-> classes[i].Count]
    OBVIOUS
  <2>3. f \in Surjection(1..k, S)
    BY <1>1, <2>2 DEF Surjection
  <2> QED
    BY <2>1, <2>3, FS_Surjection
<1>3. \A i \in 1..k : classes[i].Count \in S
  BY <1>1
<1>4. S \subseteq Nat /\ S # {}
  BY <1>1
<1>5. PICK most \in S : most = Max(S) /\ \A x \in S : x <= most
  BY <1>2, <1>4, Extremes
<1>6. PICK T : T = {i \in 1..k : classes[i].Count = most}
  OBVIOUS
<1>7. IsFiniteSet(T) /\ T \subseteq Nat /\ T # {}
  <2>1. IsFiniteSet(1..k) /\ 1..k \subseteq Nat
    BY FS_Interval
  <2>2. T \subseteq 1..k /\ T # {}
    BY <1>1, <1>6
  <2> QED
    BY <2>1, <2>2, FS_Subset
<1>8. PICK i \in T : i = Min(T)
  BY <1>7, Extremes
<1>9. Largest(spread) = classes[i]
  <2>1. DOMAIN spread.Classes = 1..k
    OBVIOUS
  <2> QED
    BY <1>1, <1>5, <1>6, <1>8, <2>1 DEF Largest
<1>10. classes[i].Count = most
  BY <1>6, <1>8
<1> QED
  BY <1>3, <1>5, <1>9, <1>10

\* A spread as it is kept: some classes, none above the last edge, and their total.
IsSpread(spread, k, fine) ==
    /\ fine \in [1..k -> [AtMost : 0..Unbounded, Count : Nat]]
    /\ spread.Classes = fine
    /\ spread.Total = Counted(fine)

LEMMA BandsKeep ==
    ASSUME NEW k \in Nat, NEW fine, NEW spread, IsSpread(spread, k, fine)
    PROVE  KeepsEveryAllocation(spread)
<1>1. PICK n \in Nat : n = Len(bands) + 1
  BY SizesAssumption
<1>2. /\ fine \in [1..k -> [AtMost : Nat, Count : Nat]] /\ DOMAIN fine = 1..k
      /\ \A m \in 1..k : fine[m].AtMost \in 0..Unbounded
      /\ spread.Classes = fine
  <2>1. \A m \in 1..k : fine[m] \in [AtMost : 0..Unbounded, Count : Nat]
    BY DEF IsSpread
  <2>2. 0..Unbounded \subseteq Nat
    BY SizesAssumption
  <2>3. \A m \in 1..k : fine[m] \in [AtMost : Nat, Count : Nat] /\ fine[m].AtMost \in 0..Unbounded
    BY <2>1, <2>2
  <2> QED
    BY <2>3 DEF IsSpread
<1>3. PICK coarse : coarse = Seen(InBands(fine))
  OBVIOUS
<1>4. PICK j \in Nat : \E those : BandedAs(coarse, j, those, fine, k, n)
  BY <1>1, <1>2, <1>3, BandsAre
<1>5. PICK those : BandedAs(coarse, j, those, fine, k, n)
  BY <1>4
<1>6. /\ those \in [1..j -> 1..n] /\ DOMAIN coarse = 1..j
      /\ \A a \in 1..j :
           /\ coarse[a].AtMost = (IF those[a] \in 1..(n - 1) THEN bands[those[a]] ELSE Unbounded)
           /\ coarse[a].Count \in Nat \ {0}
      /\ \A a, b \in 1..j : a < b => coarse[a].AtMost < coarse[b].AtMost
      /\ CountsAlike(coarse, j, those, fine, k, n)
  BY <1>5 DEF BandedAs
<1>7. Bands(spread).Classes = coarse /\ Bands(spread).Total = Counted(fine)
  BY <1>2, <1>3 DEF Bands, IsSpread
<1>8. ASSUME NEW edge \in Range(bands) \cup {Unbounded}
      PROVE  CountWhere(coarse, LAMBDA class : class.AtMost <= edge)
               = CountWhere(fine, LAMBDA class : class.AtMost <= edge)
  <2>1. PICK Q : UpToEdge(Q, edge, n)
    BY <1>1, BandsUpTo
  <2>2. PICK A : A = {a \in DOMAIN coarse : coarse[a].AtMost <= edge}
    OBVIOUS
  <2>3. PICK M : M = {m \in DOMAIN fine : fine[m].AtMost <= edge}
    OBVIOUS
  <2>4. MappedTo(A, j, those, Q)
    <3>1. ASSUME NEW a \in 1..j PROVE a \in A <=> those[a] \in Q
      <4>1. those[a] \in 1..n
        BY <1>6
      <4>2. a \in A <=> coarse[a].AtMost <= edge
        BY <1>6, <2>2
      <4> QED
        BY <1>6, <2>1, <4>1, <4>2 DEF UpToEdge
    <3>2. A \subseteq 1..j
      BY <1>6, <2>2
    <3> QED
      BY <3>1, <3>2 DEF MappedTo
  <2>5. FallIn(M, k, fine, Q)
    <3>1. ASSUME NEW m \in 1..k PROVE m \in M <=> bandOf(fine[m].AtMost) \in Q
      <4>1. fine[m].AtMost \in 0..Unbounded
        BY <1>2
      <4>2. m \in M <=> fine[m].AtMost <= edge
        BY <1>2, <2>3
      <4> QED
        BY <2>1, <4>1, <4>2 DEF UpToEdge
    <3>2. M \subseteq 1..k
      BY <1>2, <2>3
    <3> QED
      BY <3>1, <3>2 DEF FallIn
  <2>6. Q \in SUBSET (1..n)
    BY <2>1 DEF UpToEdge
  <2>7. CountIn(A, coarse) = CountIn(M, fine)
    BY <1>6, <2>4, <2>5, <2>6 DEF CountsAlike
  <2> QED
    BY <2>2, <2>3, <2>7 DEF CountIn, CountWhere
<1>9. Counted(coarse) = Counted(fine)
  <2>1. PICK Q : Q = 1..n
    OBVIOUS
  <2>2. PICK A : A = 1..j
    OBVIOUS
  <2>3. PICK M : M = 1..k
    OBVIOUS
  <2>4. MappedTo(A, j, those, Q)
    BY <1>6, <2>1, <2>2 DEF MappedTo
  <2>5. FallIn(M, k, fine, Q)
    <3>1. ASSUME NEW m \in 1..k PROVE bandOf(fine[m].AtMost) \in 1..n
      <4>1. fine[m].AtMost \in Nat
        BY <1>2
      <4> QED
        BY <1>1, <4>1, BandOf
    <3> QED
      BY <2>1, <2>3, <3>1 DEF FallIn
  <2>6. Q \in SUBSET (1..n)
    BY <2>1
  <2>7. CountIn(A, coarse) = CountIn(M, fine)
    BY <1>6, <2>4, <2>5, <2>6 DEF CountsAlike
  <2>8. A = {a \in DOMAIN coarse : TRUE} /\ M = {m \in DOMAIN fine : TRUE}
    BY <1>2, <1>6, <2>2, <2>3
  <2> QED
    BY <2>7, <2>8 DEF CountIn, Counted, CountWhere
<1>10. ASSUME fine # <<>> PROVE \A i \in DOMAIN fine : fine[i].Count <= Largest(spread).Count
  <2>1. k # 0
    BY <1>2, <1>10
  <2> QED
    BY <1>2, <2>1, LargestLeads
<1>11. \A a \in 1..j : coarse[a].Count > 0
  BY <1>6
<1> QED
  BY <1>2, <1>6, <1>7, <1>8, <1>9, <1>10, <1>11 DEF KeepsEveryAllocation

\* In every snapshot, gathering an account's spread into bands loses no allocation and
\* splits no class: up to each band's edge the bands count what the classes with no
\* greater edge count; and the largest class leads.
THEOREM BandsLoseNothing == Spec => []BandsKeepEveryAllocation
<1>1. LedgerInv /\ AccountInv => BandsKeepEveryAllocation
  <2> SUFFICES ASSUME LedgerInv, AccountInv, NEW cost \in Range(Snapshot)
               PROVE  KeepsEveryAllocation(cost.Spread)
    BY DEF BandsKeepEveryAllocation
  <2>1. PICK key \in DOMAIN totals : cost = AccountOf(key)
    BY InSnapshot
  <2>2. PICK classes : classes = At(sizes, key, <<>>)
    OBVIOUS
  <2>3. classes \in [DOMAIN classes -> Nat] /\ DOMAIN classes \subseteq Edges
    BY <2>2 DEF AccountInv, SizesSumUp
  <2>4. PICK spread : spread = cost.Spread /\ spread = spreadOf(classes)
    BY <2>1, <2>2 DEF AccountOf
  <2>5. PICK k \in Nat : \E edges \in [1..k -> DOMAIN classes] : Lists(spread, classes, k, edges)
    BY <2>3, <2>4, SpreadIs
  <2>6. PICK edges \in [1..k -> DOMAIN classes] : Lists(spread, classes, k, edges)
    BY <2>5
  <2>7. PICK fine : fine = [m \in 1..k |-> [AtMost |-> edges[m], Count |-> classes[edges[m]]]]
    OBVIOUS
  <2>8. \A m \in 1..k : edges[m] \in 0..Unbounded /\ classes[edges[m]] \in Nat
    <3>1. \A m \in 1..k : edges[m] \in Edges /\ classes[edges[m]] \in Nat
      BY <2>3
    <3> QED
      BY <3>1, EdgesBounded
  <2>9. fine \in [1..k -> [AtMost : 0..Unbounded, Count : Nat]]
    BY <2>7, <2>8
  <2>10. spread.Classes = fine /\ spread.Total = Counted(fine)
    BY <2>6, <2>7 DEF Lists
  <2>11. IsSpread(spread, k, fine)
    BY <2>9, <2>10 DEF IsSpread
  <2>12. KeepsEveryAllocation(spread)
    BY <2>11, BandsKeep
  <2> QED
    BY <2>4, <2>12
<1>2. Init => RingInv
  BY DEF Init, RingInv
<1> QED
  BY <1>1, <1>2, InitHolds, StepKeeps, LedgerInit, LedgerStep, RingStep, AccountInit, TakenStep,
     AccountStep, PTL DEF Spec

==============================================================================
