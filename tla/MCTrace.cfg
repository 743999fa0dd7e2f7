\* Two or three spans, one inside the other or side by side, with one or two other
\* events seen through a window that forgets; three spans and two ticks through one
\* that forgets nothing; two fibers reporting at once.
SPECIFICATION Spec
CONSTANTS
    Scales <- MCScales
    Emitters = 2
    Outcomes <- MCOutcomes
INVARIANTS
    EveryEventOnce
    OpenIsTrue
    NestedAsOpened
    SelfIsTimeAlone
    Chronological
    ArrivalIsIrrelevant
\* A program may stop emitting at any time.
CHECK_DEADLOCK FALSE
