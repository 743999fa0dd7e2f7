\* Three fibers forked in every shape, a clock of two ticks, every installation.
SPECIFICATION Spec
CONSTANTS
    MaxFibers = 3
    Limit = 2
INVARIANTS
    HoldsWhatRuns
    ListsEachOnce
    LongestRunningFirst
