\* Two runners, a declared and an undeclared name, tracked with the size histogram
\* read apart or measured without it, and a ring of two runs of each name.
SPECIFICATION Spec
CONSTANTS
    r1 = r1
    r2 = r2
    Runners = {r1, r2}
    Names = {"score", "send"}
    Declared = {"score", "other"}
    MaxRuns = 2
    Alphabet <- MCAlphabet
    Boundaries <- MCBoundaries
    bands <- MCBands
    Unbounded = 9
    Program <- MCProgram
    Modes <- MCModes
    Width = 64
SYMMETRY Symmetry
INVARIANTS
    AccountsSumTheirRuns
    NeverOvercounts
    RunsAreTheLastRecorded
    ShareIsNearestRank
    BandsKeepEveryAllocation
    RunClosesInItsSpan
\* A program may stop with a run open or nothing left to track.
CHECK_DEADLOCK FALSE
