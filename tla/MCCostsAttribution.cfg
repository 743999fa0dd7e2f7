\* Two runners, each measuring runs of one name.
SPECIFICATION Spec
CONSTANTS
    r1 = r1
    r2 = r2
    Runners = {r1, r2}
    Names = {"score", "send"}
    Declared = {"score", "other"}
    MaxRuns = 2
    Alphabet <- MCAlphabet
    Boundaries <- MCBoundaries
    bands <- MCBands
    Unbounded = 9
    Program <- MCProgram
    Modes <- MCMeasured
    Width = 64
SYMMETRY Symmetry
INVARIANTS
    TellsWhichRunWasWhich
\* A program may stop with a run open or nothing left to track.
CHECK_DEADLOCK FALSE
