\* Two fibers of two events each walk five targets while the owner flushes them.
SPECIFICATION Spec
CONSTANTS
    f1 = f1
    f2 = f2
    failure = failure
    success = success
    nil = nil
    Fibers = {f1, f2}
    Kinds <- MCKinds
    Given <- MCGiven
    Nil = nil
    MaxEvents = 2
INVARIANTS
    EachSeesItsShare
    FlushReachesAll
