\* One fiber with a span, one with a span or a life of its own, the
\* runtime's Close, a queue of one and a window of two.
SPECIFICATION Spec
CONSTANTS
    f1 = f1
    f2 = f2
    main = main
    Emitters = {f1, f2, main}
    Main = main
    Scripts <- MCScripts
    SpanIDs = {1, 2}
    Kinds = {"started", "ended", "fiber_started", "fiber_completed", "closed"}
    QueueRoom = 1
    Remembered = 2
INVARIANTS
    LiveNeverLags
    OpenIsExplained
    TotalsReconcile
PROPERTIES
    ClosedIsTold
