\* Three spans, a clock of two ticks, every moment of installation.
SPECIFICATION Spec
CONSTANTS
    s1 = s1
    s2 = s2
    s3 = s3
    SpanIDs = {s1, s2, s3}
    Limit = 2
INVARIANTS
    TypeOK
    HoldsWhatIsOpen
    OpenInOrderSeen
