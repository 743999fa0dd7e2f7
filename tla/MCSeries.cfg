\* Two samplers race for a ring of three that turns over.
SPECIFICATION Spec
CONSTANTS
    s1 = s1
    s2 = s2
    zero = zero
    none = none
    Samplers = {s1, s2}
    Capacity = 3
    Zero = zero
    None = none
    Limit = 3
    MaxTotal = 5
    Width = 8
INVARIANTS
    ChangeIsPossible
    OldestFirst
