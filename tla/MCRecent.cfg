\* Nine arrivals of two kinds of event into four slots: two turns and a bit.
SPECIFICATION Spec
CONSTANTS
    a = a
    b = b
    zero = zero
    Capacity = 4
    Thing = {a, b}
    Zero = zero
    MaxTotal = 9
PROPERTIES
    ImplementsWindow
