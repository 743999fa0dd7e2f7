\* Five events of eleven sorts, or 25 measurements of one label.
SPECIFICATION Spec
CONSTANTS
    Declared <- MCDeclared
    Bounds <- MCBounds
    Default <- MCDefault
    Shares <- MCShares
    Loads <- MCLoads
INVARIANTS
    CountsEveryEvent
    QuantileIsTight
    LabelsBounded
