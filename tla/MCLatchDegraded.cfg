SPECIFICATION Spec
CONSTANTS
    Call = {c1, c2}
    Session = {s1}
    MaxDay = 0
    Retention = 1
    MaxTears = 1
    MaxLosses = 0
SYMMETRY CallSymmetry
PROPERTIES
    UnreadableIsNotEmpty
