SPECIFICATION Spec
SYMMETRY Symmetry
CONSTANTS
    Handles = {a, b}
    SpanIds = {s1}
    Configs = {prod, other}
    Unset = Unset
    Solo = Solo
    Second = 2
    MaxClock = 3
    MaxStarts = 2
INVARIANTS
    DurationIsCaptured
CHECK_DEADLOCK FALSE
