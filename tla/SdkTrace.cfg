SPECIFICATION Spec
SYMMETRY Symmetry
CONSTANTS
    Handles = {a, b}
    SpanIds = {s1, s2}
    Configs = {prod, other}
    Unset = Unset
    Solo = Solo
    Second = 2
    MaxClock = 1
    MaxStarts = 2
INVARIANTS
    TypeOK
    OnePayloadPerTrace
    PayloadIsSnapshot
    ContentOnlyOptIn
CHECK_DEADLOCK FALSE
