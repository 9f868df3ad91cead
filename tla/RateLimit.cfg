SPECIFICATION Spec
CONSTANTS
    Orgs = {o1}
    SpansPerSec = 2
    BytesPerDay = 3
    Second = 2
    Day = 3
    SpanCounts = {0, 1, 2, 3}
    ByteCounts = {1, 2}
    MaxClock = 4
    MaxAdmitted = 3
INVARIANTS
    TypeOK
    BucketConservation
    AdmittedWithinLimits
    RetryAfterSuffices
