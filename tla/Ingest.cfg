SPECIFICATION Spec
CONSTANTS
    first = first  edited = edited  late = late
    t1 = t1  t2 = t2  s1 = s1  s2 = s2  s3 = s3  s4 = s4
    h1 = h1  h2 = h2  r1 = r1  r2 = r2
    Bodies = {first, edited, late}
    Traces = {t1, t2}
    Spans = {s1, s2, s3, s4}
    Handlers = {h1, h2}
    Replicas = {r1, r2}
    TraceOf <- MCTraceOf
    SpansOf <- MCSpansOf
    Entries <- MCEntries
    SpanId <- MCSpanId
    SpanTraceId <- MCSpanTraceId
    StartedAt <- MCStartedAt
    ReplicaOf <- MCReplicaOf
    Absent = Absent
    Retention = 1
    MaxMinute = 2
    MaxRequests = 3
    MaxFaults = 1
INVARIANTS
    TypeOK
    NovelOncePerMinute
    AcceptedIsStored
PROPERTIES
    RowsNeverRewritten
