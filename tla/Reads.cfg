SPECIFICATION ReadsSpec
CONSTANTS
    t1 = t1  t2 = t2  t3 = t3
    s1 = s1  s2 = s2  s3 = s3
    b1 = b1  b2 = b2  b3 = b3
    o1 = o1  o2 = o2  k1 = k1  k2 = k2  p1 = p1  h1 = h1  r1 = r1
    Bodies = {b1, b2, b3}
    Traces = {t1, t2, t3}
    Spans = {s1, s2, s3}
    TraceOf <- MCTraceOf
    SpansOf <- MCSpansOf
    Entries <- MCEntries
    SpanId <- MCSpanId
    SpanTraceId <- MCSpanTraceId
    StartedAt <- MCStartedAt
    Handlers = {h1}
    Replicas = {r1}
    ReplicaOf <- MCReplicaOf
    Retention = 1
    Absent = Absent
    MaxMinute = 1
    MaxRequests = 3
    MaxFaults = 0
    Orgs = {o1, o2}
    NoOrg = NoOrg
    Projects = {p1}
    OrgOf <- MCOrgOf
    ProjectOf <- MCProjectOf
    SensitiveTraces = {t3}
    StartUs <- MCStartUs
    PerMs = 10
    DashboardKeys <- MCKeys
    OrgBearers <- MCBearers
    AskedTtls = {0, 5}
    DefaultTtl = 0
    MaxTtl = 0
    CardMaxAge = 1
    AskedLimits <- MCAskedLimits
    DefaultLimit = 1
    MaxLimit = 2
    MaxLinks = 1
INVARIANTS ReadsTypeOK AnswersSeeAcceptedWrites PageWalkComplete LinksExpire
CHECK_DEADLOCK FALSE
