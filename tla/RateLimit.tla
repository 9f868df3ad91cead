------------------------------ MODULE RateLimit ------------------------------
(***************************************************************************)
(* The per-org limiter in front of POST /ingest (rateLimit.ts): a token    *)
(* bucket of spans and a daily byte budget, both kept in process memory.   *)
(* RateLimiter.check is synchronous, so one call is one atomic step; the   *)
(* wall clock (Date.now) may move between calls by any amount, backwards   *)
(* too.                                                                    *)
(*                                                                         *)
(* The bucket is a floating-point number of spans in the code.  Here it is *)
(* an integer number of 1/Second spans, Second being the clock ticks of a  *)
(* second: one tick then refills exactly SpansPerSec units, and no         *)
(* rounding is involved.                                                   *)
(***************************************************************************)
EXTENDS Integers, Sequences, FiniteSets

CONSTANTS
    Orgs,         \* organisations
    SpansPerSec,  \* cfg.spansPerSec: refill rate and bucket size
    BytesPerDay,  \* cfg.bytesPerDay
    Second,       \* clock ticks in a second (1000 in the code)
    Day,          \* clock ticks in DAY_MS
    SpanCounts,   \* body.spans.length of the requests that arrive
    ByteCounts,   \* byte lengths of the requests that arrive
    MaxClock,     \* bound: the clock's range
    MaxAdmitted   \* bound: admitted requests

ASSUME LimitsAssumption ==
    /\ SpansPerSec \in Nat \ {0} /\ BytesPerDay \in Nat
    /\ Second \in Nat \ {0} /\ Day \in Nat \ {0}
    /\ SpanCounts \subseteq Nat /\ ByteCounts \subseteq Nat
    /\ MaxClock \in Nat /\ MaxAdmitted \in Nat

VARIABLES
    now,              \* cfg.now()
    known,            \* the keys of the `state` map
    spansBucket,      \* OrgState.spansBucket, in 1/Second spans
    spansLastRefill,  \* OrgState.spansLastRefill
    bytesUsedDay,     \* OrgState.bytesUsedDay
    bytesDayStartedAt,\* OrgState.bytesDayStartedAt
    decision,         \* the answer of the call just made, and its request
    admitted,         \* history: admitted requests, in order
    spent, openedAt   \* history: units spent since the entry was created, when

bucketVars == <<spansBucket, spansLastRefill>>
byteVars   == <<bytesUsedDay, bytesDayStartedAt>>
vars == <<now, known, bucketVars, byteVars, decision, admitted, spent, openedAt>>

BucketSize == SpansPerSec * Second
Clock      == 0 .. MaxClock

MaxOf(a, b) == IF a >= b THEN a ELSE b
MinOf(a, b) == IF a <= b THEN a ELSE b
Ceiling_Floor(a, b) == a \div b               \* faulty: rounds down
Ceiling(a, b) == (a + b - 1) \div b           \* a, b > 0

None == [kind |-> "none"]

Init ==
    /\ now = 0
    /\ known = {}
    /\ spansBucket = [o \in Orgs |-> 0] /\ spansLastRefill = [o \in Orgs |-> 0]
    /\ bytesUsedDay = [o \in Orgs |-> 0] /\ bytesDayStartedAt = [o \in Orgs |-> 0]
    /\ decision = None
    /\ admitted = <<>>
    /\ spent = [o \in Orgs |-> 0] /\ openedAt = [o \in Orgs |-> 0]

(* What check finds for org o once it has created the entry, refilled the   *)
(* bucket and rolled the byte window, and before it decides.                *)
Refilled_Uncapped(o) ==                       \* faulty: no cap on the refill
    IF o \notin known THEN BucketSize
    ELSE spansBucket[o] + MaxOf(0, now - spansLastRefill[o]) * SpansPerSec
LevelAt(o, clock) ==                          \* of an org that is known
    LET elapsed == MaxOf(0, clock - spansLastRefill[o])
    IN  MinOf(BucketSize, spansBucket[o] + elapsed * SpansPerSec)
Refilled(o) == IF o \notin known THEN BucketSize ELSE LevelAt(o, now)
RefilledAt_Always(o) == now                   \* faulty: follows the clock back
RefilledAt(o) ==
    IF o \notin known THEN now ELSE MaxOf(spansLastRefill[o], now)

WindowOpen(o)   == o \in known /\ now - bytesDayStartedAt[o] < Day
BytesUsed(o)    == IF WindowOpen(o) THEN bytesUsedDay[o] ELSE 0
WindowStart(o)  == IF WindowOpen(o) THEN bytesDayStartedAt[o] ELSE now

(* The entry after a call that consumes n spans and b bytes (0 and 0 when   *)
(* the request is denied).                                                  *)
Store(o, n, b) ==
    /\ known' = known \cup {o}
    /\ spansBucket' = [spansBucket EXCEPT ![o] = Refilled(o) - n * Second]
    /\ spansLastRefill' = [spansLastRefill EXCEPT ![o] = RefilledAt(o)]
    /\ bytesUsedDay' = [bytesUsedDay EXCEPT ![o] = BytesUsed(o) + b]
    /\ bytesDayStartedAt' = [bytesDayStartedAt EXCEPT ![o] = WindowStart(o)]
    /\ openedAt' = IF o \in known THEN openedAt
                   ELSE [openedAt EXCEPT ![o] = now]
    /\ UNCHANGED now

Deny(o, n, b, reason, seconds) ==
    /\ Store(o, 0, 0)
    /\ decision' = [kind |-> "denied", org |-> o, spans |-> n, bytes |-> b,
                    reason |-> reason, retryAfter |-> MaxOf(1, seconds)]
    /\ UNCHANGED <<admitted, spent>>

DenySpans(o, n, b) ==
    /\ Refilled(o) < n * Second
    /\ Deny(o, n, b, "spans_per_sec",
            Ceiling(n * Second - Refilled(o), BucketSize))

(* Faulty: the spans are taken before the byte budget is looked at.         *)
DenyBytes_TakesSpans(o, n, b) ==
    /\ Refilled(o) >= n * Second
    /\ BytesUsed(o) + b > BytesPerDay
    /\ Store(o, n, 0)
    /\ decision' = [kind |-> "denied", org |-> o, spans |-> n, bytes |-> b,
                    reason |-> "bytes_per_day",
                    retryAfter |-> MaxOf(1, Ceiling(Day - (now - WindowStart(o)), Second))]
    /\ UNCHANGED <<admitted, spent>>

DenyBytes(o, n, b) ==
    /\ Refilled(o) >= n * Second
    /\ BytesUsed(o) + b > BytesPerDay
    /\ Deny(o, n, b, "bytes_per_day",
            Ceiling(Day - (now - WindowStart(o)), Second))

Admit(o, n, b) ==
    /\ Refilled(o) >= n * Second
    /\ BytesUsed(o) + b <= BytesPerDay
    /\ Len(admitted) < MaxAdmitted
    /\ Store(o, n, b)
    /\ decision' = [kind |-> "allowed", org |-> o, spans |-> n, bytes |-> b]
    /\ admitted' = Append(admitted, [org |-> o, spans |-> n, bytes |-> b,
                                     at |-> RefilledAt(o),
                                     window |-> WindowStart(o)])
    /\ spent' = [spent EXCEPT ![o] = @ + n * Second]

(* RateLimiter.check for one request.                                       *)
check(o, n, b) == DenySpans(o, n, b) \/ DenyBytes(o, n, b) \/ Admit(o, n, b)

(* reset(), and a restart of the process: the map is empty again.  The      *)
(* history starts afresh with it.                                           *)
reset ==
    /\ known # {}
    /\ known' = {}
    /\ spansBucket' = [o \in Orgs |-> 0] /\ spansLastRefill' = [o \in Orgs |-> 0]
    /\ bytesUsedDay' = [o \in Orgs |-> 0] /\ bytesDayStartedAt' = [o \in Orgs |-> 0]
    /\ decision' = None
    /\ admitted' = <<>>
    /\ spent' = [o \in Orgs |-> 0] /\ openedAt' = [o \in Orgs |-> 0]
    /\ UNCHANGED now

(* Wall-clock time passes, or is set, NTP steps backwards included.         *)
ClockMoves ==
    /\ now' \in Clock
    /\ decision' = None
    /\ UNCHANGED <<known, bucketVars, byteVars, admitted, spent, openedAt>>

Next ==
    \/ \E o \in Orgs, n \in SpanCounts, b \in ByteCounts : check(o, n, b)
    \/ reset
    \/ ClockMoves

Spec == Init /\ [][Next]_vars

-----------------------------------------------------------------------------
(* Properties.                                                              *)

(* The limiter's state is well typed; a bucket never exceeds its size and   *)
(* is never overdrawn, and the day's counter never passes its budget.       *)
TypeOK ==
    /\ now \in Clock
    /\ known \subseteq Orgs
    /\ spansBucket \in [Orgs -> 0 .. BucketSize]
    /\ spansLastRefill \in [Orgs -> Clock]
    /\ bytesUsedDay \in [Orgs -> 0 .. BytesPerDay]
    /\ bytesDayStartedAt \in [Orgs -> Clock]
    /\ spent \in [Orgs -> Nat] /\ \A o \in Orgs \ known : spent[o] = 0
    /\ openedAt \in [Orgs -> Clock]

(* Conservation of the spans bucket: what an org spent since its entry was  *)
(* created, plus what is left in its bucket, is at most one full bucket and *)
(* the refill of the time that passed.                                      *)
BucketConservation ==
    \A o \in known :
        spent[o] + spansBucket[o] <=
            BucketSize + SpansPerSec * (spansLastRefill[o] - openedAt[o])

(* Retry-After is honest for a batch that fits the bucket: after that many  *)
(* seconds, and no request in between, the limit that refused the request   *)
(* no longer does.  The bytes' window has rolled over, wherever the clock   *)
(* stands.  The bucket has been refilled, if the wait is counted from when  *)
(* the clock is at the last refill again: one that was set back behind it   *)
(* refills nothing till then, and Retry-After does not count that time in.  *)
RetryAfterSuffices ==
    decision.kind = "denied" =>
        LET o == decision.org
            wait == decision.retryAfter * Second
        IN  /\ decision.reason = "spans_per_sec" /\ decision.spans <= SpansPerSec =>
                 LevelAt(o, MaxOf(now, spansLastRefill[o]) + wait) >= decision.spans * Second
            /\ decision.reason = "bytes_per_day" =>
                 ~(now + wait - bytesDayStartedAt[o] < Day)
=============================================================================
