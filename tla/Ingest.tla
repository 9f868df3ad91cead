-------------------------------- MODULE Ingest --------------------------------
(***************************************************************************)
(* POST /ingest of the backend (server.ts) over Postgres (pgSpanStore.ts): *)
(* handlers on one or more replicas share one database and interleave at   *)
(* every await.  A request that passed the gate records its content hash,  *)
(* then inserts the trace, then the spans one by one, and only then        *)
(* answers; there is no transaction around them.  Requests are repeated by *)
(* their clients, a statement may fail or its acknowledgement be lost, a   *)
(* replica may die, and the retention sweep runs at any time.              *)
(*                                                                         *)
(* A body stands for its bytes and hence for its content hash.  Its spans  *)
(* name a trace of their own, which nothing compares with the body's: the  *)
(* row hangs under the trace the span names.  Time is counted in minutes,  *)
(* the unit of minuteBucket; the clock is common to the replicas and the   *)
(* database.                                                               *)
(***************************************************************************)
EXTENDS Integers, Sequences, FiniteSets

CONSTANTS
    Bodies,       \* request bodies whose trace.orgId is the key's org
    Traces, Spans,\* ids, as the clients chose them
    TraceOf,      \* body.trace.id
    Entries,      \* the spans the bodies hold, as the clients wrote them
    SpanId, SpanTraceId, \* id and traceId of a span
    SpansOf,      \* body.spans, in order
    StartedAt,    \* body.trace.startedAt, in minutes
    Handlers,     \* requests in progress at a time
    Replicas, ReplicaOf,
    Retention,    \* retentionDays, in minutes
    Absent,       \* no row
    MaxMinute,    \* bound: the clock
    MaxRequests,  \* bound: requests that reach a handler
    MaxFaults     \* bound: failed statements and crashes

ASSUME ShapeAssumption ==
    /\ TraceOf \in [Bodies -> Traces]
    /\ SpanId \in [Entries -> Spans] /\ SpanTraceId \in [Entries -> Traces]
    /\ SpansOf \in [Bodies -> Seq(Entries)]
    /\ StartedAt \in [Bodies -> Int]
    /\ ReplicaOf \in [Handlers -> Replicas]
    /\ Retention \in Nat /\ MaxMinute \in Nat
    /\ MaxRequests \in Nat /\ MaxFaults \in Nat
    /\ Absent \notin Bodies /\ Absent \notin Entries

VARIABLES
    minute,       \* now(), floored to the minute
    traces,       \* table traces: the body whose row is stored, or Absent
    spans,        \* table spans: the span whose row is stored, or Absent
    dedup,        \* table ingest_dedup: <<body, minute_bucket, created_at>>
    sweepPc,      \* the retention sweep's next statement
    pc, body, bucket, next,  \* each handler: its place and its locals
    requests, faults,        \* bounded counters
    (* History. *)
    novel,        \* times tryRecordContentHash said true, per <<body, bucket>>
    accepted,     \* bodies answered 202 and not deduped
    deduped,      \* bodies answered 202, deduped
    purged        \* traces a sweep deleted

tables   == <<traces, spans, dedup>>
locals   == <<body, bucket, next>>
counters == <<requests, faults>>
history  == <<novel, accepted, deduped, purged>>
vars == <<minute, tables, sweepPc, pc, locals, counters, history>>

Minutes == 0 .. MaxMinute
Keys    == Bodies \X Minutes
Steps   == {"idle", "record", "trace", "span"}

Elements(s) == {s[i] : i \in DOMAIN s}

IsDuplicate(b, m) == \E row \in dedup : row[1] = b /\ row[2] = m

Init ==
    /\ minute = 0
    /\ traces = [t \in Traces |-> Absent]
    /\ spans = [s \in Spans |-> Absent]
    /\ dedup = {}
    /\ sweepPc = "traces"
    /\ pc = [h \in Handlers |-> "idle"]
    /\ body = [h \in Handlers |-> Absent]
    /\ bucket = [h \in Handlers |-> 0] /\ next = [h \in Handlers |-> 1]
    /\ requests = 0 /\ faults = 0
    /\ novel = [k \in Keys |-> 0]
    /\ accepted = {} /\ deduped = {} /\ purged = {}

Become(h, step) == pc' = [pc EXCEPT ![h] = step] /\ UNCHANGED locals

(* The handlers in H return, or are gone.                                   *)
Release(H) ==
    /\ pc' = [h \in Handlers |-> IF h \in H THEN "idle" ELSE pc[h]]
    /\ body' = [h \in Handlers |-> IF h \in H THEN Absent ELSE body[h]]
    /\ bucket' = [h \in Handlers |-> IF h \in H THEN 0 ELSE bucket[h]]
    /\ next' = [h \in Handlers |-> IF h \in H THEN 1 ELSE next[h]]

-----------------------------------------------------------------------------
(* One request.                                                             *)

(* Faulty: the hash's minute is rounded up instead of floored.              *)
Receive_RoundsUp(h, b) ==
    /\ pc[h] = "idle"
    /\ requests < MaxRequests
    /\ requests' = requests + 1
    /\ pc' = [pc EXCEPT ![h] = "record"]
    /\ body' = [body EXCEPT ![h] = b]
    /\ bucket' = [bucket EXCEPT ![h] = minute + 1]
    /\ UNCHANGED next
    /\ UNCHANGED <<minute, tables, sweepPc, faults, history>>

(* A request for body b passes the key, size, shape and rate checks (those  *)
(* it fails end it without touching the database); the handler takes the    *)
(* minute of its content hash and goes to the database.                     *)
Receive(h, b) ==
    /\ pc[h] = "idle"
    /\ requests < MaxRequests
    /\ requests' = requests + 1
    /\ pc' = [pc EXCEPT ![h] = "record"]
    /\ body' = [body EXCEPT ![h] = b]
    /\ bucket' = [bucket EXCEPT ![h] = minute]
    /\ UNCHANGED next
    /\ UNCHANGED <<minute, tables, sweepPc, faults, history>>

(* INSERT INTO ingest_dedup ... ON CONFLICT DO NOTHING RETURNING: a fresh   *)
(* row lets the request continue, none answers 202 { deduped: true }.       *)
tryRecordContentHash(h) ==
    LET b == body[h]
        m == bucket[h]
    IN  /\ pc[h] = "record"
        /\ IF IsDuplicate(b, m)
           THEN /\ Release({h})
                /\ deduped' = deduped \cup {b}
                /\ UNCHANGED <<dedup, novel>>
           ELSE /\ dedup' = dedup \cup {<<b, m, minute>>}
                /\ novel' = [novel EXCEPT ![<<b, m>>] = @ + 1]
                /\ Become(h, "trace")
                /\ UNCHANGED deduped
        /\ UNCHANGED <<minute, traces, spans, sweepPc, counters, accepted, purged>>

(* Faulty: the last writer wins, as in the in-memory store.                 *)
insertTrace_Overwrites(h) ==
    /\ pc[h] = "trace"
    /\ traces' = [traces EXCEPT ![TraceOf[body[h]]] = body[h]]
    /\ Become(h, "span")
    /\ UNCHANGED <<minute, spans, dedup, sweepPc, counters,
                   history>>

(* insertTrace: one transaction, ON CONFLICT (id) DO NOTHING.               *)
insertTrace(h) ==
    LET t == TraceOf[body[h]]
    IN  /\ pc[h] = "trace"
        /\ traces' = IF traces[t] = Absent THEN [traces EXCEPT ![t] = body[h]]
                     ELSE traces
        /\ Become(h, "span")
        /\ UNCHANGED <<minute, spans, dedup, sweepPc, counters, history>>

(* insertSpan for the next span: ON CONFLICT (id) DO NOTHING, whichever     *)
(* trace the row with that id hangs under; else the foreign key on the      *)
(* trace that the span itself names must hold.                              *)
insertSpan(h) ==
    LET e == SpansOf[body[h]][next[h]]
        s == SpanId[e]
    IN  /\ pc[h] = "span"
        /\ next[h] <= Len(SpansOf[body[h]])
        /\ spans[s] # Absent \/ traces[SpanTraceId[e]] # Absent
        /\ next' = [next EXCEPT ![h] = @ + 1]
        /\ spans' = IF spans[s] = Absent THEN [spans EXCEPT ![s] = e] ELSE spans
        /\ UNCHANGED <<minute, traces, dedup, sweepPc, pc, body, bucket,
                       counters, novel, accepted, deduped, purged>>

(* The foreign key fails: the span names a trace that is not stored, or     *)
(* that a sweep deleted under the handler.  The request is answered 500,    *)
(* and what it stored stays.                                                *)
ForeignKeyFails(h) ==
    LET e == SpansOf[body[h]][next[h]]
    IN  /\ pc[h] = "span"
        /\ next[h] <= Len(SpansOf[body[h]])
        /\ spans[SpanId[e]] = Absent /\ traces[SpanTraceId[e]] = Absent
        /\ Release({h})
        /\ UNCHANGED <<minute, tables, sweepPc, counters, history>>

(* Faulty: the loop leaves the last span out.                               *)
Accept_OneShort(h) ==
    /\ pc[h] = "span"
    /\ next[h] >= Len(SpansOf[body[h]])
    /\ accepted' = accepted \cup {body[h]}
    /\ Release({h})
    /\ UNCHANGED <<minute, tables, sweepPc, counters, novel, deduped,
                   purged>>

(* After the last span: 202.                                                *)
Accept(h) ==
    /\ pc[h] = "span"
    /\ next[h] > Len(SpansOf[body[h]])
    /\ accepted' = accepted \cup {body[h]}
    /\ Release({h})
    /\ UNCHANGED <<minute, tables, sweepPc, counters, novel, deduped,
                   purged>>

-----------------------------------------------------------------------------
(* Failures, time and retention.                                            *)

(* The statement a handler waits for fails, or the acknowledgement of the   *)
(* one before it is lost: the exception ends the request with a 500.        *)
StatementFails(h) ==
    /\ pc[h] # "idle"
    /\ faults < MaxFaults
    /\ faults' = faults + 1
    /\ Release({h})
    /\ UNCHANGED <<minute, tables, sweepPc, requests, history>>

(* A replica dies: its handlers are gone, what they committed stays.        *)
Crash(r) ==
    /\ \E h \in Handlers : ReplicaOf[h] = r /\ pc[h] # "idle"
    /\ faults < MaxFaults
    /\ faults' = faults + 1
    /\ Release({h \in Handlers : ReplicaOf[h] = r})
    /\ UNCHANGED <<minute, tables, sweepPc, requests, history>>

(* A minute passes.  No request is still unanswered after a whole retention *)
(* period (30 days).                                                        *)
Tick ==
    /\ minute < MaxMinute
    /\ \A h \in Handlers : pc[h] # "idle" => minute < bucket[h] + Retention
    /\ minute' = minute + 1
    /\ UNCHANGED <<tables, sweepPc, pc, locals, counters, history>>

Cutoff == minute - Retention

(* purgeExpired, first statement: old traces go, and their spans with them  *)
(* (ON DELETE CASCADE).                                                     *)
PurgeTraces ==
    /\ sweepPc = "traces"
    /\ LET old  == {t \in Traces : traces[t] # Absent /\ StartedAt[traces[t]] < Cutoff}
           gone == {s \in Spans : spans[s] # Absent /\ SpanTraceId[spans[s]] \in old}
       IN  /\ traces' = [t \in Traces |-> IF t \in old THEN Absent ELSE traces[t]]
           /\ spans' = [s \in Spans |-> IF s \in gone THEN Absent ELSE spans[s]]
           /\ purged' = purged \cup old
    /\ sweepPc' = "dedup"
    /\ UNCHANGED <<minute, dedup, pc, locals, counters, novel,
                   accepted, deduped>>

(* Faulty: dedup rows of the current minute are swept too.                  *)
PurgeDedup_All ==
    /\ sweepPc = "dedup"
    /\ dedup' = {}
    /\ sweepPc' = "traces"
    /\ UNCHANGED <<minute, traces, spans, pc, locals, counters, history>>

(* purgeExpired, second statement.                                          *)
PurgeDedup ==
    /\ sweepPc = "dedup"
    /\ dedup' = {row \in dedup : row[3] >= Cutoff}
    /\ sweepPc' = "traces"
    /\ UNCHANGED <<minute, traces, spans, pc, locals, counters, history>>

Handle(h) == \/ tryRecordContentHash(h) \/ insertTrace(h) \/ insertSpan(h)
             \/ ForeignKeyFails(h) \/ Accept(h)

Next ==
    \/ \E h \in Handlers : \/ \E b \in Bodies : Receive(h, b)
                           \/ Handle(h)
                           \/ StatementFails(h)
    \/ \E r \in Replicas : Crash(r)
    \/ Tick \/ PurgeTraces \/ PurgeDedup

Spec == Init /\ [][Next]_vars

-----------------------------------------------------------------------------
(* Properties.                                                              *)

(* Every variable has its type.                                             *)
TypeOK ==
    /\ minute \in Minutes
    /\ traces \in [Traces -> Bodies \cup {Absent}]
    /\ spans \in [Spans -> Entries \cup {Absent}]
    /\ dedup \subseteq Bodies \X Minutes \X Minutes
    /\ sweepPc \in {"traces", "dedup"}
    /\ pc \in [Handlers -> Steps] /\ body \in [Handlers -> Bodies \cup {Absent}]
    /\ bucket \in [Handlers -> Minutes] /\ next \in [Handlers -> Nat \ {0}]
    /\ requests \in Nat /\ faults \in Nat
    /\ novel \in [Keys -> Nat]
    /\ accepted \subseteq Bodies /\ deduped \subseteq Bodies
    /\ purged \subseteq Traces

(* SpanStore.tryRecordContentHash: of any number of racing callers with     *)
(* identical bytes in the same minute, on any replicas and across sweeps,   *)
(* crashes and failures, at most one is told that its hash is novel.        *)
NovelOncePerMinute == \A k \in Keys : novel[k] <= 1

(* The foreign key survives every interleaving of inserts and sweeps: a     *)
(* stored span hangs under a stored trace.                                  *)
SpansUnderTrace ==
    \A s \in Spans : spans[s] # Absent => traces[SpanTraceId[spans[s]]] # Absent

(* The id of span e is in the database: its row is a span that was sent     *)
(* with that id, e itself where no other has the id, under the trace which  *)
(* that span names; or a sweep took it with that trace.                     *)
Kept(e) ==
    \E f \in Entries : /\ SpanId[f] = SpanId[e]
                       /\ spans[SpanId[e]] = f \/ SpanTraceId[f] \in purged

(* The trace of body b, unless swept, and its first n spans are stored.     *)
Stored(b, n) ==
    /\ TraceOf[b] \in purged \/ traces[TraceOf[b]] # Absent
    /\ \A i \in 1 .. n : Kept(SpansOf[b][i])

(* A 202 that is not "deduped" means stored, whole, whatever handlers and   *)
(* sweeps did between the statements of the request: the trace, and each    *)
(* span under the trace that the span names, be it another than the body's. *)
AcceptedIsStored == \A b \in accepted : Stored(b, Len(SpansOf[b]))

RowsKept ==
    /\ \A t \in Traces : traces[t] # Absent => traces'[t] \in {traces[t], Absent}
    /\ \A s \in Spans : spans[s] # Absent =>
         \/ spans'[s] = spans[s]
         \/ spans'[s] = Absent /\ traces'[SpanTraceId[spans[s]]] = Absent

(* The first writer of an id wins: a retry, or another body that reuses the *)
(* ids, never changes a stored row.  Rows only disappear, and only by a     *)
(* sweep that takes a whole trace.                                          *)
RowsNeverRewritten == [][RowsKept]_vars

-----------------------------------------------------------------------------
(* What a comment in server.ts says and the code does not do.               *)

(* "From the client's perspective the upload happened": a retry answered    *)
(* with deduped: true has its trace in the store (or had, until a sweep)    *)
(* once no handler is at work any more.                                     *)
DedupedWasStored ==
    (\A h \in Handlers : pc[h] = "idle") =>
        \A b \in deduped : \/ TraceOf[b] \in purged
                           \/ traces[TraceOf[b]] # Absent
=============================================================================
