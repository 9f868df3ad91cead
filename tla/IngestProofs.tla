----------------------------- MODULE IngestProofs -----------------------------
(***************************************************************************)
(* Theorems about the database that ingest writes and the reads answer     *)
(* from: first about Ingest, for any bodies, replicas, handlers and        *)
(* retention period (they use ShapeAssumption only), then about Reads over *)
(* it, for any organisations, keys, links and limits.                      *)
(***************************************************************************)
EXTENDS Reads, FiniteSetTheorems, TLAPS

(* No handler outlives the retention period, and a dedup row is created no  *)
(* earlier than in the minute it is for.                                    *)
Timely ==
    /\ \A h \in Handlers : pc[h] # "idle" =>
         /\ body[h] \in Bodies
         /\ bucket[h] <= minute /\ minute <= bucket[h] + Retention
    /\ \A row \in dedup : row[2] <= row[3]

(* What makes NovelOncePerMinute inductive: a key that was granted still    *)
(* has its row, or is older than any handler at work.                       *)
GrantedIsRemembered ==
    \A b \in Bodies, m \in Minutes :
        /\ novel[<<b, m>>] <= 1
        /\ novel[<<b, m>>] = 1 => IsDuplicate(b, m) \/ m + Retention < minute

Inv == TypeOK /\ Timely /\ GrantedIsRemembered /\ SpansUnderTrace

(* What the proofs about Ingest use of the constants.                       *)
LEMMA Shape ==
    /\ Retention \in Nat /\ MaxMinute \in Nat
    /\ Absent \notin Bodies /\ Absent \notin Entries
    /\ \A b \in Bodies : /\ TraceOf[b] \in Traces
                         /\ SpansOf[b] \in Seq(Entries)
    /\ \A e \in Entries : SpanId[e] \in Spans /\ SpanTraceId[e] \in Traces
  BY ShapeAssumption

(* Empty tables and idle handlers.                                          *)
LEMMA InvInit == Init => Inv
<1> SUFFICES ASSUME Init PROVE Inv
    OBVIOUS
<1>1. TypeOK
    BY Shape DEF Init, TypeOK, Minutes, Steps
<1>2. Timely
    BY DEF Init, Timely
<1>3. GrantedIsRemembered
    BY DEF Init, GrantedIsRemembered, Keys
<1>4. SpansUnderTrace
    BY DEF Init, SpansUnderTrace
<1> QED BY <1>1, <1>2, <1>3, <1>4 DEF Inv

(* A handler at work has a body and a minute.                               *)
LEMMA Working ==
    ASSUME Inv, NEW h \in Handlers, pc[h] # "idle"
    PROVE  /\ body[h] \in Bodies /\ TraceOf[body[h]] \in Traces
           /\ SpansOf[body[h]] \in Seq(Entries)
           /\ bucket[h] \in Minutes /\ next[h] \in Nat \ {0}
  BY Shape DEF Inv, TypeOK, Timely

(* Handlers that return keep the types and the clock facts.                 *)
LEMMA ReleaseStep ==
    ASSUME Inv, NEW H, Release(H), minute' = minute
    PROVE  /\ pc' \in [Handlers -> Steps]
           /\ body' \in [Handlers -> Bodies \cup {Absent}]
           /\ bucket' \in [Handlers -> Minutes]
           /\ next' \in [Handlers -> Nat \ {0}]
           /\ \A h \in Handlers : pc'[h] # "idle" =>
                /\ body'[h] \in Bodies
                /\ bucket'[h] <= minute' /\ minute' <= bucket'[h] + Retention
<1>1. 0 \in Minutes /\ 1 \in Nat \ {0}
    BY Shape DEF Minutes
<1>2. /\ pc \in [Handlers -> Steps] /\ body \in [Handlers -> Bodies \cup {Absent}]
      /\ bucket \in [Handlers -> Minutes] /\ next \in [Handlers -> Nat \ {0}]
    BY DEF Inv, TypeOK
<1>3. /\ pc' \in [Handlers -> Steps]
      /\ body' \in [Handlers -> Bodies \cup {Absent}]
      /\ bucket' \in [Handlers -> Minutes]
      /\ next' \in [Handlers -> Nat \ {0}]
    BY <1>1, <1>2 DEF Release, Steps
<1>4. ASSUME NEW h \in Handlers, pc'[h] # "idle"
      PROVE  /\ body'[h] \in Bodies
             /\ bucket'[h] <= minute' /\ minute' <= bucket'[h] + Retention
  <2>1. /\ pc[h] # "idle" /\ body'[h] = body[h] /\ bucket'[h] = bucket[h]
      BY <1>4 DEF Release
  <2> QED BY <2>1 DEF Inv, Timely
<1> QED BY <1>3, <1>4

(* A handler that goes on to its next statement keeps them too.             *)
LEMMA BecomeStep ==
    ASSUME Inv, NEW h \in Handlers, NEW step \in Steps, pc[h] # "idle",
           Become(h, step), minute' = minute
    PROVE  /\ pc' \in [Handlers -> Steps]
           /\ body' \in [Handlers -> Bodies \cup {Absent}]
           /\ bucket' \in [Handlers -> Minutes]
           /\ next' \in [Handlers -> Nat \ {0}]
           /\ \A g \in Handlers : pc'[g] # "idle" =>
                /\ body'[g] \in Bodies
                /\ bucket'[g] <= minute' /\ minute' <= bucket'[g] + Retention
  BY DEF Inv, TypeOK, Timely, Become, locals

(* Every statement of a handler, every sweep and every failure keeps it.    *)
LEMMA InvStep == Inv /\ [Next]_vars => Inv'
<1> SUFFICES ASSUME Inv, [Next]_vars PROVE Inv'
    OBVIOUS
<1>0. TypeOK /\ Timely /\ GrantedIsRemembered /\ SpansUnderTrace
    BY DEF Inv
<1>1. ASSUME NEW h \in Handlers, NEW b \in Bodies, Receive(h, b)
      PROVE  Inv'
  <2>1. TypeOK'
      BY <1>0, <1>1 DEF Receive, TypeOK, tables, history, Steps
  <2>2. Timely'
      BY <1>0, <1>1, Shape DEF Receive, Timely, TypeOK, tables, history, Minutes
  <2>3. GrantedIsRemembered' /\ SpansUnderTrace'
      BY <1>0, <1>1 DEF Receive, GrantedIsRemembered, SpansUnderTrace, IsDuplicate,
                        tables, history
  <2> QED BY <2>1, <2>2, <2>3 DEF Inv
<1>2. ASSUME NEW h \in Handlers, tryRecordContentHash(h)
      PROVE  Inv'
  <2> DEFINE b == body[h]  m == bucket[h]
  <2>1. /\ pc[h] # "idle" /\ b \in Bodies /\ m \in Minutes /\ minute \in Minutes
        /\ m <= minute /\ minute <= m + Retention /\ minute' = minute
        /\ traces' = traces /\ spans' = spans
      BY <1>0, <1>2, Working DEF tryRecordContentHash, Timely, TypeOK
  <2>2. CASE IsDuplicate(b, m)
    <3>1. /\ Release({h}) /\ deduped' = deduped \cup {b}
          /\ UNCHANGED <<dedup, novel, sweepPc, counters, accepted, purged>>
        BY <1>2, <2>2 DEF tryRecordContentHash
    <3>2. TypeOK'
        BY <1>0, <2>1, <3>1, ReleaseStep DEF TypeOK, counters
    <3>3. Timely'
        BY <1>0, <2>1, <3>1, ReleaseStep DEF Timely
    <3>4. GrantedIsRemembered' /\ SpansUnderTrace'
        BY <1>0, <2>1, <3>1 DEF GrantedIsRemembered, SpansUnderTrace, IsDuplicate
    <3> QED BY <3>2, <3>3, <3>4 DEF Inv
  <2>3. CASE ~IsDuplicate(b, m)
    <3>1. /\ Become(h, "trace")
          /\ dedup' = dedup \cup {<<b, m, minute>>}
          /\ novel' = [novel EXCEPT ![<<b, m>>] = @ + 1]
          /\ UNCHANGED <<deduped, sweepPc, counters, accepted, purged>>
        BY <1>2, <2>3 DEF tryRecordContentHash
    <3>2. <<b, m>> \in Keys /\ novel \in [Keys -> Nat]
        BY <1>0, <2>1 DEF Keys, TypeOK
    <3>3. novel' \in [Keys -> Nat]
        BY <3>1, <3>2
    <3>4. dedup' \subseteq Bodies \X Minutes \X Minutes
        BY <1>0, <2>1, <3>1 DEF TypeOK
    <3>5. TypeOK'
        BY <1>0, <2>1, <3>1, <3>3, <3>4, BecomeStep DEF TypeOK, counters, Steps
    <3>6. Timely'
        BY <1>0, <2>1, <3>1, BecomeStep DEF Timely, Steps
    <3>7. ASSUME NEW c \in Bodies, NEW n \in Minutes
          PROVE  /\ novel'[<<c, n>>] <= 1
                 /\ novel'[<<c, n>>] = 1 => IsDuplicate(c, n)' \/ n + Retention < minute'
      <4>1. CASE c = b /\ n = m
        <5>1. novel[<<b, m>>] \in Nat /\ novel[<<b, m>>] <= 1
            BY <1>0, <2>1, <3>2 DEF GrantedIsRemembered
        <5>2. novel[<<b, m>>] # 1
            BY <1>0, <2>1, <2>3, Shape DEF GrantedIsRemembered, Minutes
        <5>3. novel'[<<c, n>>] = 1
            BY <3>1, <3>2, <4>1, <5>1, <5>2
        <5>4. IsDuplicate(c, n)'
          <6>1. <<b, m, minute>> \in dedup'
              BY <3>1
          <6> QED BY <4>1, <6>1 DEF IsDuplicate
        <5> QED BY <5>3, <5>4
      <4>2. CASE ~(c = b /\ n = m)
        <5>1. novel'[<<c, n>>] = novel[<<c, n>>]
            BY <3>1, <3>2, <4>2 DEF Keys
        <5>2. IsDuplicate(c, n) => IsDuplicate(c, n)'
            BY <3>1 DEF IsDuplicate
        <5> QED BY <1>0, <2>1, <5>1, <5>2 DEF GrantedIsRemembered
      <4> QED BY <4>1, <4>2
    <3>8. SpansUnderTrace'
        BY <1>0, <2>1 DEF SpansUnderTrace
    <3> QED BY <3>5, <3>6, <3>7, <3>8 DEF Inv, GrantedIsRemembered
  <2> QED BY <2>2, <2>3
<1>3. ASSUME NEW h \in Handlers, insertTrace(h)
      PROVE  Inv'
  <2>1. pc[h] # "idle" /\ Become(h, "span") /\ minute' = minute
        /\ UNCHANGED <<spans, dedup, sweepPc, counters, history>>
      BY <1>3 DEF insertTrace
  <2>2. body[h] \in Bodies /\ TraceOf[body[h]] \in Traces
      BY <2>1, Working
  <2>3. /\ traces' \in [Traces -> Bodies \cup {Absent}]
        /\ \A t \in Traces : traces[t] # Absent => traces'[t] = traces[t]
      BY <1>0, <1>3, <2>2 DEF insertTrace, TypeOK
  <2>4. TypeOK'
      BY <1>0, <2>1, <2>3, BecomeStep DEF TypeOK, counters, history, Steps
  <2>5. Timely'
      BY <1>0, <2>1, BecomeStep DEF Timely, Steps
  <2>6. GrantedIsRemembered'
      BY <1>0, <2>1 DEF GrantedIsRemembered, IsDuplicate, history
  <2>7. SpansUnderTrace'
      BY <1>0, <2>1, <2>3, Shape DEF SpansUnderTrace, TypeOK
  <2> QED BY <2>4, <2>5, <2>6, <2>7 DEF Inv
<1>4. ASSUME NEW h \in Handlers, insertSpan(h)
      PROVE  Inv'
  <2> DEFINE e == SpansOf[body[h]][next[h]]  s == SpanId[e]
  <2>1. /\ pc[h] # "idle" /\ next[h] <= Len(SpansOf[body[h]])
        /\ spans[s] # Absent \/ traces[SpanTraceId[e]] # Absent
        /\ next' = [next EXCEPT ![h] = @ + 1]
        /\ UNCHANGED <<minute, traces, dedup, sweepPc, pc, body, bucket,
                       counters, novel, accepted, deduped, purged>>
      BY <1>4 DEF insertSpan
  <2>2. body[h] \in Bodies /\ e \in Entries /\ s \in Spans
    <3>1. body[h] \in Bodies /\ e \in Entries
        BY <2>1, Working
    <3> QED BY <3>1, Shape
  <2>3. /\ spans' \in [Spans -> Entries \cup {Absent}]
        /\ \A q \in Spans : spans'[q] # Absent =>
             \/ spans'[q] = spans[q]
             \/ spans'[q] = e /\ traces[SpanTraceId[e]] # Absent
    <3>1. spans' = IF spans[s] = Absent THEN [spans EXCEPT ![s] = e] ELSE spans
        BY <1>4 DEF insertSpan
    <3>2. spans \in [Spans -> Entries \cup {Absent}]
        BY <1>0 DEF TypeOK
    <3> HIDE DEF s, e
    <3>3. CASE spans[s] = Absent
        BY <2>1, <2>2, <3>1, <3>2, <3>3
    <3>4. CASE spans[s] # Absent
        BY <3>1, <3>2, <3>4
    <3> QED BY <3>3, <3>4
  <2>4. next' \in [Handlers -> Nat \ {0}]
      BY <1>0, <2>1 DEF TypeOK
  <2>5. TypeOK'
      BY <1>0, <2>1, <2>3, <2>4 DEF TypeOK, counters
  <2>6. Timely' /\ GrantedIsRemembered'
      BY <1>0, <2>1 DEF Timely, GrantedIsRemembered, IsDuplicate
  <2>7. SpansUnderTrace'
    <3> HIDE DEF s, e
    <3> QED BY <1>0, <2>1, <2>3 DEF SpansUnderTrace
  <2> QED BY <2>5, <2>6, <2>7 DEF Inv
<1>5. ASSUME NEW h \in Handlers,
             ForeignKeyFails(h) \/ Accept(h) \/ StatementFails(h)
      PROVE  Inv'
  <2>1. /\ Release({h}) /\ minute' = minute /\ pc[h] # "idle"
        /\ UNCHANGED <<tables, sweepPc, novel, purged, deduped>>
      BY <1>5 DEF ForeignKeyFails, Accept, StatementFails, history
  <2>2. /\ accepted' \subseteq Bodies
        /\ requests' \in Nat /\ faults' \in Nat
    <3>1. body[h] \in Bodies /\ Len(SpansOf[body[h]]) \in Nat
        BY <2>1, Working
    <3>2. CASE ForeignKeyFails(h)
        BY <1>0, <3>2 DEF ForeignKeyFails, TypeOK, counters, history
    <3>3. CASE Accept(h)
        BY <1>0, <3>1, <3>3 DEF Accept, TypeOK, counters
    <3>4. CASE StatementFails(h)
        BY <1>0, <3>4 DEF StatementFails, TypeOK, history
    <3> QED BY <1>5, <3>2, <3>3, <3>4
  <2>3. TypeOK'
      BY <1>0, <2>1, <2>2, ReleaseStep DEF TypeOK, tables
  <2>4. Timely'
      BY <1>0, <2>1, ReleaseStep DEF Timely, tables
  <2>5. GrantedIsRemembered' /\ SpansUnderTrace'
      BY <1>0, <2>1 DEF GrantedIsRemembered, SpansUnderTrace, IsDuplicate, tables
  <2> QED BY <2>3, <2>4, <2>5 DEF Inv
<1>6. ASSUME NEW r \in Replicas, Crash(r)
      PROVE  Inv'
  <2>1. /\ Release({h \in Handlers : ReplicaOf[h] = r}) /\ minute' = minute
        /\ faults' = faults + 1
        /\ UNCHANGED <<tables, sweepPc, requests, history>>
      BY <1>6 DEF Crash
  <2>2. TypeOK'
      BY <1>0, <2>1, ReleaseStep DEF TypeOK, tables, history
  <2>3. Timely'
      BY <1>0, <2>1, ReleaseStep DEF Timely, tables
  <2>4. GrantedIsRemembered' /\ SpansUnderTrace'
      BY <1>0, <2>1 DEF GrantedIsRemembered, SpansUnderTrace, IsDuplicate,
                        tables, history
  <2> QED BY <2>2, <2>3, <2>4 DEF Inv
<1>7. CASE Tick
  <2>1. TypeOK'
      BY <1>0, <1>7, Shape DEF Tick, TypeOK, Minutes, tables, locals, counters, history
  <2>2. Timely'
    <3>1. ASSUME NEW h \in Handlers, pc'[h] # "idle"
          PROVE  /\ body'[h] \in Bodies
                 /\ bucket'[h] <= minute' /\ minute' <= bucket'[h] + Retention
      <4>1. /\ body'[h] = body[h] /\ bucket'[h] = bucket[h] /\ pc[h] # "idle"
            /\ minute' = minute + 1 /\ minute < bucket[h] + Retention
          BY <1>7, <3>1 DEF Tick, locals
      <4>2. /\ bucket[h] \in Nat /\ minute \in Nat /\ Retention \in Nat
            /\ bucket[h] <= minute /\ body[h] \in Bodies
          BY <1>0, <4>1, Shape DEF TypeOK, Timely, Minutes
      <4> QED BY <4>1, <4>2
    <3> QED BY <1>0, <1>7, <3>1 DEF Tick, Timely, tables
  <2>3. GrantedIsRemembered' /\ SpansUnderTrace'
    <3>1. /\ minute' = minute + 1 /\ UNCHANGED <<tables, novel>>
        BY <1>7 DEF Tick, history
    <3>2. minute \in Nat /\ Retention \in Nat
        BY <1>0, Shape DEF TypeOK, Minutes
    <3>3. ASSUME NEW b \in Bodies, NEW m \in Minutes
          PROVE  m + Retention < minute => m + Retention < minute'
        BY <3>1, <3>2 DEF Minutes
    <3> QED BY <1>0, <3>1, <3>3 DEF GrantedIsRemembered, SpansUnderTrace,
                                    IsDuplicate, tables
  <2> QED BY <2>1, <2>2, <2>3 DEF Inv
<1>8. CASE PurgeTraces
  <2> DEFINE Old  == {t \in Traces : traces[t] # Absent /\ StartedAt[traces[t]] < Cutoff}
             Gone == {s \in Spans : spans[s] # Absent /\ SpanTraceId[spans[s]] \in Old}
  <2>1. /\ traces' = [t \in Traces |-> IF t \in Old THEN Absent ELSE traces[t]]
        /\ spans' = [s \in Spans |-> IF s \in Gone THEN Absent ELSE spans[s]]
        /\ purged' = purged \cup Old /\ sweepPc' = "dedup"
        /\ UNCHANGED <<minute, dedup, pc, locals, counters, novel, accepted, deduped>>
      BY <1>8 DEF PurgeTraces
  <2>2. Old \subseteq Traces
      OBVIOUS
  <2> HIDE DEF Old
  <2>3. TypeOK'
      BY <1>0, <2>1, <2>2 DEF TypeOK, locals, counters
  <2>4. Timely' /\ GrantedIsRemembered'
      BY <1>0, <2>1 DEF Timely, GrantedIsRemembered, IsDuplicate, locals
  <2>5. SpansUnderTrace'
    <3> SUFFICES ASSUME NEW s \in Spans, spans'[s] # Absent
                 PROVE  traces'[SpanTraceId[spans'[s]]] # Absent
        BY DEF SpansUnderTrace
    <3>1. spans'[s] = spans[s] /\ spans[s] # Absent /\ s \notin Gone
        BY <2>1
    <3>2. SpanTraceId[spans[s]] \notin Old /\ SpanTraceId[spans[s]] \in Traces
        BY <1>0, <3>1, Shape DEF TypeOK
    <3>3. traces'[SpanTraceId[spans[s]]] = traces[SpanTraceId[spans[s]]]
        BY <2>1, <3>2
    <3> QED BY <1>0, <3>1, <3>3 DEF SpansUnderTrace
  <2> QED BY <2>3, <2>4, <2>5 DEF Inv
<1>9. CASE PurgeDedup
  <2>1. /\ dedup' = {row \in dedup : row[3] >= Cutoff} /\ sweepPc' = "traces"
        /\ UNCHANGED <<minute, traces, spans, pc, locals, counters, history>>
      BY <1>9 DEF PurgeDedup
  <2>2. TypeOK'
      BY <1>0, <2>1 DEF TypeOK, locals, counters, history
  <2>3. Timely' /\ SpansUnderTrace'
      BY <1>0, <2>1 DEF Timely, SpansUnderTrace, locals
  <2>4. ASSUME NEW b \in Bodies, NEW m \in Minutes, IsDuplicate(b, m)
        PROVE  IsDuplicate(b, m)' \/ m + Retention < minute
    <3>1. PICK row \in dedup : row[1] = b /\ row[2] = m
        BY <2>4 DEF IsDuplicate
    <3>2. row[2] <= row[3] /\ row[3] \in Int /\ m \in Int
        BY <1>0, <3>1 DEF Timely, TypeOK, Minutes
    <3>3. CASE row[3] >= Cutoff
        BY <2>1, <3>1, <3>3 DEF IsDuplicate
    <3>4. CASE ~(row[3] >= Cutoff)
      <4>1. minute \in Int /\ Retention \in Int
          BY <1>0, Shape DEF TypeOK, Minutes
      <4> QED BY <3>1, <3>2, <3>4, <4>1 DEF Cutoff
    <3> QED BY <3>3, <3>4
  <2>5. GrantedIsRemembered'
      BY <1>0, <2>1, <2>4 DEF GrantedIsRemembered, history
  <2> QED BY <2>2, <2>3, <2>5 DEF Inv
<1>10. CASE UNCHANGED vars
    BY <1>0, <1>10 DEF vars, tables, locals, counters, history, Inv, TypeOK, Timely,
                       GrantedIsRemembered, SpansUnderTrace, IsDuplicate
<1> QED
    BY <1>1, <1>2, <1>3, <1>4, <1>5, <1>6, <1>7, <1>8, <1>9, <1>10 DEF Next, Handle

(* pgSpanStore.ts: the tables and the handlers' locals keep their types.    *)
THEOREM TypeCorrect == Spec => []TypeOK
<1>1. Inv => TypeOK
    BY DEF Inv
<1> QED BY <1>1, InvInit, InvStep, PTL DEF Spec

(* SpanStore.tryRecordContentHash: racing callers with identical bytes in   *)
(* the same minute, at most one is told that they are novel - for any       *)
(* number of replicas, and whatever the sweep deletes meanwhile.            *)
THEOREM NovelOnce == Spec => []NovelOncePerMinute
<1>1. Inv => NovelOncePerMinute
    BY DEF Inv, GrantedIsRemembered, NovelOncePerMinute, Keys
<1> QED BY <1>1, InvInit, InvStep, PTL DEF Spec

(* insertSpan and purgeExpired: no interleaving leaves a span without its   *)
(* trace.                                                                   *)
THEOREM NoOrphanSpan == Spec => []SpansUnderTrace
<1>1. Inv => SpansUnderTrace
    BY DEF Inv
<1> QED BY <1>1, InvInit, InvStep, PTL DEF Spec

-----------------------------------------------------------------------------
(* What a 202 promises, and what no step does to a stored row.              *)

(* The row of an id is a span with that id.                                 *)
OwnRows == \A s \in Spans : spans[s] # Absent => SpanId[spans[s]] = s

(* A handler among its spans has stored the trace and the spans behind it.  *)
Progress ==
    \A h \in Handlers :
        /\ pc[h] # "span" => next[h] = 1
        /\ pc[h] = "span" => /\ next[h] - 1 \in 0 .. Len(SpansOf[body[h]])
                             /\ Stored(body[h], next[h] - 1)

StoreInv == OwnRows /\ Progress /\ AcceptedIsStored /\ accepted \subseteq Bodies

(* Nothing is accepted and nobody is under way.                             *)
LEMMA StoreInvInit == Init => StoreInv
  BY DEF Init, StoreInv, OwnRows, Progress, AcceptedIsStored

(* The statements that write rows.                                          *)
RowStep == \/ \E h \in Handlers : insertTrace(h) \/ insertSpan(h)
           \/ PurgeTraces

(* All other steps leave the rows, and what was swept, alone.               *)
LEMMA OtherSteps ==
    ASSUME [Next]_vars, ~RowStep
    PROVE  UNCHANGED <<traces, spans, purged>>
<1>1. ASSUME NEW h \in Handlers, NEW b \in Bodies, Receive(h, b)
      PROVE  UNCHANGED <<traces, spans, purged>>
    BY <1>1 DEF Receive, tables, history
<1>2. ASSUME NEW h \in Handlers, tryRecordContentHash(h)
      PROVE  UNCHANGED <<traces, spans, purged>>
    BY <1>2 DEF tryRecordContentHash
<1>3. ASSUME NEW h \in Handlers, ForeignKeyFails(h) \/ Accept(h) \/ StatementFails(h)
      PROVE  UNCHANGED <<traces, spans, purged>>
    BY <1>3 DEF ForeignKeyFails, Accept, StatementFails, tables, history
<1>4. ASSUME NEW r \in Replicas, Crash(r)
      PROVE  UNCHANGED <<traces, spans, purged>>
    BY <1>4 DEF Crash, tables, history
<1>5. CASE Tick \/ PurgeDedup
    BY <1>5 DEF Tick, PurgeDedup, tables, history
<1>6. CASE UNCHANGED vars
    BY <1>6 DEF vars, tables, history
<1> QED BY <1>1, <1>2, <1>3, <1>4, <1>5, <1>6 DEF Next, Handle, RowStep

(* RowsKept, for one step.                                                  *)
LEMMA RowsKeptStep == Inv /\ [Next]_vars => RowsKept
<1> SUFFICES ASSUME Inv, [Next]_vars PROVE RowsKept
    OBVIOUS
<1>0. TypeOK /\ SpansUnderTrace
    BY DEF Inv
<1>1. CASE ~RowStep
    BY <1>1, OtherSteps DEF RowsKept
<1>2. ASSUME NEW h \in Handlers, insertTrace(h)
      PROVE  RowsKept
  <2> DEFINE t == TraceOf[body[h]]
  <2>1. /\ traces' = IF traces[t] = Absent THEN [traces EXCEPT ![t] = body[h]] ELSE traces
        /\ spans' = spans
      BY <1>2 DEF insertTrace
  <2> HIDE DEF t
  <2> QED BY <1>0, <2>1 DEF RowsKept, TypeOK
<1>3. ASSUME NEW h \in Handlers, insertSpan(h)
      PROVE  RowsKept
  <2> DEFINE e == SpansOf[body[h]][next[h]]  s == SpanId[e]
  <2>1. /\ spans' = IF spans[s] = Absent THEN [spans EXCEPT ![s] = e] ELSE spans
        /\ traces' = traces
      BY <1>3 DEF insertSpan
  <2> HIDE DEF s, e
  <2> QED BY <1>0, <2>1 DEF RowsKept, TypeOK
<1>4. CASE PurgeTraces
    BY <1>0, <1>4, Shape DEF PurgeTraces, RowsKept, TypeOK
<1> QED BY <1>1, <1>2, <1>3, <1>4 DEF RowStep

(* The row of a span stays, or is swept with the trace it hangs under.      *)
LEMMA KeptStays ==
    ASSUME Inv, OwnRows, [Next]_vars, NEW e \in Entries, Kept(e)
    PROVE  Kept(e)'
<1>0. /\ spans \in [Spans -> Entries \cup {Absent}] /\ purged \subseteq Traces
      /\ traces \in [Traces -> Bodies \cup {Absent}]
      /\ SpanId[e] \in Spans /\ Absent \notin Entries
    BY Shape DEF Inv, TypeOK
<1>1. PICK f \in Entries : /\ SpanId[f] = SpanId[e]
                           /\ spans[SpanId[e]] = f \/ SpanTraceId[f] \in purged
    BY DEF Kept
<1>2. SpanTraceId[f] \in Traces
    BY Shape
<1>3. ASSUME \/ spans'[SpanId[e]] = spans[SpanId[e]] /\ purged \subseteq purged'
             \/ SpanTraceId[f] \in purged'
      PROVE  Kept(e)'
  <2>1. spans'[SpanId[e]] = f \/ SpanTraceId[f] \in purged'
      BY <1>1, <1>3
  <2> QED BY <1>1, <2>1 DEF Kept
<1>4. CASE ~RowStep
    BY <1>3, <1>4, OtherSteps
<1>5. ASSUME NEW h \in Handlers, insertTrace(h)
      PROVE  Kept(e)'
    BY <1>3, <1>5 DEF insertTrace, history
<1>6. ASSUME NEW h \in Handlers, insertSpan(h)
      PROVE  Kept(e)'
  <2> DEFINE g == SpansOf[body[h]][next[h]]  q == SpanId[g]
  <2>1. /\ spans' = IF spans[q] = Absent THEN [spans EXCEPT ![q] = g] ELSE spans
        /\ purged' = purged
      BY <1>6 DEF insertSpan
  <2> HIDE DEF g, q
  <2>2. spans[SpanId[e]] # Absent => spans'[SpanId[e]] = spans[SpanId[e]]
      BY <1>0, <2>1
  <2> QED BY <1>0, <1>1, <1>3, <2>1, <2>2
<1>7. CASE PurgeTraces
  <2> DEFINE old == {t \in Traces : traces[t] # Absent /\ StartedAt[traces[t]] < Cutoff}
             gone == {s \in Spans : spans[s] # Absent /\ SpanTraceId[spans[s]] \in old}
  <2>1. /\ spans' = [s \in Spans |-> IF s \in gone THEN Absent ELSE spans[s]]
        /\ purged' = purged \cup old
      BY <1>7 DEF PurgeTraces
  <2>2. CASE spans[SpanId[e]] = f
    <3>1. SpanId[e] \in gone => SpanTraceId[f] \in old
        BY <2>2
    <3> HIDE DEF old, gone
    <3>2. SpanId[e] \notin gone => spans'[SpanId[e]] = spans[SpanId[e]]
        BY <1>0, <2>1
    <3> QED BY <1>3, <2>1, <3>1, <3>2
  <2>3. CASE SpanTraceId[f] \in purged
      BY <1>3, <2>1, <2>3
  <2> QED BY <1>1, <2>2, <2>3
<1> QED BY <1>4, <1>5, <1>6, <1>7 DEF RowStep

(* A trace that is stored, or was swept, stays so.                          *)
LEMMA TraceStays ==
    ASSUME Inv, [Next]_vars, NEW t \in Traces, t \in purged \/ traces[t] # Absent
    PROVE  t \in purged' \/ traces'[t] # Absent
<1>0. traces \in [Traces -> Bodies \cup {Absent}]
    BY DEF Inv, TypeOK
<1>1. CASE ~RowStep
    BY <1>1, OtherSteps
<1>2. ASSUME NEW h \in Handlers, insertTrace(h)
      PROVE  t \in purged' \/ traces'[t] # Absent
  <2> DEFINE u == TraceOf[body[h]]
  <2>1. /\ traces' = IF traces[u] = Absent THEN [traces EXCEPT ![u] = body[h]] ELSE traces
        /\ purged' = purged
      BY <1>2 DEF insertTrace, history
  <2> HIDE DEF u
  <2> QED BY <1>0, <2>1
<1>3. ASSUME NEW h \in Handlers, insertSpan(h)
      PROVE  t \in purged' \/ traces'[t] # Absent
    BY <1>3 DEF insertSpan
<1>4. CASE PurgeTraces
    BY <1>4 DEF PurgeTraces
<1> QED BY <1>1, <1>2, <1>3, <1>4 DEF RowStep

(* What a body has stored stays stored, sweeps aside.                       *)
LEMMA StoredStays ==
    ASSUME Inv, OwnRows, [Next]_vars,
           NEW b \in Bodies, NEW n \in 0 .. Len(SpansOf[b]), Stored(b, n)
    PROVE  Stored(b, n)'
<1>1. /\ TraceOf[b] \in Traces
      /\ \A i \in 1 .. n : SpansOf[b][i] \in Entries
    BY Shape
<1>2. TraceOf[b] \in purged' \/ traces'[TraceOf[b]] # Absent
    BY <1>1, TraceStays DEF Stored
<1>3. ASSUME NEW i \in 1 .. n
      PROVE  Kept(SpansOf[b][i])'
    BY <1>1, KeptStays DEF Stored
<1> QED BY <1>2, <1>3 DEF Stored

(* A handler that makes no progress keeps what it has.                      *)
LEMMA ProgressStays ==
    ASSUME Inv, StoreInv, [Next]_vars, NEW h \in Handlers, pc[h] = "span",
           pc'[h] = "span", body'[h] = body[h], next'[h] = next[h]
    PROVE  /\ next'[h] - 1 \in 0 .. Len(SpansOf[body'[h]])
           /\ Stored(body[h], next[h] - 1)'
<1>1. /\ body[h] \in Bodies /\ OwnRows
      /\ next[h] - 1 \in 0 .. Len(SpansOf[body[h]]) /\ Stored(body[h], next[h] - 1)
    BY Working DEF StoreInv, Progress
<1> DEFINE b == body[h]  n == next[h] - 1
<1>2. /\ b \in Bodies /\ n \in 0 .. Len(SpansOf[b]) /\ Stored(b, n)
    BY <1>1
<1>3. body'[h] = b /\ next'[h] - 1 = n
    OBVIOUS
<1>4. Stored(b, n)'
    BY <1>1, StoredStays
<1> QED BY <1>1, <1>3, <1>4

(* A step that moves no handler into or along its spans.                    *)
LEMMA ProgressQuiet ==
    ASSUME Inv, StoreInv, [Next]_vars,
           \A h \in Handlers :
             \/ pc'[h] # "span" /\ next'[h] = 1
             \/ pc'[h] = pc[h] /\ body'[h] = body[h] /\ next'[h] = next[h]
    PROVE  Progress'
<1> SUFFICES ASSUME NEW h \in Handlers
             PROVE  /\ pc'[h] # "span" => next'[h] = 1
                    /\ pc'[h] = "span" => /\ next'[h] - 1 \in 0 .. Len(SpansOf[body'[h]])
                                          /\ Stored(body[h], next[h] - 1)'
    BY DEF Progress
<1>1. CASE pc'[h] # "span" /\ next'[h] = 1
    BY <1>1
<1>2. CASE pc'[h] = pc[h] /\ body'[h] = body[h] /\ next'[h] = next[h]
  <2>1. pc[h] # "span" => next[h] = 1
      BY DEF StoreInv, Progress
  <2>2. CASE pc[h] # "span"
      BY <1>2, <2>1, <2>2
  <2>3. CASE pc[h] = "span"
      BY <1>2, <2>3, ProgressStays
  <2> QED BY <2>2, <2>3
<1> QED BY <1>1, <1>2

(* A handler that is released is not at a span; the others stay where they  *)
(* are.                                                                     *)
LEMMA ReleaseQuiet ==
    ASSUME Inv, NEW H, Release(H)
    PROVE  \A h \in Handlers :
             \/ pc'[h] # "span" /\ next'[h] = 1
             \/ pc'[h] = pc[h] /\ body'[h] = body[h] /\ next'[h] = next[h]
  BY DEF Release

(* Every step keeps it: a row that goes is blamed on the sweep of a trace.  *)
LEMMA StoreInvStep == Inv /\ StoreInv /\ [Next]_vars => StoreInv'
<1> SUFFICES ASSUME Inv, StoreInv, [Next]_vars PROVE StoreInv'
    OBVIOUS
<1>0. /\ OwnRows /\ Progress /\ AcceptedIsStored /\ accepted \subseteq Bodies
      /\ traces \in [Traces -> Bodies \cup {Absent}]
      /\ spans \in [Spans -> Entries \cup {Absent}]
      /\ pc \in [Handlers -> Steps] /\ body \in [Handlers -> Bodies \cup {Absent}]
      /\ next \in [Handlers -> Nat \ {0}]
    BY DEF StoreInv, Inv, TypeOK
<1>1. ASSUME accepted' = accepted
      PROVE  AcceptedIsStored' /\ accepted' \subseteq Bodies
  <2>1. ASSUME NEW b \in accepted
        PROVE  Stored(b, Len(SpansOf[b]))'
    <3>1. /\ b \in Bodies /\ Len(SpansOf[b]) \in 0 .. Len(SpansOf[b])
          /\ Stored(b, Len(SpansOf[b]))
        BY <1>0, <2>1, Shape DEF AcceptedIsStored
    <3> DEFINE n == Len(SpansOf[b])
    <3>2. n \in 0 .. Len(SpansOf[b]) /\ Stored(b, n)
        BY <3>1
    <3>3. Stored(b, n)'
        BY <1>0, <3>1, <3>2, StoredStays
    <3> QED BY <3>3
  <2> QED BY <1>0, <1>1, <2>1 DEF AcceptedIsStored
<1>2. ASSUME UNCHANGED spans
      PROVE  OwnRows'
    BY <1>0, <1>2 DEF OwnRows
<1>3. ASSUME NEW h \in Handlers, NEW b \in Bodies, Receive(h, b)
      PROVE  StoreInv'
  <2>1. /\ pc' = [pc EXCEPT ![h] = "record"] /\ pc[h] = "idle"
        /\ body' = [body EXCEPT ![h] = b] /\ next' = next
        /\ accepted' = accepted /\ spans' = spans
      BY <1>3 DEF Receive, history, tables
  <2>2. next[h] = 1
      BY <1>0, <2>1 DEF Progress
  <2>3. Progress'
      BY <1>0, <2>1, <2>2, ProgressQuiet
  <2> QED BY <1>1, <1>2, <2>1, <2>3 DEF StoreInv
<1>4. ASSUME NEW h \in Handlers, tryRecordContentHash(h)
      PROVE  StoreInv'
  <2>1. /\ accepted' = accepted /\ spans' = spans /\ pc[h] = "record"
        /\ Release({h}) \/ Become(h, "trace")
      BY <1>4 DEF tryRecordContentHash
  <2>2. CASE Release({h})
      BY <1>1, <1>2, <2>1, <2>2, ReleaseQuiet, ProgressQuiet DEF StoreInv
  <2>3. CASE Become(h, "trace")
    <3>1. next[h] = 1
        BY <1>0, <2>1 DEF Progress
    <3>2. Progress'
        BY <1>0, <2>3, <3>1, ProgressQuiet DEF Become, locals
    <3> QED BY <1>1, <1>2, <2>1, <3>2 DEF StoreInv
  <2> QED BY <2>1, <2>2, <2>3
<1>5. ASSUME NEW h \in Handlers, insertTrace(h)
      PROVE  StoreInv'
  <2>1. /\ accepted' = accepted /\ spans' = spans /\ pc[h] = "trace"
        /\ pc' = [pc EXCEPT ![h] = "span"] /\ body' = body /\ next' = next
      BY <1>5 DEF insertTrace, Become, locals, history
  <2>2. next[h] = 1 /\ body[h] \in Bodies /\ TraceOf[body[h]] \in Traces
        /\ SpansOf[body[h]] \in Seq(Entries)
      BY <1>0, <2>1, Working DEF Progress
  <2>3. traces'[TraceOf[body[h]]] # Absent
    <3> DEFINE t == TraceOf[body[h]]
    <3>1. traces' = IF traces[t] = Absent THEN [traces EXCEPT ![t] = body[h]] ELSE traces
        BY <1>5 DEF insertTrace
    <3>2. t \in Traces /\ body[h] # Absent
        BY <2>2, Shape
    <3> HIDE DEF t
    <3>3. traces'[t] # Absent
        BY <1>0, <3>1, <3>2
    <3> QED BY <3>3 DEF t
  <2>4. ASSUME NEW g \in Handlers, g # h
        PROVE  /\ pc'[g] # "span" => next'[g] = 1
               /\ pc'[g] = "span" => /\ next'[g] - 1 \in 0 .. Len(SpansOf[body'[g]])
                                     /\ Stored(body[g], next[g] - 1)'
    <3>1. pc'[g] = pc[g] /\ body'[g] = body[g] /\ next'[g] = next[g]
        BY <1>0, <2>1, <2>4
    <3>2. pc[g] # "span" => next[g] = 1
        BY <1>0 DEF Progress
    <3> QED BY <3>1, <3>2, ProgressStays
  <2>5. /\ next'[h] - 1 \in 0 .. Len(SpansOf[body'[h]])
        /\ Stored(body[h], next[h] - 1)'
      BY <2>1, <2>2, <2>3 DEF Stored
  <2>6. Progress'
      BY <1>0, <2>1, <2>4, <2>5 DEF Progress
  <2> QED BY <1>1, <1>2, <2>1, <2>6 DEF StoreInv
<1>6. ASSUME NEW h \in Handlers, insertSpan(h)
      PROVE  StoreInv'
  <2> DEFINE b == body[h]  n == next[h]  e == SpansOf[body[h]][next[h]]  q == SpanId[e]
  <2>1. /\ accepted' = accepted /\ purged' = purged /\ traces' = traces /\ pc[h] = "span"
        /\ pc' = pc /\ body' = body /\ next' = [next EXCEPT ![h] = @ + 1]
        /\ n <= Len(SpansOf[b])
        /\ spans' = IF spans[q] = Absent THEN [spans EXCEPT ![q] = e] ELSE spans
      BY <1>6 DEF insertSpan
  <2>2. b \in Bodies /\ b # Absent /\ SpansOf[b] \in Seq(Entries)
      BY <2>1, Working, Shape
  <2>3. n \in 1 .. Len(SpansOf[b]) /\ n \in DOMAIN SpansOf[b]
      BY <1>0, <2>1, <2>2
  <2>4. e \in Entries /\ e # Absent /\ q \in Spans
    <3>1. e \in Entries
        BY <2>2, <2>3
    <3> QED BY <3>1, Shape
  <2>5. /\ spans'[q] # Absent /\ spans'[q] \in {spans[q], e}
        /\ spans'[q] = spans[q] => spans[q] # Absent
        /\ \A s \in Spans : s # q => spans'[s] = spans[s]
    <3> HIDE DEF q, e
    <3> QED BY <1>0, <2>1, <2>4
  <2>6. OwnRows'
    <3>1. SpanId[spans'[q]] = q
        BY <1>0, <2>4, <2>5 DEF OwnRows
    <3> HIDE DEF q, e
    <3> QED BY <1>0, <2>4, <2>5, <3>1 DEF OwnRows
  <2>7. ASSUME NEW g \in Handlers, g # h
        PROVE  /\ pc'[g] # "span" => next'[g] = 1
               /\ pc'[g] = "span" => /\ next'[g] - 1 \in 0 .. Len(SpansOf[body'[g]])
                                     /\ Stored(body[g], next[g] - 1)'
    <3>1. pc'[g] = pc[g] /\ body'[g] = body[g] /\ next'[g] = next[g]
        BY <1>0, <2>1, <2>7
    <3>2. pc[g] # "span" => next[g] = 1
        BY <1>0 DEF Progress
    <3> QED BY <3>1, <3>2, ProgressStays
  <2>8. Stored(body[h], next[h] - 1)'
    <3>1. next[h] - 1 \in 0 .. Len(SpansOf[b]) /\ Stored(b, next[h] - 1)
        BY <1>0, <2>1 DEF Progress
    <3>2. PICK c \in Bodies, m \in 0 .. Len(SpansOf[b]), f \in Entries :
            c = b /\ m = next[h] - 1 /\ f = e
        BY <2>2, <2>4, <3>1
    <3>3. /\ m \in 0 .. Len(SpansOf[c]) /\ Stored(c, m) /\ f = SpansOf[c][m + 1]
          /\ m + 1 = n /\ body'[h] = c /\ next'[h] - 1 = m + 1
        BY <1>0, <2>1, <2>2, <3>1, <3>2
    <3>4. /\ spans'[SpanId[f]] \in Entries
          /\ SpanId[spans'[SpanId[f]]] = SpanId[f]
        BY <1>0, <2>4, <2>5, <2>6, <3>2 DEF OwnRows
    <3> HIDE DEF b, n, e, q
    <3>5. Stored(c, m)'
        BY <1>0, <3>3, StoredStays
    <3>6. Kept(f)'
        BY <3>4 DEF Kept
    <3>7. \A i \in 1 .. m + 1 : i \in 1 .. m \/ i = m + 1
        BY <3>3
    <3>8. \A i \in 1 .. m : Kept(SpansOf[c][i])'
        BY <3>5 DEF Stored
    <3>9. Stored(c, m + 1)'
        BY <3>3, <3>5, <3>6, <3>7, <3>8 DEF Stored
    <3> QED BY <3>3, <3>9
  <2>9. next'[h] - 1 \in 0 .. Len(SpansOf[body'[h]])
      BY <1>0, <2>1, <2>3
  <2>10. Progress'
      BY <2>1, <2>7, <2>8, <2>9 DEF Progress
  <2> QED BY <1>1, <2>1, <2>6, <2>10 DEF StoreInv
<1>7. ASSUME NEW h \in Handlers, ForeignKeyFails(h) \/ StatementFails(h)
      PROVE  StoreInv'
  <2>1. accepted' = accepted /\ spans' = spans /\ Release({h})
      BY <1>7 DEF ForeignKeyFails, StatementFails, tables, history
  <2> QED BY <1>1, <1>2, <2>1, ReleaseQuiet, ProgressQuiet DEF StoreInv
<1>8. ASSUME NEW h \in Handlers, Accept(h)
      PROVE  StoreInv'
  <2>1. /\ accepted' = accepted \cup {body[h]} /\ UNCHANGED <<traces, spans, purged>>
        /\ Release({h}) /\ pc[h] = "span" /\ next[h] > Len(SpansOf[body[h]])
      BY <1>8 DEF Accept, tables, history
  <2>2. body[h] \in Bodies /\ SpansOf[body[h]] \in Seq(Entries)
      BY <2>1, Working, Shape
  <2>3. next[h] - 1 = Len(SpansOf[body[h]]) /\ Stored(body[h], next[h] - 1)
    <3>1. Stored(body[h], next[h] - 1) /\ next[h] - 1 \in 0 .. Len(SpansOf[body[h]])
        BY <1>0, <2>1 DEF Progress
    <3> QED BY <1>0, <2>1, <2>2, <3>1
  <2>4. \A b \in accepted \cup {body[h]} : b \in Bodies /\ Stored(b, Len(SpansOf[b]))
      BY <1>0, <2>2, <2>3 DEF AcceptedIsStored
  <2>5. AcceptedIsStored' /\ accepted' \subseteq Bodies
      BY <2>1, <2>4 DEF AcceptedIsStored, Stored, Kept
  <2> QED BY <1>2, <2>1, <2>5, ReleaseQuiet, ProgressQuiet DEF StoreInv
<1>9. ASSUME NEW r \in Replicas, Crash(r)
      PROVE  StoreInv'
  <2>1. /\ accepted' = accepted /\ spans' = spans
        /\ Release({h \in Handlers : ReplicaOf[h] = r})
      BY <1>9 DEF Crash, tables, history
  <2> QED BY <1>1, <1>2, <2>1, ReleaseQuiet, ProgressQuiet DEF StoreInv
<1>10. CASE Tick \/ PurgeDedup \/ UNCHANGED vars
  <2>1. UNCHANGED <<accepted, spans, pc, body, next>>
      BY <1>10 DEF Tick, PurgeDedup, vars, tables, locals, history
  <2> QED BY <1>1, <1>2, <2>1, ProgressQuiet DEF StoreInv
<1>11. CASE PurgeTraces
  <2>1. UNCHANGED <<accepted, pc, body, next>>
      BY <1>11 DEF PurgeTraces, locals
  <2>2. \A s \in Spans : spans'[s] \in {spans[s], Absent}
      BY <1>0, <1>11 DEF PurgeTraces
  <2>3. OwnRows'
      BY <1>0, <2>2 DEF OwnRows
  <2> QED BY <1>1, <2>1, <2>3, ProgressQuiet DEF StoreInv
<1> QED
    BY <1>3, <1>4, <1>5, <1>6, <1>7, <1>8, <1>9, <1>10, <1>11 DEF Next, Handle

(* POST /ingest: what was answered 202, and not as a duplicate, is in the   *)
(* tables, whole, until a sweep takes the trace that each row hangs under,  *)
(* the trace a span names and not the body's.  Accept's guard says only     *)
(* that the loop has ended; that everything the loop wrote is still there   *)
(* is StoreInv.                                                             *)
THEOREM AcceptedStored == Spec => []AcceptedIsStored
<1>1. Inv /\ StoreInv => AcceptedIsStored
    BY DEF StoreInv
<1> QED BY <1>1, InvInit, InvStep, StoreInvInit, StoreInvStep, PTL DEF Spec

(* insertTrace, insertSpan and purgeExpired: no step rewrites a stored row. *)
THEOREM FirstWriterWins == Spec => RowsNeverRewritten
  BY InvInit, InvStep, RowsKeptStep, PTL DEF Spec, RowsNeverRewritten

-----------------------------------------------------------------------------
(* The reads over this store: what it keeps while they run.                 *)

(* The rows that are stored are finitely many, and a trace row's body is    *)
(* one of that trace.                                                       *)
StoredSpans == {s \in Spans : spans[s] # Absent}
RowInv ==
    /\ IsFiniteSet(StoredTraces) /\ IsFiniteSet(StoredSpans)
    /\ \A t \in StoredTraces : TraceOf[traces[t]] = t

(* There are no rows at first.                                              *)
LEMMA RowInvInit == Init => RowInv
<1> SUFFICES ASSUME Init PROVE RowInv
    OBVIOUS
<1>1. StoredTraces = {} /\ StoredSpans = {}
    BY DEF Init, StoredTraces, StoredSpans
<1> QED BY <1>1, FS_EmptySet DEF RowInv

(* An insert adds one row, under its own trace; a sweep only takes rows.    *)
LEMMA RowInvStep == Inv /\ RowInv /\ [Next]_vars => RowInv'
<1> SUFFICES ASSUME Inv, RowInv, [Next]_vars PROVE RowInv'
    OBVIOUS
<1>0. TypeOK
    BY DEF Inv
<1>1. CASE ~RowStep
    BY <1>1, OtherSteps DEF RowInv, StoredTraces, StoredSpans
<1>2. ASSUME NEW h \in Handlers, insertTrace(h)
      PROVE  RowInv'
  <2> DEFINE t == TraceOf[body[h]]
  <2>1. /\ traces' = IF traces[t] = Absent THEN [traces EXCEPT ![t] = body[h]] ELSE traces
        /\ spans' = spans
      BY <1>2 DEF insertTrace
  <2>2. t \in Traces /\ body[h] \in Bodies
      BY <1>2, Working DEF insertTrace
  <2> HIDE DEF t
  <2>3. StoredTraces' \subseteq StoredTraces \cup {t} /\ StoredSpans' = StoredSpans
      BY <1>0, <2>1, <2>2 DEF StoredTraces, StoredSpans, TypeOK
  <2>4. IsFiniteSet(StoredTraces')
    <3>1. IsFiniteSet(StoredTraces \cup {t})
        BY FS_AddElement DEF RowInv
    <3> QED BY <2>3, <3>1, FS_Subset
  <2>5. \A u \in StoredTraces' : TraceOf[traces'[u]] = u
      BY <1>0, <2>1, <2>2 DEF StoredTraces, RowInv, TypeOK, t
  <2> QED BY <2>3, <2>4, <2>5 DEF RowInv
<1>3. ASSUME NEW h \in Handlers, insertSpan(h)
      PROVE  RowInv'
  <2> DEFINE e == SpansOf[body[h]][next[h]]  s == SpanId[e]
  <2>1. /\ spans' = IF spans[s] = Absent THEN [spans EXCEPT ![s] = e] ELSE spans
        /\ traces' = traces
      BY <1>3 DEF insertSpan
  <2> HIDE DEF s, e
  <2>2. StoredSpans' \subseteq StoredSpans \cup {s} /\ StoredTraces' = StoredTraces
      BY <1>0, <2>1 DEF StoredTraces, StoredSpans, TypeOK
  <2>3. IsFiniteSet(StoredSpans')
    <3>1. IsFiniteSet(StoredSpans \cup {s})
        BY FS_AddElement DEF RowInv
    <3> QED BY <2>2, <3>1, FS_Subset
  <2> QED BY <2>1, <2>2, <2>3 DEF RowInv, StoredTraces
<1>4. CASE PurgeTraces
  <2>1. /\ \A t \in Traces : traces'[t] \in {traces[t], Absent}
        /\ \A s \in Spans : spans'[s] \in {spans[s], Absent}
      BY <1>4 DEF PurgeTraces
  <2>2. StoredTraces' \subseteq StoredTraces /\ StoredSpans' \subseteq StoredSpans
      BY <2>1 DEF StoredTraces, StoredSpans
  <2>3. IsFiniteSet(StoredTraces') /\ IsFiniteSet(StoredSpans')
      BY <2>2, FS_Subset DEF RowInv
  <2>4. \A u \in StoredTraces' : TraceOf[traces'[u]] = u
      BY <2>1 DEF StoredTraces, RowInv
  <2> QED BY <2>3, <2>4 DEF RowInv
<1> QED BY <1>1, <1>2, <1>3, <1>4 DEF RowStep

(* The writers' clock.                                                      *)
LEMMA ClockStep ==
    ASSUME TypeOK, Next
    PROVE  minute' = minute \/ minute' = minute + 1
<1>1. ASSUME NEW h \in Handlers, NEW b \in Bodies, Receive(h, b)
      PROVE  minute' = minute
    BY <1>1 DEF Receive
<1>2. ASSUME NEW h \in Handlers, Handle(h) \/ StatementFails(h)
      PROVE  minute' = minute
    BY <1>2 DEF Handle, tryRecordContentHash, insertTrace, insertSpan, ForeignKeyFails,
                Accept, StatementFails
<1>3. CASE (\E r \in Replicas : Crash(r)) \/ PurgeTraces \/ PurgeDedup
    BY <1>3 DEF Crash, PurgeTraces, PurgeDedup
<1>4. CASE Tick
    BY <1>4 DEF Tick
<1> QED BY <1>1, <1>2, <1>3, <1>4 DEF Next

(* What the store keeps while reads run.                                    *)
StoreOK == Inv /\ StoreInv /\ RowInv

(* Reads begin over an empty store.                                         *)
LEMMA StoreInit == ReadsInit => StoreOK
  BY InvInit, StoreInvInit, RowInvInit DEF ReadsInit, StoreOK

(* A step of a read leaves the store alone; any other is a step of Ingest.  *)
LEMMA StoreStep == StoreOK /\ [ReadsNext]_<<vars, readVars>> => StoreOK'
<1> SUFFICES ASSUME StoreOK, [ReadsNext]_<<vars, readVars>> PROVE StoreOK'
    OBVIOUS
<1>1. [Next]_vars
    BY DEF ReadsNext, WriteStep
<1> QED BY <1>1, InvStep, StoreInvStep, RowInvStep DEF StoreOK

-----------------------------------------------------------------------------
(* The read in progress.                                                    *)

Token   == [trace : Traces, org : Orgs, signed : Int, expiresAt : Int]
Row     == [id : Traces, startedAt : Int]
ListRow == [id : Traces, startedAt : Int, spanCount : Nat]
ReadOps   == {"none"} \cup LinkOps \cup ListOps \cup IdOps
ReadSteps == {"idle", "trace", "sign", "view", "spans", "rows", "summaries", "answered"}
Statuses  == {0, 200, 201, 400, 401, 403, 404, 500}
Read ==
    [op : ReadOps, step : ReadSteps, failed : BOOLEAN, asked : Int,
     must : SUBSET Bodies, org : Orgs \cup {NoOrg}, trace : Traces \cup {Absent},
     project : Projects \cup {Absent}, token : Token \cup {<<>>}, limit : Int,
     before : SUBSET Int, todo : Seq(Row), page : Nat, listed : Seq(ListRow),
     counts : [Projects -> Nat] \cup {<<>>}, spans : SUBSET Spans, status : Statuses]

(* Being idle is a value of rd ...                                          *)
LEMMA IdleIsRead == Idle \in Read
  BY DEF Idle, Read, ReadOps, ReadSteps, Statuses

(* ... and so are an answer and a refusal.                                  *)
LEMMA AnswerIsRead ==
    ASSUME NEW r \in Read, NEW code \in Statuses
    PROVE  Answer(r, code) \in Read /\ Refuse(r, code) \in Read
<1>1. ASSUME NEW q \in Read
      PROVE  Answer(q, code) \in Read
  <2>1. "answered" \in ReadSteps
      BY DEF ReadSteps
  <2> QED BY <2>1 DEF Answer, Read
<1>2. [Idle EXCEPT !.op = r.op] \in Read
    BY IdleIsRead DEF Read
<1> QED BY <1>1, <1>2 DEF Refuse

(* What a request starts as: refused, on its way to the first statement, or *)
(* answered at once because its link has expired.                           *)
Fresh(r) == /\ r.todo = <<>> /\ r.listed = <<>> /\ r.before = {} /\ r.page = 0
            /\ r.spans = {} /\ r.counts = <<>> /\ ~r.failed /\ r.op # "none"
Refused(r) == Fresh(r) /\ r.step = "answered" /\ r.org = NoOrg /\ r.status \notin {0, 200, 201}
NewRequest(r) ==
    \/ Refused(r)
    \/ /\ Fresh(r) /\ r.org \in Orgs
       /\ \/ r.step = "trace" /\ r.op \in IdOps /\ r.trace \in Traces /\ r.status = 0
          \/ /\ r.step = "rows" /\ r.op \in ListOps /\ r.trace = Absent /\ r.status = 0
             /\ r.op = "page" => r.limit \in 1 .. MaxLimit
          \/ /\ r.op \in LinkOps /\ r.token \in tokens /\ r.trace = r.token.trace
             /\ r.org = r.token.org /\ r.trace \in Traces
             /\ \/ r.step = "trace" /\ r.status = 0 /\ minute <= r.token.expiresAt
                \/ r.step = "answered" /\ r.status = 404 /\ r.token.expiresAt < minute

Ask ==
    \/ \E key \in Bearers : \/ \E op \in IdOps, t \in Traces : AskById(op, key, t)
                            \/ AskProjects(key)
                            \/ \E p \in Projects, n \in AskedLimits, isTime \in BOOLEAN :
                                 AskPage(key, p, n, isTime)
    \/ \E op \in LinkOps, tok \in tokens : AskByLink(op, tok)

(* The links: what a signature says, and when it ends.                      *)
LinksTyped ==
    \A tok \in tokens : tok \in Token /\ tok.expiresAt <= tok.signed + MaxTtl

(* What is refused when it is asked never gets to the store.                *)
LEMMA RefusedRequest ==
    ASSUME NEW r \in Read, r.op # "none", NEW code \in {400, 401, 403, 404, 500}
    PROVE  Refuse(r, code) \in Read /\ Refused(Refuse(r, code))
<1>1. code \in Statuses /\ code \notin {0, 200, 201}
    BY DEF Statuses
<1>2. Refuse(r, code) \in Read
    BY <1>1, AnswerIsRead
<1>3. Refused(Refuse(r, code))
    BY <1>1 DEF Refused, Fresh, Refuse, Answer, Idle
<1> QED BY <1>2, <1>3

(* Whatever is asked, and by whom, the read begins as one of these.         *)
LEMMA AskBegins ==
    ASSUME StoreOK, LinksTyped, Ask
    PROVE  \E r \in Read : NewRequest(r) /\ Begin(r)
<1>1. ASSUME NEW key, NEW r \in Read, r.op # "none", NEW step \in {"trace", "rows"},
             Fresh(r), r.status = 0
      PROVE  LET a == Authenticated(r, key, step)
             IN  /\ a \in Read
                 /\ \/ Refused(a)
                    \/ /\ Fresh(a) /\ a.org \in Orgs /\ a.step = step /\ a.status = 0
                       /\ a.op = r.op /\ a.trace = r.trace /\ a.limit = r.limit
  <2> DEFINE org == authenticateDashboard(key)
  <2>1. CASE org = NoOrg
      BY <1>1, <2>1, RefusedRequest DEF Authenticated
  <2>2. CASE org # NoOrg
    <3>1. org \in Orgs
        BY <2>2, ReadsAssumption DEF authenticateDashboard
    <3>2. Authenticated(r, key, step) = [r EXCEPT !.org = org, !.step = step]
        BY <2>2 DEF Authenticated
    <3> HIDE DEF org
    <3>3. step \in ReadSteps
        BY DEF ReadSteps
    <3>4. [r EXCEPT !.org = org, !.step = step] \in Read
        BY <3>1, <3>3 DEF Read
    <3>5. /\ Fresh([r EXCEPT !.org = org, !.step = step])
          /\ [r EXCEPT !.org = org, !.step = step].org = org
          /\ [r EXCEPT !.org = org, !.step = step].step = step
        BY <1>1 DEF Fresh, Read
    <3> QED BY <1>1, <3>1, <3>2, <3>4, <3>5 DEF Read
  <2> QED BY <2>1, <2>2
<1>2. ASSUME NEW key, NEW op \in IdOps, NEW t \in Traces, AskById(op, key, t)
      PROVE  \E r \in Read : NewRequest(r) /\ Begin(r)
  <2> DEFINE r == [Idle EXCEPT !.op = op, !.trace = t]
             a == Authenticated(r, key, "trace")
  <2>1. r \in Read /\ Fresh(r) /\ r.op = op /\ r.trace = t /\ r.status = 0
    <3>1. op \in ReadOps
        BY DEF ReadOps
    <3>2. r \in Read
        BY <3>1, IdleIsRead DEF Read
    <3> QED BY <3>2 DEF Fresh, Idle, IdOps
  <2>2. Begin(a)
      BY <1>2 DEF AskById
  <2> HIDE DEF r
  <2>3. a \in Read /\ (Refused(a) \/ (/\ Fresh(a) /\ a.org \in Orgs /\ a.step = "trace"
                                      /\ a.status = 0 /\ a.op = op /\ a.trace = t))
      BY <1>1, <2>1 DEF Fresh
  <2> HIDE DEF a
  <2> QED BY <2>2, <2>3 DEF NewRequest
<1>3. ASSUME NEW key, AskProjects(key)
      PROVE  \E r \in Read : NewRequest(r) /\ Begin(r)
  <2> DEFINE r == [Idle EXCEPT !.op = "projects"]
             a == Authenticated(r, key, "rows")
  <2>1. r \in Read /\ Fresh(r) /\ r.op = "projects" /\ r.trace = Absent /\ r.status = 0
    <3>1. "projects" \in ReadOps
        BY DEF ReadOps, ListOps
    <3>2. r \in Read
        BY <3>1, IdleIsRead DEF Read
    <3> QED BY <3>2 DEF Fresh, Idle
  <2>2. Begin(a)
      BY <1>3 DEF AskProjects
  <2> HIDE DEF r
  <2>3. a \in Read /\ (Refused(a) \/ (/\ Fresh(a) /\ a.org \in Orgs /\ a.step = "rows"
                                      /\ a.status = 0 /\ a.op = "projects" /\ a.trace = Absent))
      BY <1>1, <2>1 DEF Fresh
  <2> HIDE DEF a
  <2> QED BY <2>2, <2>3 DEF NewRequest, ListOps
<1>4. ASSUME NEW key, NEW p \in Projects, NEW n \in AskedLimits,
             NEW isTime \in BOOLEAN, AskPage(key, p, n, isTime)
      PROVE  \E r \in Read : NewRequest(r) /\ Begin(r)
  <2> DEFINE r == [Idle EXCEPT !.op = "page", !.project = p, !.limit = clampLimit(n)]
             a == Authenticated(r, key, "rows")
             b == CASE a.step = "rows" /\ n < 0 -> Refuse(r, 400)
                    [] a.step = "rows" /\ n >= 0 /\ ~isTime -> Refuse(r, 500)
                    [] OTHER -> a
  <2>1. n \in Int /\ clampLimit(n) \in Int /\ (n >= 0 => clampLimit(n) \in 1 .. MaxLimit)
      BY ReadsAssumption DEF clampLimit
  <2>2. /\ r \in Read /\ Fresh(r) /\ r.op = "page" /\ r.trace = Absent /\ r.status = 0
        /\ r.limit = clampLimit(n)
    <3>1. "page" \in ReadOps
        BY DEF ReadOps, ListOps
    <3> HIDE DEF a
    <3>2. r \in Read
        BY <2>1, <3>1, IdleIsRead DEF Read
    <3> QED BY <3>2 DEF Fresh, Idle
  <2>3. Begin(b)
      BY <1>4 DEF AskPage
  <2> HIDE DEF r
  <2>4. a \in Read /\ (Refused(a) \/ (/\ Fresh(a) /\ a.org \in Orgs /\ a.step = "rows"
                                      /\ a.status = 0 /\ a.op = "page" /\ a.trace = Absent
                                      /\ a.limit = clampLimit(n)))
      BY <1>1, <2>2 DEF Fresh
  <2>5. /\ Refuse(r, 400) \in Read /\ Refused(Refuse(r, 400))
        /\ Refuse(r, 500) \in Read /\ Refused(Refuse(r, 500))
      BY <2>2, RefusedRequest
  <2> HIDE DEF a
  <2>7. \/ b = Refuse(r, 400) \/ b = Refuse(r, 500)
        \/ b = a /\ (a.step = "rows" => n >= 0)
      BY <2>1
  <2> HIDE DEF b
  <2>6. b \in Read /\ (Refused(b) \/ (/\ Fresh(b) /\ b.org \in Orgs /\ b.step = "rows"
                                      /\ b.status = 0 /\ b.op = "page" /\ b.trace = Absent
                                      /\ b.limit \in 1 .. MaxLimit))
      BY <2>1, <2>4, <2>5, <2>7
  <2> QED BY <2>3, <2>6 DEF NewRequest, ListOps
<1>5. ASSUME NEW op \in LinkOps, NEW tok \in tokens, AskByLink(op, tok)
      PROVE  \E r \in Read : NewRequest(r) /\ Begin(r)
  <2> DEFINE r == [Idle EXCEPT !.op = op, !.token = tok, !.trace = tok.trace, !.org = tok.org]
             a == IF verify(tok) THEN [r EXCEPT !.step = "trace"] ELSE Answer(r, 404)
  <2>1. tok \in Token /\ tok.trace \in Traces /\ tok.org \in Orgs
    <3>1. tok \in Token
        BY DEF LinksTyped
    <3> QED BY <3>1 DEF Token
  <2>2. /\ r \in Read /\ Fresh(r) /\ r.op = op /\ r.trace = tok.trace /\ r.org = tok.org
        /\ r.token = tok /\ r.status = 0
    <3>1. op \in ReadOps
        BY DEF ReadOps
    <3>2. r \in Read
        BY <2>1, <3>1, IdleIsRead DEF Read
    <3> QED BY <3>2 DEF Fresh, Idle, LinkOps
  <2>3. Begin(a)
      BY <1>5 DEF AskByLink
  <2>4. minute \in Int /\ tok.expiresAt \in Int
      BY <2>1 DEF StoreOK, Inv, TypeOK, Minutes, Token
  <2> HIDE DEF r
  <2>5. CASE verify(tok)
    <3>1. a = [r EXCEPT !.step = "trace"] /\ minute <= tok.expiresAt
        BY <2>4, <2>5 DEF verify
    <3>2. "trace" \in ReadSteps
        BY DEF ReadSteps
    <3>3. /\ a \in Read /\ Fresh(a) /\ a.op = op /\ a.trace = tok.trace
          /\ a.org = tok.org /\ a.token = tok /\ a.status = 0 /\ a.step = "trace"
        BY <2>2, <3>1, <3>2 DEF Read, Fresh
    <3> HIDE DEF a
    <3> QED BY <2>1, <2>3, <3>1, <3>3 DEF NewRequest
  <2>6. CASE ~verify(tok)
    <3>1. a = Answer(r, 404) /\ tok.expiresAt < minute /\ 404 \in Statuses
        BY <2>6 DEF verify, Statuses
    <3> HIDE DEF a
    <3>2. a \in Read
        BY <2>2, <3>1, AnswerIsRead
    <3>3. /\ Fresh(a) /\ a.op = op /\ a.trace = tok.trace
          /\ a.org = tok.org /\ a.token = tok /\ a.status = 404 /\ a.step = "answered"
        BY <2>2, <3>1 DEF Answer, Read, Fresh
    <3> QED BY <2>1, <2>3, <3>1, <3>2, <3>3 DEF NewRequest
  <2> QED BY <2>5, <2>6
<1> QED BY <1>2, <1>3, <1>4, <1>5 DEF Ask

-----------------------------------------------------------------------------
(* The statements, seen from the read in progress.                          *)

(* What the read in progress is, given the links signed and the minute.     *)
ReadFacts(r, toks, m) ==
    /\ r \in Read
    /\ r.step # "idle" /\ r.org # NoOrg => r.asked <= m /\ m <= r.asked + 1
    /\ r.step = "trace" => r.op \in IdOps \cup LinkOps
    /\ r.step = "sign" => r.op = "share"
    /\ r.step \in {"view", "spans"} => r.op \in {"detail"} \cup LinkOps
    /\ r.step = "rows" => r.op \in ListOps
    /\ r.step = "summaries" => r.op = "page" /\ r.todo # <<>>
    /\ r.step \in {"trace", "sign", "view", "spans"} => r.trace \in Traces /\ r.org \in Orgs
    /\ r.step \in {"rows", "summaries"} => r.org \in Orgs
    /\ r.op \in LinkOps /\ (r.step \in {"trace", "view", "spans"} \/ r.status = 200) =>
         r.token \in toks /\ r.asked <= r.token.expiresAt
    /\ r.op = "page" /\ (r.step \in {"rows", "summaries"} \/ r.status = 200) =>
         r.limit \in 1 .. MaxLimit /\ r.org \in Orgs
    /\ r.step = "summaries" => r.page <= Len(r.listed) + Len(r.todo)
    /\ r.op = "page" /\ r.step = "answered" /\ r.status = 200 => r.page <= Len(r.listed)

(* A card is kept no longer than its link is valid, and the age allowed.    *)
CacheFacts(c, toks, m) ==
    \A e \in c : /\ e[1] \in toks /\ e[2] \in Int /\ m <= e[2]
                 /\ e[2] <= e[1].expiresAt + CardMaxAge + 1

ReadsInv == /\ ReadFacts(rd, tokens, minute) /\ LinksTyped
            /\ CacheFacts(cache, tokens, minute) /\ steady \subseteq Traces

(* A new read is as it was asked, but for the minute and what it must see.  *)
LEMMA Begun ==
    ASSUME TypeOK, NEW r \in Read, Begin(r)
    PROVE  /\ rd.step = "idle" /\ rd' \in Read /\ tokens' = tokens /\ cache' = cache
           /\ rd' = [r EXCEPT !.asked = minute, !.must = rd'.must]
           /\ rd'.must = accepted /\ rd'.asked = minute
<1>1. /\ rd.step = "idle" /\ rd' = [r EXCEPT !.asked = minute, !.must = accepted]
      /\ tokens' = tokens /\ cache' = cache
    BY DEF Begin
<1>2. minute \in Int /\ accepted \in SUBSET Bodies
    BY DEF TypeOK, Minutes
<1>3. rd' \in Read /\ rd'.must = accepted /\ rd'.asked = minute
    BY <1>1, <1>2 DEF Read
<1> QED BY <1>1, <1>3

RowsOf(s) == [i \in 1 .. Len(s) |-> [id |-> s[i], startedAt |-> Iso(Start(s[i]))]]

(* The first page of the traces in C, as rows.                              *)
LEMMA PageRows ==
    ASSUME StoreOK, NEW C, C \subseteq StoredTraces, NEW n \in Nat \ {0}, NEW s \in Pages(C, n)
    PROVE  /\ RowsOf(s) \in Seq(Row) /\ Len(RowsOf(s)) = Len(s) /\ Len(s) \in Nat
           /\ Len(s) = IF Cardinality(C) < n THEN Cardinality(C) ELSE n
           /\ \A i \in 1 .. Len(s) : s[i] \in C
<1> DEFINE size == IF Cardinality(C) < n THEN Cardinality(C) ELSE n
<1>1. IsFiniteSet(C) /\ Cardinality(C) \in Nat /\ size \in Nat
  <2>1. IsFiniteSet(C)
      BY FS_Subset DEF StoreOK, RowInv
  <2> QED BY <2>1, FS_CardinalityType
<1>2. s \in [1 .. size -> C]
    BY DEF Pages
<1> HIDE DEF size
<1>3. s \in Seq(C) /\ Len(s) = size
    BY <1>1, <1>2
<1>4. ASSUME NEW t \in C PROVE t \in Traces /\ Iso(Start(t)) \in Int
  <2>1. t \in Traces /\ traces[t] \in Bodies
      BY DEF StoredTraces, StoreOK, Inv, TypeOK
  <2>2. StartUs[traces[t]] \in Nat /\ PerMs \in Nat \ {0}
      BY <2>1, ReadsAssumption
  <2> QED BY <2>1, <2>2 DEF Iso, Start
<1>5. \A i \in 1 .. size : s[i] \in C /\ [id |-> s[i], startedAt |-> Iso(Start(s[i]))] \in Row
    BY <1>2, <1>4 DEF Row
<1> DEFINE rows == [i \in 1 .. size |-> [id |-> s[i], startedAt |-> Iso(Start(s[i]))]]
<1>6. rows \in Seq(Row) /\ Len(rows) = size
    BY <1>1, <1>5
<1> HIDE DEF rows
<1> QED BY <1>1, <1>3, <1>5, <1>6 DEF rows, size, RowsOf

(* The next summary, and what is left.                                      *)
LEMMA NextSummary ==
    ASSUME StoreOK, NEW todo \in Seq(Row), todo # <<>>
    PROVE  /\ Head(todo) \in Row /\ Head(todo).id \in Traces /\ Head(todo).startedAt \in Int
           /\ Tail(todo) \in Seq(Row) /\ Len(Tail(todo)) = Len(todo) - 1
           /\ Len(todo) \in Nat \ {0} /\ Head(todo) = todo[1]
           /\ \A i \in 1 .. Len(todo) - 1 : Tail(todo)[i] = todo[i + 1]
           /\ Cardinality(SpansUnder(Head(todo).id)) \in Nat
           /\ IsFiniteSet(SpansUnder(Head(todo).id))
           /\ [id |-> Head(todo).id, startedAt |-> Head(todo).startedAt,
               spanCount |-> Cardinality(SpansUnder(Head(todo).id))] \in ListRow
<1>1. /\ Head(todo) \in Row /\ Tail(todo) \in Seq(Row) /\ Len(Tail(todo)) = Len(todo) - 1
      /\ Len(todo) \in Nat \ {0} /\ Head(todo) = todo[1]
      /\ \A i \in 1 .. Len(todo) - 1 : Tail(todo)[i] = todo[i + 1]
    OBVIOUS
<1>2. Head(todo).id \in Traces /\ Head(todo).startedAt \in Int
    BY <1>1 DEF Row
<1>3. SpansUnder(Head(todo).id) \subseteq StoredSpans
    BY DEF SpansUnder, StoredSpans
<1>4. IsFiniteSet(SpansUnder(Head(todo).id))
    BY <1>3, FS_Subset DEF StoreOK, RowInv
<1>5. Cardinality(SpansUnder(Head(todo).id)) \in Nat
    BY <1>4, FS_CardinalityType
<1> QED BY <1>1, <1>2, <1>4, <1>5 DEF ListRow

(* The read a step leaves behind, for the steps that answer or refuse.      *)
LEMMA AnswerFacts ==
    ASSUME NEW r, NEW toks, NEW m, ReadFacts(r, toks, m), NEW code \in Statuses,
           r.step # "idle", r.op # "page",
           code = 200 /\ r.op \in LinkOps => r.step \in {"trace", "view", "spans"}
    PROVE  /\ ReadFacts(Answer(r, code), toks, m)
           /\ Answer(r, code).step = "answered" /\ Answer(r, code).status = code
<1>1. r \in Read /\ Answer(r, code) \in Read
    BY AnswerIsRead DEF ReadFacts
<1>2. Answer(r, code).step = "answered" /\ Answer(r, code).status = code
    BY <1>1 DEF Answer, Read
<1>3. /\ Answer(r, code).op = r.op /\ Answer(r, code).asked = r.asked
      /\ Answer(r, code).token = r.token /\ Answer(r, code).org = r.org
    BY <1>1 DEF Answer, Read
<1> HIDE DEF Read
<1> QED BY <1>1, <1>2, <1>3 DEF ReadFacts

(* A refusal says nothing of any trace.                                     *)
LEMMA RefusalFacts ==
    ASSUME NEW r \in Read, NEW toks, NEW m, r.step = "answered", r.org = NoOrg,
           r.status # 200
    PROVE  ReadFacts(r, toks, m)
  BY DEF ReadFacts

(* A refusal has its status, and no organisation.                           *)
LEMMA RefuseFacts ==
    ASSUME NEW r \in Read, NEW code \in Statuses
    PROVE  /\ Refuse(r, code) \in Read
           /\ Refuse(r, code).step = "answered" /\ Refuse(r, code).org = NoOrg
           /\ Refuse(r, code).status = code /\ Refuse(r, code).op = r.op
           /\ ~Refuse(r, code).failed
<1>2. Refuse(r, code) \in Read
    BY AnswerIsRead
<1>3. /\ Refuse(r, code).step = "answered" /\ Refuse(r, code).org = NoOrg
      /\ Refuse(r, code).status = code /\ Refuse(r, code).op = r.op
      /\ Refuse(r, code).failed = FALSE
    BY DEF Refuse, Answer, Idle
<1> QED BY <1>2, <1>3

(* A failed statement is noted; nothing else changes.                       *)
LEMMA FailedRead ==
    ASSUME NEW q \in Read
    PROVE  LET f == [q EXCEPT !.failed = TRUE]
           IN  /\ f \in Read /\ f.failed /\ f.step = q.step /\ f.org = q.org
               /\ f.status = q.status /\ f.op = q.op
  BY DEF Read

(* The facts hold of every request ...                                      *)
LEMMA AskKeepsFacts ==
    ASSUME StoreOK, ReadsInv, Ask
    PROVE  ReadFacts(rd', tokens, minute) /\ tokens' = tokens /\ cache' = cache
<1>1. PICK r \in Read : NewRequest(r) /\ Begin(r)
    BY AskBegins DEF ReadsInv
<1>2. /\ rd' \in Read /\ rd' = [r EXCEPT !.asked = minute, !.must = rd'.must]
      /\ rd'.asked = minute /\ tokens' = tokens /\ cache' = cache
    BY <1>1, Begun DEF StoreOK, Inv
<1>3. /\ rd'.op = r.op /\ rd'.step = r.step /\ rd'.org = r.org /\ rd'.trace = r.trace
      /\ rd'.token = r.token /\ rd'.status = r.status /\ rd'.limit = r.limit
      /\ rd'.page = r.page /\ rd'.listed = r.listed
    BY <1>2 DEF Read
<1>4. minute \in Int /\ minute <= minute /\ minute <= minute + 1
    BY DEF StoreOK, Inv, TypeOK, Minutes
<1>5. CASE Refused(r)
    BY <1>2, <1>3, <1>5, RefusalFacts DEF Refused
<1>6. CASE r.step = "trace" /\ r.op \in IdOps /\ r.trace \in Traces /\ r.org \in Orgs
           /\ r.status = 0
    BY <1>2, <1>3, <1>4, <1>6 DEF ReadFacts, IdOps, LinkOps
<1>7. CASE r.step = "rows" /\ r.op \in ListOps /\ r.org \in Orgs /\ r.status = 0
           /\ (r.op = "page" => r.limit \in 1 .. MaxLimit)
    BY <1>2, <1>3, <1>4, <1>7 DEF ReadFacts, ListOps, LinkOps
<1>8. CASE r.op \in LinkOps /\ r.token \in tokens /\ r.trace \in Traces /\ r.org \in Orgs
           /\ (\/ r.step = "trace" /\ r.status = 0 /\ minute <= r.token.expiresAt
               \/ r.step = "answered" /\ r.status = 404)
  <2>1. rd'.op # "page" /\ rd'.op # "share" /\ rd'.op \in LinkOps
      BY <1>3, <1>8 DEF LinkOps
  <2>2. CASE r.step = "trace" /\ r.status = 0 /\ minute <= r.token.expiresAt
    <3>1. rd'.token \in tokens /\ rd'.asked <= rd'.token.expiresAt
        BY <1>2, <1>3, <1>8, <2>2
    <3> QED BY <1>2, <1>3, <1>4, <1>8, <2>1, <2>2, <3>1 DEF ReadFacts
  <2>3. CASE r.step = "answered" /\ r.status = 404
      BY <1>2, <1>3, <1>4, <1>8, <2>1, <2>3 DEF ReadFacts
  <2> QED BY <1>8, <2>2, <2>3
<1> QED BY <1>1, <1>2, <1>5, <1>6, <1>7, <1>8 DEF NewRequest

(* ... and after every statement.                                           *)
LEMMA GetTraceKeepsFacts ==
    ASSUME StoreOK, ReadsInv, GetTrace
    PROVE  ReadFacts(rd', tokens, minute)
<1>1. /\ rd.step = "trace" /\ rd \in Read /\ ReadFacts(rd, tokens, minute)
      /\ rd.op \in IdOps \cup LinkOps
    BY DEF GetTrace, ReadsInv, ReadFacts
<1>2. \/ rd' = Answer(rd, 404)
      \/ rd' = Refuse(rd, 403) \/ rd' = Refuse(rd, 404)
      \/ rd.op = "share" /\ rd' = [rd EXCEPT !.step = "sign"]
      \/ rd.op # "share" /\ rd' = [rd EXCEPT !.step = "view"]
    BY DEF GetTrace
<1>3. CASE rd' = Answer(rd, 404)
    BY <1>1, <1>3, AnswerFacts DEF Statuses, IdOps, LinkOps
<1>4. CASE rd' = Refuse(rd, 403) \/ rd' = Refuse(rd, 404)
  <2>1. ReadFacts(Refuse(rd, 403), tokens, minute)
    <3>1. 403 \in Statuses
        BY DEF Statuses
    <3> QED BY <1>1, <3>1, RefuseFacts, RefusalFacts
  <2>2. ReadFacts(Refuse(rd, 404), tokens, minute)
    <3>1. 404 \in Statuses
        BY DEF Statuses
    <3> QED BY <1>1, <3>1, RefuseFacts, RefusalFacts
  <2> QED BY <1>4, <2>1, <2>2
<1>5. CASE rd.op = "share" /\ rd' = [rd EXCEPT !.step = "sign"]
  <2>1. rd' \in Read /\ rd'.step = "sign" /\ rd'.op = "share"
    <3>1. "sign" \in ReadSteps
        BY DEF ReadSteps
    <3> QED BY <1>1, <1>5, <3>1 DEF Read
  <2>2. /\ rd'.asked = rd.asked /\ rd'.org = rd.org /\ rd'.trace = rd.trace
      BY <1>1, <1>5 DEF Read
  <2> QED BY <1>1, <2>1, <2>2 DEF ReadFacts, LinkOps
<1>6. CASE rd.op # "share" /\ rd' = [rd EXCEPT !.step = "view"]
  <2>1. rd' \in Read /\ rd'.step = "view"
    <3>1. "view" \in ReadSteps
        BY DEF ReadSteps
    <3> QED BY <1>1, <1>6, <3>1 DEF Read
  <2>2. /\ rd'.asked = rd.asked /\ rd'.org = rd.org /\ rd'.trace = rd.trace
        /\ rd'.op = rd.op /\ rd'.token = rd.token
      BY <1>1, <1>6 DEF Read
  <2> QED BY <1>1, <1>6, <2>1, <2>2 DEF ReadFacts, IdOps, LinkOps
<1> QED BY <1>2, <1>3, <1>4, <1>5, <1>6

(* Sign adds a link that ends within the cap.                               *)
LEMMA SignKeepsFacts ==
    ASSUME StoreOK, ReadsInv, NEW ttl \in AskedTtls, Sign(ttl)
    PROVE  ReadFacts(rd', tokens', minute) /\ LinksTyped' /\ tokens \subseteq tokens'
<1> DEFINE tok == [trace |-> rd.trace, org |-> rd.org, signed |-> minute,
                   expiresAt |-> minute + LinkTtl(ttl)]
<1>1. /\ rd.step = "sign" /\ rd' = Answer(rd, 201) /\ tokens' = tokens \cup {tok}
      /\ ReadFacts(rd, tokens, minute) /\ rd.op = "share"
      /\ rd.trace \in Traces /\ rd.org \in Orgs
    BY DEF Sign, ReadsInv, ReadFacts
<1>2. LinkTtl(ttl) \in Int /\ LinkTtl(ttl) <= MaxTtl /\ minute \in Int /\ MaxTtl \in Int
    BY ReadsAssumption DEF LinkTtl, StoreOK, Inv, TypeOK, Minutes
<1>3. tok \in Token /\ tok.expiresAt <= tok.signed + MaxTtl
  <2>1. tok \in Token
      BY <1>1, <1>2 DEF Token
  <2>2. minute + LinkTtl(ttl) <= minute + MaxTtl
      BY <1>2
  <2> QED BY <2>1, <2>2
<1>4. LinksTyped'
  <2> HIDE DEF tok
  <2> QED BY <1>1, <1>3 DEF ReadsInv, LinksTyped
<1>5. ReadFacts(Answer(rd, 201), tokens, minute) /\ Answer(rd, 201).op = "share"
  <2>1. Answer(rd, 201).op = rd.op
      BY <1>1 DEF Answer, ReadFacts, Read
  <2> QED BY <1>1, <2>1, AnswerFacts DEF Statuses
<1>6. ReadFacts(Answer(rd, 201), tokens', minute)
    BY <1>5 DEF ReadFacts, LinkOps
<1> QED BY <1>1, <1>4, <1>6

(* The statements of a view answer, and a card gets into the cache only     *)
(* while its link lives (and the minute the request takes).                 *)
LEMMA ViewKeepsFacts ==
    ASSUME StoreOK, ReadsInv, ReadView \/ ReadSpans
    PROVE  /\ ReadFacts(rd', tokens, minute)
           /\ CacheFacts(cache', tokens, minute) /\ tokens' = tokens
<1>1. /\ rd.step \in {"view", "spans"} /\ rd \in Read /\ ReadFacts(rd, tokens, minute)
      /\ rd.op \in {"detail"} \cup LinkOps /\ rd.org \in Orgs /\ rd.org # NoOrg
      /\ tokens' = tokens
    BY ReadsAssumption DEF ReadView, ReadSpans, ReadsInv, ReadFacts
<1>2. ReadFacts(Answer(rd, 200), tokens, minute)
    BY <1>1, AnswerFacts DEF Statuses, LinkOps
<1>3. ASSUME ReadView PROVE ReadFacts(rd', tokens, minute)
  <2>1. CASE rd' = Answer(rd, 200)
      BY <1>2, <2>1
  <2>2. CASE rd' = [rd EXCEPT !.step = "spans"]
    <3>1. rd' \in Read /\ rd'.step = "spans"
      <4>1. "spans" \in ReadSteps
          BY DEF ReadSteps
      <4> QED BY <1>1, <2>2, <4>1 DEF Read
    <3>2. /\ rd'.asked = rd.asked /\ rd'.org = rd.org /\ rd'.trace = rd.trace
          /\ rd'.op = rd.op /\ rd'.token = rd.token
        BY <1>1, <2>2 DEF Read
    <3> QED BY <1>1, <3>1, <3>2 DEF ReadFacts, LinkOps
  <2> QED BY <1>3, <2>1, <2>2 DEF ReadView
<1>4. ASSUME ReadSpans PROVE ReadFacts(rd', tokens, minute)
  <2> DEFINE a == Answer(rd, 200)
             S == SpansUnder(rd.trace)
  <2>1. rd' = [a EXCEPT !.spans = S] /\ a \in Read /\ S \subseteq Spans
      BY <1>2, <1>4 DEF ReadSpans, ReadFacts, SpansUnder
  <2> HIDE DEF a, S
  <2>2. rd' \in Read
      BY <2>1 DEF Read
  <2>3. /\ rd'.asked = a.asked /\ rd'.org = a.org /\ rd'.trace = a.trace
        /\ rd'.op = a.op /\ rd'.token = a.token /\ rd'.step = a.step
        /\ rd'.status = a.status /\ rd'.limit = a.limit /\ rd'.page = a.page
        /\ rd'.listed = a.listed /\ rd'.todo = a.todo
      BY <2>1 DEF Read
  <2>4. ReadFacts(a, tokens, minute)
      BY <1>2 DEF a
  <2>5. a.step = "answered" /\ a.op # "page"
    <3>1. a.step = "answered"
        BY <1>1, AnswerFacts DEF Statuses, LinkOps, a
    <3>2. a.op = rd.op
        BY <1>1 DEF a, Answer, Read
    <3> QED BY <1>1, <3>1, <3>2 DEF LinkOps
  <2> QED BY <2>2, <2>3, <2>4, <2>5 DEF ReadFacts
<1>5. CacheFacts(CardKept, tokens, minute)
  <2>1. CASE rd.op # "card"
      BY <2>1 DEF CardKept, ReadsInv
  <2>2. CASE rd.op = "card"
    <3>1. /\ rd.token \in tokens /\ rd.asked <= rd.token.expiresAt
          /\ rd.asked <= minute /\ minute <= rd.asked + 1
        BY <1>1, <2>2 DEF ReadFacts, LinkOps
    <3>2. /\ rd.token.expiresAt \in Int /\ rd.asked \in Int /\ minute \in Int
          /\ CardMaxAge \in Nat
      <4>1. rd.token \in Token
          BY <3>1 DEF ReadsInv, LinksTyped
      <4> QED BY <1>1, <4>1, ReadsAssumption DEF Token, Read, StoreOK, Inv, TypeOK, Minutes
    <3>3. /\ minute + CardMaxAge \in Int /\ minute <= minute + CardMaxAge
          /\ minute + CardMaxAge <= rd.token.expiresAt + CardMaxAge + 1
        BY <3>1, <3>2
    <3> DEFINE e == <<rd.token, minute + CardMaxAge>>
    <3>4. /\ e[1] \in tokens /\ e[2] \in Int /\ minute <= e[2]
          /\ e[2] <= e[1].expiresAt + CardMaxAge + 1
        BY <3>1, <3>3
    <3>5. CardKept = cache \cup {e}
        BY <2>2 DEF CardKept
    <3> HIDE DEF e
    <3> QED BY <3>4, <3>5 DEF CacheFacts, ReadsInv
  <2> QED BY <2>1, <2>2
<1>6. cache' = cache \/ cache' = CardKept
    BY DEF ReadView, ReadSpans
<1> QED BY <1>1, <1>3, <1>4, <1>5, <1>6 DEF ReadsInv

(* What a read was asked, and for whom.                                     *)
Same(r, q) == /\ r.op = q.op /\ r.org = q.org /\ r.asked = q.asked /\ r.token = q.token
              /\ r.trace = q.trace /\ r.must = q.must /\ r.failed = q.failed
              /\ r.project = q.project /\ r.limit = q.limit

(* An answer ends the request it was asked for.                             *)
LEMMA AnswerSame ==
    ASSUME NEW r \in Read, NEW code \in Statuses
    PROVE  /\ Answer(r, code) \in Read /\ Same(Answer(r, code), r)
           /\ Answer(r, code).step = "answered" /\ Answer(r, code).status = code
           /\ Answer(r, code).todo = r.todo /\ Answer(r, code).page = r.page
           /\ Answer(r, code).listed = r.listed /\ Answer(r, code).spans = r.spans
           /\ Answer(r, code).counts = r.counts
<1>1. Answer(r, code) \in Read
    BY AnswerIsRead
<1> QED BY <1>1 DEF Answer, Read, Same

(* The list reads, field by field: projects, ...                            *)
LEMMA ProjectsAnswer ==
    ASSUME StoreOK, rd \in Read, listProjects
    PROVE  /\ rd' \in Read /\ Same(rd', rd) /\ rd.step = "rows" /\ rd.op = "projects"
           /\ rd'.step = "answered" /\ rd'.status = 200
           /\ rd'.counts = [p \in Projects |->
                Cardinality({t \in StoredTraces : OrgOf[t] = rd.org /\ ProjectOf[t] = p})]
           /\ tokens' = tokens /\ cache' = cache
<1> DEFINE a == Answer(rd, 200)
           counts == [p \in Projects |->
                Cardinality({t \in StoredTraces : OrgOf[t] = rd.org /\ ProjectOf[t] = p})]
<1>1. /\ rd' = [a EXCEPT !.counts = counts] /\ rd.step = "rows" /\ rd.op = "projects"
      /\ tokens' = tokens /\ cache' = cache
    BY DEF listProjects
<1>2. counts \in [Projects -> Nat]
  <2> SUFFICES ASSUME NEW p \in Projects
               PROVE  Cardinality({t \in StoredTraces : OrgOf[t] = rd.org /\ ProjectOf[t] = p})
                        \in Nat
      OBVIOUS
  <2> QED BY FS_Subset, FS_CardinalityType DEF StoreOK, RowInv
<1>3. 200 \in Statuses
    BY DEF Statuses
<1>4. a \in Read
    BY <1>3, AnswerIsRead
<1>5. a.step = "answered" /\ a.status = 200 /\ Same(a, rd)
    BY DEF Answer, Read, Same
<1> HIDE DEF a, counts
<1>6. rd' \in Read /\ Same(rd', a) /\ rd'.step = a.step /\ rd'.status = a.status
      /\ rd'.counts = counts
    BY <1>1, <1>2, <1>4 DEF Read, Same
<1> QED BY <1>1, <1>5, <1>6 DEF Same, counts

(* ... the rows of a page, ...                                              *)
Selected(r, stored, tr) ==
    {t \in stored : /\ OrgOf[t] = r.org /\ ProjectOf[t] = r.project
                    /\ \A cursor \in r.before : StartUs[tr[t]] < cursor}

(* The statement of a page selects traces of the project before the cursor. *)
LEMMA PageSelected ==
    ASSUME StoreOK, ReadsInv, listTraces
    PROVE  /\ rd.step = "rows" /\ rd.op = "page" /\ rd.org \in Orgs /\ rd.limit \in 1 .. MaxLimit
           /\ tokens' = tokens /\ cache' = cache
           /\ rd' \in Read /\ Same(rd', rd) /\ rd'.listed = rd.listed
           /\ rd'.step \in {"answered", "summaries"}
           /\ (rd'.step = "answered" <=> rd'.todo = <<>>)
           /\ rd'.step = "answered" => rd'.status = 200
           /\ rd'.page = Len(rd'.todo)
           /\ \E s \in Pages(Selected(rd, StoredTraces, traces), rd.limit) :
                rd'.todo = RowsOf(s)
<1>1. /\ rd.step = "rows" /\ rd.op = "page" /\ tokens' = tokens /\ cache' = cache
      /\ rd \in Read /\ rd.org \in Orgs /\ rd.limit \in 1 .. MaxLimit
    BY DEF listTraces, ReadsInv, ReadFacts, ListOps
<1>2. Selected(rd, StoredTraces, traces)
        = {t \in StoredTraces : /\ OrgOf[t] = rd.org /\ ProjectOf[t] = rd.project
                                /\ Before(t)}
    BY DEF Selected, Before, Start
<1>3. PICK s \in Pages(Selected(rd, StoredTraces, traces), rd.limit) :
         LET rows == [i \in 1 .. Len(s) |-> [id |-> s[i], startedAt |-> Iso(Start(s[i]))]]
             r    == [rd EXCEPT !.todo = rows, !.page = Len(rows)]
         IN  rd' = IF rows = <<>> THEN Answer(r, 200) ELSE [r EXCEPT !.step = "summaries"]
    BY <1>2 DEF listTraces
<1> DEFINE rows == RowsOf(s)
           r    == [rd EXCEPT !.todo = rows, !.page = Len(rows)]
<1>4. rd' = IF rows = <<>> THEN Answer(r, 200) ELSE [r EXCEPT !.step = "summaries"]
    BY <1>3 DEF RowsOf
<1>5. rows \in Seq(Row)
  <2>1. rd.limit \in Nat \ {0}
      BY <1>1 DEF Read
  <2>2. Selected(rd, StoredTraces, traces) \subseteq StoredTraces
      BY DEF Selected
  <2> QED BY <1>3, <2>1, <2>2, PageRows
<1> HIDE DEF rows
<1>6. Len(rows) \in Nat
    BY <1>5
<1>7. /\ r \in Read /\ Same(r, rd) /\ r.todo = rows /\ r.page = Len(rows)
      /\ r.listed = rd.listed
    BY <1>1, <1>5, <1>6 DEF Read, Same
<1> HIDE DEF r
<1>8. CASE rows = <<>>
  <2>1. rd' = Answer(r, 200) /\ 200 \in Statuses
      BY <1>4, <1>8 DEF Statuses
  <2>2. /\ rd' \in Read /\ rd'.step = "answered" /\ rd'.status = 200 /\ rd'.todo = r.todo
        /\ Same(rd', r) /\ rd'.page = r.page /\ rd'.listed = r.listed
      BY <1>7, <2>1, AnswerSame
  <2>3. Same(rd', rd) /\ rd'.todo = rows
      BY <1>7, <2>2 DEF Same
  <2> QED BY <1>1, <1>3, <1>7, <1>8, <2>2, <2>3 DEF rows
<1>9. CASE rows # <<>>
  <2>1. rd' = [r EXCEPT !.step = "summaries"] /\ "summaries" \in ReadSteps
      BY <1>4, <1>9 DEF ReadSteps
  <2>2. /\ rd' \in Read /\ rd'.step = "summaries" /\ rd'.todo = r.todo
        /\ Same(rd', r) /\ rd'.page = r.page /\ rd'.listed = r.listed
      BY <1>7, <2>1 DEF Read, Same
  <2>3. Same(rd', rd) /\ rd'.todo = rows
      BY <1>7, <2>2 DEF Same
  <2> QED BY <1>1, <1>3, <1>7, <1>9, <2>2, <2>3 DEF rows
<1> QED BY <1>8, <1>9

(* ... and a row's summary.                                                 *)
LEMMA RowSummarised ==
    ASSUME StoreOK, ReadsInv, SummariseRow
    PROVE  /\ rd.step = "summaries" /\ rd.op = "page" /\ rd.org \in Orgs /\ rd.limit \in 1 .. MaxLimit
           /\ tokens' = tokens /\ cache' = cache /\ rd \in Read /\ rd.todo # <<>>
           /\ rd' \in Read /\ Same(rd', rd) /\ rd'.page = rd.page
           /\ rd'.todo = Tail(rd.todo)
           /\ rd'.listed = Append(rd.listed,
                             [id |-> Head(rd.todo).id, startedAt |-> Head(rd.todo).startedAt,
                              spanCount |-> Cardinality(SpansUnder(Head(rd.todo).id))])
           /\ rd'.step \in {"answered", "summaries"}
           /\ (rd'.step = "answered" <=> rd'.todo = <<>>)
           /\ rd'.step = "answered" => rd'.status = 200
<1> DEFINE row  == [id |-> Head(rd.todo).id, startedAt |-> Head(rd.todo).startedAt,
                    spanCount |-> Cardinality(SpansUnder(Head(rd.todo).id))]
           rest == Tail(rd.todo)
           more == Append(rd.listed, row)
           r    == [rd EXCEPT !.todo = rest, !.listed = more]
<1>1. /\ rd.step = "summaries" /\ rd.op = "page" /\ tokens' = tokens /\ cache' = cache
      /\ rd \in Read /\ rd.org \in Orgs /\ rd.limit \in 1 .. MaxLimit /\ rd.todo # <<>>
    BY DEF SummariseRow, ReadsInv, ReadFacts, ListOps
<1>2. rd.todo \in Seq(Row) /\ rd.listed \in Seq(ListRow)
    BY <1>1 DEF Read
<1>3. row \in ListRow /\ rest \in Seq(Row)
    BY <1>1, <1>2, NextSummary
<1>4. rd' = IF rest = <<>> THEN Answer(r, 200) ELSE r
    BY DEF SummariseRow
<1> HIDE DEF row
<1>5. more \in Seq(ListRow)
    BY <1>2, <1>3
<1> HIDE DEF rest, more
<1>6. /\ r \in Read /\ Same(r, rd) /\ r.todo = rest /\ r.page = rd.page
      /\ r.listed = more /\ r.step = rd.step
    BY <1>1, <1>3, <1>5 DEF Read, Same
<1> HIDE DEF r
<1>7. /\ rd' \in Read /\ rd'.todo = r.todo /\ Same(rd', r) /\ rd'.page = r.page
      /\ rd'.listed = r.listed
      /\ rest = <<>> => rd'.step = "answered" /\ rd'.status = 200
      /\ rest # <<>> => rd'.step = "summaries"
  <2>1. CASE rest = <<>>
    <3>1. rd' = Answer(r, 200) /\ 200 \in Statuses
        BY <1>4, <2>1 DEF Statuses
    <3> QED BY <1>6, <2>1, <3>1, AnswerSame
  <2>2. CASE rest # <<>>
      BY <1>1, <1>4, <1>6, <2>2 DEF Same
  <2> QED BY <2>1, <2>2
<1>8. Same(rd', rd)
    BY <1>6, <1>7 DEF Same
<1> QED BY <1>1, <1>6, <1>7, <1>8 DEF rest, more, row

(* The read that ReadFails, NextPage or Done leaves.                        *)
LEMMA ReadFailed ==
    ASSUME rd \in Read, ReadFails
    PROVE  /\ rd' \in Read /\ rd'.failed /\ rd'.step = "answered" /\ rd'.org = NoOrg
           /\ rd'.status = 500 /\ rd'.op = rd.op /\ tokens' = tokens /\ cache' = cache
<1>1. /\ rd' = [Refuse(rd, 500) EXCEPT !.failed = TRUE] /\ tokens' = tokens /\ cache' = cache
      /\ 500 \in Statuses
    BY DEF ReadFails, Statuses
<1>2. /\ Refuse(rd, 500) \in Read /\ Refuse(rd, 500).step = "answered"
      /\ Refuse(rd, 500).org = NoOrg /\ Refuse(rd, 500).status = 500
      /\ Refuse(rd, 500).op = rd.op
    BY <1>1, RefuseFacts
<1> DEFINE q == Refuse(rd, 500)
<1> HIDE DEF q
<1>3. /\ rd' \in Read /\ rd'.failed /\ rd'.step = q.step /\ rd'.org = q.org
      /\ rd'.status = q.status /\ rd'.op = q.op
  <2>1. q \in Read /\ rd' = [q EXCEPT !.failed = TRUE]
      BY <1>1, <1>2 DEF q
  <2> QED BY <2>1, FailedRead
<1> QED BY <1>1, <1>2, <1>3 DEF q

(* The next page is asked for after a full one, from its last row.          *)
LEMMA NextPageAsked ==
    ASSUME ReadsInv, NextPage
    PROVE  /\ rd.step = "answered" /\ rd.op = "page" /\ rd.status = 200 /\ rd.page = rd.limit
           /\ rd \in Read /\ rd.limit \in 1 .. MaxLimit /\ Len(rd.listed) \in Nat \ {0}
           /\ rd' \in Read /\ Same(rd', rd) /\ rd'.step = "rows" /\ rd'.listed = rd.listed
           /\ rd'.todo = rd.todo
           /\ rd'.before = {rd.listed[Len(rd.listed)].startedAt}
           /\ tokens' = tokens /\ cache' = cache
<1> DEFINE last == rd.listed[Len(rd.listed)].startedAt
<1>1. /\ rd.step = "answered" /\ rd.op = "page" /\ rd.status = 200 /\ rd.page = rd.limit
      /\ rd \in Read /\ rd.limit \in 1 .. MaxLimit /\ rd.page <= Len(rd.listed)
      /\ rd' = [rd EXCEPT !.step = "rows", !.before = {last}]
      /\ tokens' = tokens /\ cache' = cache
    BY DEF NextPage, ReadsInv, ReadFacts
<1>2. rd.listed \in Seq(ListRow) /\ rd.limit \in Int
    BY <1>1 DEF Read
<1>3. Len(rd.listed) \in Nat \ {0} /\ rd.listed[Len(rd.listed)] \in ListRow
    BY <1>1, <1>2
<1>4. last \in Int
    BY <1>3 DEF ListRow
<1> HIDE DEF last
<1>5. "rows" \in ReadSteps
    BY DEF ReadSteps
<1>6. /\ rd' \in Read /\ Same(rd', rd) /\ rd'.step = "rows" /\ rd'.listed = rd.listed
      /\ rd'.before = {last} /\ rd'.todo = rd.todo
    BY <1>1, <1>4, <1>5 DEF Read, Same
<1> QED BY <1>1, <1>3, <1>6 DEF last

(* So every step keeps the facts.                                           *)
LEMMA StatementKeepsFacts ==
    ASSUME StoreOK, ReadsInv, 
           listProjects \/ listTraces \/ SummariseRow \/ ReadFails \/ NextPage \/ Done
    PROVE  ReadFacts(rd', tokens, minute) /\ tokens' = tokens /\ cache' = cache
<1>1. rd \in Read /\ ReadFacts(rd, tokens, minute)
    BY DEF ReadsInv, ReadFacts
<1>2. CASE listProjects
  <2>1. /\ rd' \in Read /\ rd'.step = "answered" /\ rd'.op = "projects" /\ rd'.org = rd.org
        /\ rd'.asked = rd.asked /\ rd.step = "rows" /\ tokens' = tokens /\ cache' = cache
      BY <1>1, <1>2, ProjectsAnswer DEF Same
  <2> QED BY <1>1, <2>1 DEF ReadFacts, LinkOps
<1>3. CASE listTraces
  <2>1. /\ rd' \in Read /\ rd'.step \in {"answered", "summaries"} /\ rd'.op = "page"
        /\ rd'.org = rd.org /\ rd'.asked = rd.asked /\ rd'.limit \in 1 .. MaxLimit /\ rd'.org \in Orgs
        /\ rd.step = "rows" /\ rd'.page = Len(rd'.todo)
        /\ rd'.step = "answered" => rd'.todo = <<>>
        /\ rd'.todo = <<>> => rd'.step = "answered"
        /\ tokens' = tokens /\ cache' = cache
      BY <1>3, PageSelected DEF Same
  <2>2. Len(rd'.listed) \in Nat /\ Len(rd'.todo) \in Nat
    <3>1. rd'.listed \in Seq(ListRow) /\ rd'.todo \in Seq(Row)
        BY <2>1 DEF Read
    <3> QED BY <3>1
  <2>4. rd'.todo = <<>> => Len(rd'.todo) = 0
      OBVIOUS
  <2>3. /\ rd'.page <= Len(rd'.listed) + Len(rd'.todo)
        /\ rd'.step = "answered" => rd'.page <= Len(rd'.listed)
    <3> DEFINE page   == rd'.page
               listed == Len(rd'.listed)
               todo   == Len(rd'.todo)
    <3>1. /\ page = todo /\ listed \in Nat /\ todo \in Nat
          /\ rd'.step = "answered" => todo = 0
        BY <2>1, <2>2, <2>4
    <3> HIDE DEF page, listed, todo
    <3>2. page <= listed + todo /\ (rd'.step = "answered" => page <= listed)
        BY <3>1
    <3> QED BY <3>2 DEF page, listed, todo
  <2> QED BY <1>1, <2>1, <2>3 DEF ReadFacts, LinkOps
<1>4. CASE SummariseRow
  <2>1. /\ rd' \in Read /\ rd'.step \in {"answered", "summaries"} /\ rd'.op = "page"
        /\ rd'.org = rd.org /\ rd'.asked = rd.asked /\ rd'.limit \in 1 .. MaxLimit /\ rd'.org \in Orgs
        /\ rd.step = "summaries" /\ rd'.page = rd.page
        /\ rd'.step = "answered" => rd'.todo = <<>>
        /\ rd'.todo = <<>> => rd'.step = "answered"
        /\ tokens' = tokens /\ cache' = cache /\ rd.todo # <<>>
        /\ rd'.todo = Tail(rd.todo)
      BY <1>4, RowSummarised DEF Same
  <2>2. /\ Len(rd.todo) \in Nat \ {0} /\ Len(rd'.todo) = Len(rd.todo) - 1
        /\ Len(rd.listed) \in Nat /\ rd.page \in Nat
    <3>1. rd.listed \in Seq(ListRow) /\ rd.todo \in Seq(Row) /\ rd.page \in Nat
        BY <1>1 DEF Read
    <3>2. Len(Tail(rd.todo)) = Len(rd.todo) - 1 /\ Len(rd.todo) \in Nat \ {0}
        BY <2>1, <3>1
    <3> QED BY <2>1, <3>1, <3>2
  <2>3. Len(rd'.listed) = Len(rd.listed) + 1
    <3> DEFINE row == [id |-> Head(rd.todo).id, startedAt |-> Head(rd.todo).startedAt,
                       spanCount |-> Cardinality(SpansUnder(Head(rd.todo).id))]
    <3>1. rd'.listed = Append(rd.listed, row)
        BY <1>4, RowSummarised
    <3>2. rd.listed \in Seq(ListRow)
        BY <1>1 DEF Read
    <3> HIDE DEF row
    <3> QED BY <3>1, <3>2
  <2>4. rd'.todo = <<>> => Len(rd'.todo) = 0
      OBVIOUS
  <2>5. rd.page <= Len(rd.listed) + Len(rd.todo)
      BY <1>1, <2>1 DEF ReadFacts
  <2>6. /\ rd'.page <= Len(rd'.listed) + Len(rd'.todo)
        /\ rd'.step = "answered" => rd'.page <= Len(rd'.listed)
    <3> DEFINE page   == rd'.page
               before == Len(rd.listed)
               listed == Len(rd'.listed)
               left   == Len(rd.todo)
               todo   == Len(rd'.todo)
    <3>1. /\ page = rd.page /\ rd.page \in Nat /\ rd.page <= before + left
          /\ before \in Nat /\ left \in Nat \ {0} /\ listed = before + 1 /\ todo = left - 1
          /\ rd'.step = "answered" => todo = 0
        BY <2>1, <2>2, <2>3, <2>4, <2>5
    <3> HIDE DEF page, before, listed, left, todo
    <3>2. page <= listed + todo /\ (rd'.step = "answered" => page <= listed)
        BY <3>1
    <3> QED BY <3>2 DEF page, listed, todo
  <2> QED BY <1>1, <2>1, <2>6 DEF ReadFacts, LinkOps
<1>5. CASE ReadFails
    BY <1>1, <1>5, ReadFailed, RefusalFacts
<1>6. CASE NextPage
  <2>1. /\ rd' \in Read /\ rd'.step = "rows" /\ rd'.op = "page" /\ rd'.org = rd.org
        /\ rd'.asked = rd.asked /\ rd'.limit \in 1 .. MaxLimit /\ rd.step = "answered"
        /\ tokens' = tokens /\ cache' = cache
      BY <1>6, NextPageAsked DEF Same
  <2>2. rd.org \in Orgs
      BY <1>1, <1>6, NextPageAsked DEF ReadFacts
  <2> QED BY <1>1, <2>1, <2>2 DEF ReadFacts, LinkOps, ListOps
<1>7. CASE Done
  <2>1. rd' = Idle /\ tokens' = tokens /\ cache' = cache
      BY <1>7 DEF Done
  <2>2. rd'.step = "idle" /\ rd'.op = "none" /\ rd' \in Read
      BY <2>1, IdleIsRead DEF Idle
  <2> QED BY <2>1, <2>2 DEF ReadFacts, LinkOps
<1> QED BY <1>2, <1>3, <1>4, <1>5, <1>6, <1>7

(* There is no read, no link and no card at first.                          *)
LEMMA ReadsInvInit == ReadsInit => ReadsInv
<1> SUFFICES ASSUME ReadsInit PROVE ReadsInv
    OBVIOUS
<1>1. rd = Idle /\ tokens = {} /\ cache = {} /\ steady = {}
    BY DEF ReadsInit
<1>2. rd \in Read /\ rd.step = "idle" /\ rd.op = "none"
    BY <1>1, IdleIsRead DEF Idle
<1>3. ReadFacts(rd, tokens, minute)
    BY <1>2 DEF ReadFacts, LinkOps
<1> QED BY <1>1, <1>3 DEF ReadsInv, LinksTyped, CacheFacts

(* The writers leave the read alone, and its minute does not get old.       *)
LEMMA WriteKeepsReads ==
    ASSUME StoreOK, ReadsInv, WriteStep
    PROVE  /\ rd' = rd /\ tokens' = tokens
           /\ ReadFacts(rd, tokens, minute') /\ CacheFacts(cache', tokens, minute')
<1>1. /\ rd' = rd /\ tokens' = tokens /\ cache' = {c \in cache : c[2] >= minute'}
      /\ minute' # minute /\ rd.step # "idle" => minute <= rd.asked
    BY DEF WriteStep
<1>2. minute \in Int /\ (minute' = minute \/ minute' = minute + 1)
    BY ClockStep DEF WriteStep, StoreOK, Inv, TypeOK, Minutes
<1>3. rd \in Read /\ ReadFacts(rd, tokens, minute)
    BY DEF ReadsInv, ReadFacts
<1>4. rd.step # "idle" /\ rd.org # NoOrg => rd.asked <= minute' /\ minute' <= rd.asked + 1
  <2> DEFINE asked == rd.asked
  <2>1. asked \in Int
      BY <1>3 DEF Read
  <2>2. ASSUME rd.step # "idle", rd.org # NoOrg
        PROVE  /\ asked <= minute /\ minute <= asked + 1
               /\ minute' # minute => minute <= asked
      BY <1>1, <1>3, <2>2 DEF ReadFacts
  <2> HIDE DEF asked
  <2>3. ASSUME rd.step # "idle", rd.org # NoOrg
        PROVE  asked <= minute' /\ minute' <= asked + 1
      BY <1>2, <2>1, <2>2, <2>3
  <2> QED BY <2>3 DEF asked
<1>5. ReadFacts(rd, tokens, minute')
    BY <1>3, <1>4 DEF ReadFacts
<1>6. CacheFacts(cache', tokens, minute')
  <2> SUFFICES ASSUME NEW e \in cache'
               PROVE  /\ e[1] \in tokens /\ e[2] \in Int /\ minute' <= e[2]
                      /\ e[2] <= e[1].expiresAt + CardMaxAge + 1
      BY DEF CacheFacts
  <2>1. e \in cache /\ e[2] >= minute'
      BY <1>1
  <2>2. /\ e[1] \in tokens /\ e[2] \in Int /\ e[2] <= e[1].expiresAt + CardMaxAge + 1
      BY <2>1 DEF ReadsInv, CacheFacts
  <2>3. minute' \in Int
      BY <1>2
  <2> QED BY <2>1, <2>2, <2>3
<1> QED BY <1>1, <1>5, <1>6

(* Steps of the store leave the read alone; each statement of a read keeps  *)
(* it.                                                                      *)
LEMMA ReadsInvStep == StoreOK /\ ReadsInv /\ [ReadsNext]_<<vars, readVars>> => ReadsInv'
<1> SUFFICES ASSUME StoreOK, ReadsInv, [ReadsNext]_<<vars, readVars>> PROVE ReadsInv'
    OBVIOUS
<1>1. CASE UNCHANGED <<vars, readVars>>
  <2>1. rd' = rd /\ tokens' = tokens /\ cache' = cache /\ steady' = steady /\ minute' = minute
      BY <1>1 DEF readVars, vars
  <2> QED BY <2>1 DEF ReadsInv, LinksTyped
<1>2. CASE ReadsNext
  <2>1. steady' \subseteq Traces
      BY <1>2 DEF ReadsNext, StoredTraces, ReadsInv
  <2>2. CASE WriteStep
    <3>1. /\ rd' = rd /\ tokens' = tokens
          /\ ReadFacts(rd', tokens', minute') /\ CacheFacts(cache', tokens', minute')
        BY <2>2, WriteKeepsReads
    <3> QED BY <2>1, <3>1 DEF ReadsInv, LinksTyped
  <2>3. CASE ReadStep /\ UNCHANGED vars
    <3>1. minute' = minute
        BY <2>3 DEF vars
    <3>2. SUFFICES /\ ReadFacts(rd', tokens', minute) /\ LinksTyped'
                   /\ CacheFacts(cache', tokens', minute)
        BY <2>1, <3>1 DEF ReadsInv
    <3>3. /\ ReadFacts(rd, tokens, minute) /\ CacheFacts(cache, tokens, minute) /\ LinksTyped
        BY DEF ReadsInv
    <3>4. ASSUME tokens' = tokens, cache' = cache, ReadFacts(rd', tokens, minute)
          PROVE  /\ ReadFacts(rd', tokens', minute) /\ LinksTyped'
                 /\ CacheFacts(cache', tokens', minute)
        BY <3>3, <3>4 DEF LinksTyped
    <3>5. CASE Ask
        BY <3>4, <3>5, AskKeepsFacts
    <3>6. CASE GetTrace
      <4>1. tokens' = tokens /\ cache' = cache
          BY <3>6 DEF GetTrace
      <4> QED BY <3>4, <3>6, <4>1, GetTraceKeepsFacts
    <3>7. ASSUME NEW ttl \in AskedTtls, Sign(ttl)
          PROVE  /\ ReadFacts(rd', tokens', minute) /\ LinksTyped'
                 /\ CacheFacts(cache', tokens', minute)
      <4>1. /\ ReadFacts(rd', tokens', minute) /\ LinksTyped' /\ tokens \subseteq tokens'
          BY <3>7, SignKeepsFacts
      <4>2. cache' = cache
          BY <3>7 DEF Sign
      <4> QED BY <3>3, <4>1, <4>2 DEF CacheFacts
    <3>8. CASE ReadView \/ ReadSpans
      <4>1. /\ ReadFacts(rd', tokens, minute) /\ CacheFacts(cache', tokens, minute)
            /\ tokens' = tokens
          BY <3>8, ViewKeepsFacts
      <4> QED BY <3>3, <4>1 DEF LinksTyped
    <3>9. CASE listProjects \/ listTraces \/ SummariseRow \/ ReadFails \/ NextPage \/ Done
        BY <3>4, <3>9, StatementKeepsFacts
    <3> QED BY <2>3, <3>5, <3>6, <3>7, <3>8, <3>9 DEF ReadStep, Ask
  <2> QED BY <1>2, <2>2, <2>3 DEF ReadsNext
<1> QED BY <1>1, <1>2

(* Both invariants hold of the reads over the store.                        *)
LEMMA ReadsInvariant == ReadsSpec => [](StoreOK /\ ReadsInv)
<1>1. StoreOK /\ ReadsInv /\ [ReadsNext]_<<vars, readVars>> => (StoreOK /\ ReadsInv)'
    BY StoreStep, ReadsInvStep
<1> QED BY <1>1, StoreInit, ReadsInvInit, PTL DEF ReadsSpec

(* The variables of the read side, and of the store under it, have their    *)
(* types, whatever is asked and whatever the writers do meanwhile.          *)
THEOREM ReadsTypeCorrect == ReadsSpec => []ReadsTypeOK
<1>1. ASSUME StoreOK, ReadsInv PROVE ReadsTypeOK
  <2>1. TypeOK
      BY <1>1 DEF StoreOK, Inv
  <2>2. rd \in Read /\ steady \subseteq Traces
      BY <1>1 DEF ReadsInv, ReadFacts
  <2>3. /\ rd.op \in ReadOps /\ rd.step \in ReadSteps /\ rd.status \in Statuses
        /\ rd.org \in Orgs \cup {NoOrg} /\ rd.must \subseteq Bodies /\ rd.spans \subseteq Spans
        /\ rd.listed \in Seq(ListRow)
      BY <2>2 DEF Read
  <2>4. \A i \in DOMAIN rd.listed : rd.listed[i].id \in Traces
    <3> DEFINE listed == rd.listed
    <3>1. listed \in Seq(ListRow)
        BY <2>3
    <3> HIDE DEF listed
    <3>2. \A i \in DOMAIN listed : listed[i] \in ListRow
        BY <3>1
    <3>3. \A i \in DOMAIN listed : listed[i].id \in Traces
        BY <3>2 DEF ListRow
    <3> QED BY <3>3 DEF listed
  <2>5. \A tok \in tokens : tok.trace \in Traces /\ tok.org \in Orgs
      BY <1>1 DEF ReadsInv, LinksTyped, Token
  <2>6. \A c \in cache : c[1] \in tokens
      BY <1>1 DEF ReadsInv, CacheFacts
  <2>7. rd.op = "page" /\ rd.step \in {"rows", "summaries"} => rd.limit \in 1 .. MaxLimit
      BY <1>1 DEF ReadsInv, ReadFacts
  <2> QED BY <2>1, <2>2, <2>3, <2>4, <2>5, <2>6, <2>7
          DEF ReadsTypeOK, ReadOps, ReadSteps, Statuses
<1> QED BY <1>1, ReadsInvariant, PTL

(* A link dies: nothing is shown through it to a request made after its     *)
(* expiry, and no cache shows its card later than its max-age allows.       *)
THEOREM LinksDie == ReadsSpec => []LinksExpire
<1>1. ASSUME StoreOK, ReadsInv PROVE LinksExpire
  <2>1. ASSUME Ended, rd.op \in LinkOps, 200 \in Codes
        PROVE  rd.asked <= rd.token.expiresAt /\ rd.asked <= rd.token.signed + MaxTtl
    <3>1. rd \in Read /\ ReadFacts(rd, tokens, minute)
        BY <1>1 DEF ReadsInv, ReadFacts
    <3>2. rd.status = 200
      <4>1. CASE rd.op = "public"
        <5>1. WebStatus(rd) = PublicPage(rd) /\ rd.op # "share"
            BY <4>1 DEF WebStatus, ListOps
        <5>2. 200 \in {rd.status} \cup PublicPage(rd)
            BY <2>1, <5>1 DEF Codes
        <5> QED BY <5>2 DEF PublicPage
      <4>2. CASE rd.op = "card"
        <5>1. WebStatus(rd) = CardProxy(rd) /\ rd.op # "share"
            BY <4>2 DEF WebStatus, ListOps
        <5>2. 200 \in {rd.status} \cup CardProxy(rd)
            BY <2>1, <5>1 DEF Codes
        <5> QED BY <5>2 DEF CardProxy
      <4> QED BY <2>1, <4>1, <4>2 DEF LinkOps
    <3>3. rd.token \in tokens /\ rd.asked <= rd.token.expiresAt
        BY <2>1, <3>1, <3>2 DEF ReadFacts
    <3>4. rd.token \in Token /\ rd.token.expiresAt <= rd.token.signed + MaxTtl
        BY <1>1, <3>3 DEF ReadsInv, LinksTyped
    <3> DEFINE asked == rd.asked  ends == rd.token.expiresAt  signed == rd.token.signed
    <3>5. /\ asked \in Int /\ ends \in Int /\ signed \in Int /\ MaxTtl \in Int
          /\ asked <= ends /\ ends <= signed + MaxTtl
        BY <3>1, <3>3, <3>4, ReadsAssumption DEF Read, Token
    <3> HIDE DEF asked, ends, signed
    <3>6. asked <= signed + MaxTtl
        BY <3>5
    <3> QED BY <3>3, <3>6 DEF asked, signed
  <2>2. ASSUME NEW c \in cache
        PROVE  minute <= c[2] /\ c[2] <= c[1].signed + MaxTtl + CardMaxAge + 1
    <3>1. /\ c[1] \in tokens /\ c[2] \in Int /\ minute <= c[2]
          /\ c[2] <= c[1].expiresAt + CardMaxAge + 1
        BY <1>1 DEF ReadsInv, CacheFacts
    <3>2. c[1] \in Token /\ c[1].expiresAt <= c[1].signed + MaxTtl
        BY <1>1, <3>1 DEF ReadsInv, LinksTyped
    <3> DEFINE until == c[2]  ends == c[1].expiresAt  signed == c[1].signed
    <3>3. /\ until \in Int /\ ends \in Int /\ signed \in Int /\ MaxTtl \in Int
          /\ CardMaxAge \in Int /\ until <= ends + CardMaxAge + 1 /\ ends <= signed + MaxTtl
        BY <1>1, <3>1, <3>2, ReadsAssumption DEF Token
    <3> HIDE DEF until, ends, signed
    <3>4. until <= signed + MaxTtl + CardMaxAge + 1
        BY <3>3
    <3> QED BY <3>1, <3>4 DEF until, signed
  <2> QED BY <2>1, <2>2 DEF LinksExpire
<1> QED BY <1>1, ReadsInvariant, PTL

-----------------------------------------------------------------------------
(* What an answer shows of the bodies accepted before it was asked.         *)

DueIn(r, gone) == {b \in r.must : TraceOf[b] \notin gone}

DueTraces(due, org, p) ==
    {TraceOf[b] : b \in {d \in due : OrgOf[TraceOf[d]] = org /\ ProjectOf[TraceOf[d]] = p}}

(* The spans owed under trace t.                                            *)
OwedIn(must, gone, t) ==
    IF t \in gone THEN {}
    ELSE {SpanId[e] : e \in {e \in UNION {Elements(SpansOf[b]) : b \in must} :
            \A f \in Entries : SpanId[f] = SpanId[e] => SpanTraceId[f] = t}}

(* What an answer about one trace is, for a body of that trace it owes.     *)
ShownOne(r) ==
    /\ r.op = "detail" => r.status = 200
    /\ r.op = "share" => r.status = 201
    /\ r.op \in LinkOps /\ r.asked <= r.token.expiresAt =>
         r.status = IF r.trace \in SensitiveTraces THEN 404 ELSE 200

(* What it shows of the spans, and of the traces of a project.              *)
ShowsSpans(r, gone) ==
    r.op \in LinkOps \cup {"detail"} /\ r.status = 200 =>
      OwedIn(r.must, gone, r.trace) \subseteq r.spans

CountsTraces(r, gone) ==
    \A p \in Projects : LET D == DueTraces(DueIn(r, gone), r.org, p)
                        IN  IsFiniteSet(D) /\ r.counts[p] \in Nat /\ r.counts[p] >= Cardinality(D)

CountsSpans(r, gone) ==
    \A i \in DOMAIN r.listed :
      r.listed[i].spanCount >= Cardinality(OwedIn(r.must, gone, r.listed[i].id))

Shown(r, gone) ==
    ~r.failed /\ r.org # NoOrg =>
      /\ r.op \in ListOps => r.trace = Absent
      /\ r.op # "none"
      /\ r.op \in LinkOps /\ r.step \in {"view", "spans"} => r.trace \notin SensitiveTraces
      /\ r.op \notin ListOps /\ r.step = "answered" => \A b \in DueIn(r, gone) :
           TraceOf[b] = r.trace /\ OrgOf[r.trace] = r.org => ShownOne(r)
      /\ r.step = "answered" => ShowsSpans(r, gone)
      /\ r.op = "projects" /\ r.step = "answered" => CountsTraces(r, gone)
      /\ r.op = "page" => CountsSpans(r, gone)

ShownInv == rd.must \subseteq accepted /\ Shown(rd, purged)

(* A body that is owed has its trace in the store, ...                      *)
LEMMA DueStored ==
    ASSUME StoreOK, NEW b \in accepted, TraceOf[b] \notin purged
    PROVE  b \in Bodies /\ TraceOf[b] \in Traces /\ traces[TraceOf[b]] # Absent
<1>1. b \in Bodies /\ TraceOf[b] \in Traces
    BY Shape DEF StoreOK, StoreInv
<1>2. Stored(b, Len(SpansOf[b]))
    BY DEF StoreOK, StoreInv, AcceptedIsStored
<1> QED BY <1>1, <1>2 DEF Stored

(* ... and the spans that are owed are there: each is kept, a sweep did not *)
(* take it, and every span with its id names the same trace.                *)
LEMMA OwedStored ==
    ASSUME StoreOK, NEW must \in SUBSET accepted, NEW t
    PROVE  OwedIn(must, purged, t) \subseteq SpansUnder(t)
<1> SUFFICES ASSUME t \notin purged, NEW e, NEW b \in must, e \in Elements(SpansOf[b]),
                    \A f \in Entries : SpanId[f] = SpanId[e] => SpanTraceId[f] = t
             PROVE  SpanId[e] \in SpansUnder(t)
    BY DEF OwedIn
<1>1. b \in Bodies /\ SpansOf[b] \in Seq(Entries)
    BY Shape DEF StoreOK, StoreInv
<1>2. PICK i \in 1 .. Len(SpansOf[b]) : e = SpansOf[b][i]
    BY <1>1 DEF Elements
<1>3. e \in Entries /\ SpanId[e] \in Spans
  <2>1. e \in Entries
      BY <1>1, <1>2
  <2> QED BY <2>1, Shape
<1>4. Stored(b, Len(SpansOf[b]))
    BY DEF StoreOK, StoreInv, AcceptedIsStored
<1>5. PICK f \in Entries : /\ SpanId[f] = SpanId[e]
                           /\ spans[SpanId[e]] = f \/ SpanTraceId[f] \in purged
    BY <1>2, <1>4 DEF Stored, Kept
<1>6. SpanTraceId[f] = t /\ f # Absent
    BY <1>5, Shape
<1> QED BY <1>3, <1>5, <1>6 DEF SpansUnder

(* The writers forget neither what they accepted nor what they swept.       *)
LEMMA HistoryGrows == [Next]_vars => accepted \subseteq accepted' /\ purged \subseteq purged'
<1> SUFFICES ASSUME [Next]_vars PROVE accepted \subseteq accepted' /\ purged \subseteq purged'
    OBVIOUS
<1>1. CASE UNCHANGED vars
    BY <1>1 DEF vars, history
<1>2. ASSUME NEW h \in Handlers,
             (\E b \in Bodies : Receive(h, b)) \/ Handle(h) \/ StatementFails(h)
      PROVE  accepted \subseteq accepted' /\ purged \subseteq purged'
    BY <1>2 DEF Receive, Handle, tryRecordContentHash, insertTrace, insertSpan,
                ForeignKeyFails, Accept, StatementFails, history
<1>3. CASE (\E r \in Replicas : Crash(r)) \/ Tick \/ PurgeTraces \/ PurgeDedup
    BY <1>3 DEF Crash, Tick, PurgeTraces, PurgeDedup, history
<1> QED BY <1>1, <1>2, <1>3 DEF Next

(* When more traces are swept, what was shown is still enough.              *)
LEMMA ShownShrinks ==
    ASSUME NEW r \in Read, NEW gone, NEW more, gone \subseteq more, Shown(r, gone)
    PROVE  Shown(r, more)
<1>1. DueIn(r, more) \subseteq DueIn(r, gone)
    BY DEF DueIn
<1>2. ASSUME NEW t
      PROVE  OwedIn(r.must, more, t) = {} \/ OwedIn(r.must, more, t) = OwedIn(r.must, gone, t)
    BY DEF OwedIn
<1>3. ShowsSpans(r, gone) => ShowsSpans(r, more)
    BY <1>2 DEF ShowsSpans
<1>4. CountsSpans(r, gone) => CountsSpans(r, more)
  <2> SUFFICES ASSUME CountsSpans(r, gone), NEW i \in DOMAIN r.listed
               PROVE  r.listed[i].spanCount >= Cardinality(OwedIn(r.must, more, r.listed[i].id))
      BY DEF CountsSpans
  <2> DEFINE row == r.listed[i]  n == r.listed[i].spanCount
  <2>1. n \in Nat
    <3> DEFINE listed == r.listed
    <3>1. listed \in Seq(ListRow) /\ i \in DOMAIN listed
        BY DEF Read
    <3> HIDE DEF listed
    <3>2. listed[i] \in ListRow
        BY <3>1
    <3> QED BY <3>2 DEF ListRow, listed
  <2>2. n >= Cardinality(OwedIn(r.must, gone, row.id))
      BY DEF CountsSpans
  <2>3. Cardinality({}) = 0
      BY FS_EmptySet
  <2> HIDE DEF n
  <2>4. n >= Cardinality(OwedIn(r.must, more, row.id))
    <3>1. CASE OwedIn(r.must, more, row.id) = {}
        BY <2>1, <2>3, <3>1
    <3>2. CASE OwedIn(r.must, more, row.id) = OwedIn(r.must, gone, row.id)
        BY <2>2, <3>2
    <3> QED BY <1>2, <3>1, <3>2
  <2> QED BY <2>4 DEF n
<1>5. CountsTraces(r, gone) => CountsTraces(r, more)
  <2> SUFFICES ASSUME CountsTraces(r, gone), NEW p \in Projects
               PROVE  LET D == DueTraces(DueIn(r, more), r.org, p)
                      IN  /\ IsFiniteSet(D) /\ r.counts[p] \in Nat
                          /\ r.counts[p] >= Cardinality(D)
      BY DEF CountsTraces
  <2> DEFINE D == DueTraces(DueIn(r, gone), r.org, p)
             E == DueTraces(DueIn(r, more), r.org, p)
             n == r.counts[p]
  <2>1. E \subseteq D
      BY <1>1 DEF DueTraces
  <2>2. IsFiniteSet(D) /\ n \in Nat /\ n >= Cardinality(D)
      BY DEF CountsTraces
  <2>3. IsFiniteSet(E) /\ Cardinality(E) <= Cardinality(D) /\ Cardinality(E) \in Nat
        /\ Cardinality(D) \in Nat
      BY <2>1, <2>2, FS_Subset, FS_CardinalityType
  <2> HIDE DEF D, E, n
  <2>4. n >= Cardinality(E)
      BY <2>2, <2>3
  <2> QED BY <2>2, <2>3, <2>4 DEF E, n
<1> QED BY <1>1, <1>3, <1>4, <1>5 DEF Shown

(* Every step shows what is owed.                                           *)
LEMMA AskShows ==
    ASSUME StoreOK, ReadsInv, Ask
    PROVE  rd'.must \subseteq accepted /\ \A gone : Shown(rd', gone)
<1>1. PICK r \in Read : NewRequest(r) /\ Begin(r)
    BY AskBegins DEF ReadsInv
<1>2. /\ rd' \in Read /\ rd' = [r EXCEPT !.asked = minute, !.must = rd'.must]
      /\ rd'.asked = minute /\ rd'.must \subseteq accepted
    BY <1>1, Begun DEF StoreOK, Inv
<1>3. /\ rd'.op = r.op /\ rd'.step = r.step /\ rd'.org = r.org /\ rd'.trace = r.trace
      /\ rd'.token = r.token /\ rd'.status = r.status /\ rd'.listed = r.listed
    BY <1>2 DEF Read
<1> SUFFICES ASSUME NEW gone PROVE Shown(rd', gone)
    BY <1>2
<1>4. CASE Refused(r)
  <2>1. rd'.org = NoOrg
      BY <1>3, <1>4 DEF Refused
  <2> QED BY <2>1 DEF Shown
<1>5. CASE r.step \in {"trace", "rows"} /\ Fresh(r) /\ (r.op \in ListOps => r.trace = Absent)
  <2>1. rd'.step \in {"trace", "rows"} /\ rd'.op # "none" /\ rd'.listed = <<>>
      BY <1>3, <1>5 DEF Fresh
  <2>2. ASSUME NEW i \in DOMAIN rd'.listed PROVE FALSE
      BY <2>1, <2>2
  <2>3. rd'.op \in ListOps => rd'.trace = Absent
      BY <1>3, <1>5
  <2> QED BY <2>1, <2>2, <2>3 DEF Shown, CountsSpans
<1>6. CASE /\ Fresh(r) /\ r.op \in LinkOps /\ r.token \in tokens
           /\ r.step = "answered" /\ r.status = 404 /\ r.token.expiresAt < minute
  <2>1. /\ rd'.op \in LinkOps /\ rd'.step = "answered" /\ rd'.status = 404
        /\ rd'.token \in tokens /\ rd'.token.expiresAt < rd'.asked
      BY <1>2, <1>3, <1>6
  <2>2. /\ rd'.op \notin ListOps /\ rd'.op \notin {"none", "detail", "share", "page", "projects"}
      BY <2>1 DEF LinkOps, ListOps
  <2>3. ~(rd'.asked <= rd'.token.expiresAt)
    <3>1. rd'.token \in Token
        BY <2>1 DEF ReadsInv, LinksTyped
    <3> DEFINE asked == rd'.asked  ends == rd'.token.expiresAt
    <3>2. asked \in Int /\ ends \in Int /\ ends < asked
        BY <1>2, <2>1, <3>1 DEF Read, Token
    <3> HIDE DEF asked, ends
    <3>3. ~(asked <= ends)
        BY <3>2
    <3> QED BY <3>3 DEF asked, ends
  <2>4. ShownOne(rd') /\ ShowsSpans(rd', gone)
      BY <2>1, <2>2, <2>3 DEF ShownOne, ShowsSpans
  <2> QED BY <2>1, <2>2, <2>4 DEF Shown
<1> QED BY <1>1, <1>4, <1>5, <1>6 DEF NewRequest, IdOps, LinkOps, ListOps

(* Going to another statement is the same request.                          *)
LEMMA StepSame ==
    ASSUME NEW r \in Read, NEW step \in ReadSteps
    PROVE  /\ [r EXCEPT !.step = step] \in Read /\ Same([r EXCEPT !.step = step], r)
           /\ [r EXCEPT !.step = step].step = step
  BY DEF Read, Same

(* A body that is owed has its trace in the store: GetTrace finds it.       *)
LEMMA GetTraceShows ==
    ASSUME StoreOK, ReadsInv, ShownInv, GetTrace
    PROVE  rd'.must \subseteq accepted /\ Shown(rd', purged)
<1>1. /\ rd.step = "trace" /\ rd \in Read /\ rd.op \in IdOps \cup LinkOps
      /\ rd.trace \in Traces /\ rd.org \in Orgs /\ rd.must \subseteq accepted
      /\ rd.op \notin ListOps /\ rd.op \notin {"none", "page", "projects"}
    BY DEF GetTrace, ReadsInv, ReadFacts, ShownInv, ListOps, IdOps, LinkOps
<1>2. \/ traces[rd.trace] = Absent /\ rd' = Answer(rd, 404)
      \/ rd' = Refuse(rd, 403) \/ rd' = Refuse(rd, 404)
      \/ rd.op \in LinkOps /\ rd.trace \in SensitiveTraces /\ rd' = Answer(rd, 404)
      \/ /\ ~(rd.op \in LinkOps /\ rd.trace \in SensitiveTraces)
         /\ \E step \in {"sign", "view"} : rd' = [rd EXCEPT !.step = step]
    BY DEF GetTrace
<1>3. CASE rd' = Refuse(rd, 403) \/ rd' = Refuse(rd, 404)
  <2>1. ASSUME NEW code, rd' = Refuse(rd, code) PROVE rd'.org = NoOrg /\ rd'.must = {}
      BY <2>1 DEF Refuse, Answer, Idle
  <2>2. rd'.org = NoOrg /\ rd'.must = {}
      BY <1>3, <2>1
  <2> QED BY <2>2 DEF Shown
<1>4. CASE /\ rd' = Answer(rd, 404)
           /\ \/ traces[rd.trace] = Absent
              \/ rd.op \in LinkOps /\ rd.trace \in SensitiveTraces
  <2>1. /\ rd' \in Read /\ Same(rd', rd) /\ rd'.step = "answered" /\ rd'.status = 404
    <3>1. 404 \in Statuses
        BY DEF Statuses
    <3> QED BY <1>1, <1>4, <3>1, AnswerSame
  <2>2. /\ rd'.must = rd.must /\ rd'.op = rd.op /\ rd'.trace = rd.trace
        /\ rd'.token = rd.token /\ rd'.asked = rd.asked
      BY <2>1 DEF Same
  <2>3. CASE traces[rd.trace] = Absent
    <3>1. ASSUME NEW b \in DueIn(rd', purged), TraceOf[b] = rd'.trace PROVE FALSE
      <4>1. b \in accepted /\ TraceOf[b] \notin purged
          BY <1>1, <2>2, <3>1 DEF DueIn
      <4> QED BY <2>2, <2>3, <3>1, <4>1, DueStored
    <3>2. ShowsSpans(rd', purged)
        BY <2>1 DEF ShowsSpans
    <3> QED BY <1>1, <2>1, <2>2, <3>1, <3>2 DEF Shown
  <2>4. CASE rd.op \in LinkOps /\ rd.trace \in SensitiveTraces
    <3>1. ShownOne(rd') /\ ShowsSpans(rd', purged)
        BY <2>1, <2>2, <2>4 DEF ShownOne, ShowsSpans, LinkOps
    <3> QED BY <1>1, <2>1, <2>2, <3>1 DEF Shown
  <2> QED BY <1>4, <2>3, <2>4
<1>5. CASE /\ ~(rd.op \in LinkOps /\ rd.trace \in SensitiveTraces)
           /\ \E step \in {"sign", "view"} : rd' = [rd EXCEPT !.step = step]
  <2>1. PICK step \in {"sign", "view"} : rd' = [rd EXCEPT !.step = step]
      BY <1>5
  <2>2. step \in ReadSteps
      BY DEF ReadSteps
  <2>3. rd' \in Read /\ Same(rd', rd) /\ rd'.step = step
      BY <1>1, <2>1, <2>2, StepSame
  <2>4. rd'.op = rd.op /\ rd'.trace = rd.trace /\ rd'.must = rd.must
      BY <2>3 DEF Same
  <2> QED BY <1>1, <1>5, <2>3, <2>4 DEF Shown
<1> QED BY <1>2, <1>3, <1>4, <1>5

(* A link that is signed is answered 201.                                   *)
LEMMA SignShows ==
    ASSUME StoreOK, ReadsInv, ShownInv, NEW ttl \in AskedTtls, Sign(ttl)
    PROVE  rd'.must \subseteq accepted /\ Shown(rd', purged)
<1>1. /\ rd.step = "sign" /\ rd \in Read /\ rd.op = "share" /\ rd' = Answer(rd, 201)
      /\ rd.must \subseteq accepted /\ 201 \in Statuses
    BY DEF Sign, ReadsInv, ReadFacts, ShownInv, Statuses
<1>2. rd' \in Read /\ Same(rd', rd) /\ rd'.step = "answered" /\ rd'.status = 201
    BY <1>1, AnswerSame
<1>3. rd'.op = "share" /\ rd'.must = rd.must
    BY <1>1, <1>2 DEF Same
<1>4. ShownOne(rd') /\ ShowsSpans(rd', purged)
    BY <1>2, <1>3 DEF ShownOne, ShowsSpans, LinkOps
<1> QED BY <1>1, <1>2, <1>3, <1>4 DEF Shown, ListOps, LinkOps

(* A view finds the trace that is owed, and all its spans.                  *)
LEMMA ViewShows ==
    ASSUME StoreOK, ReadsInv, ShownInv, ReadView \/ ReadSpans
    PROVE  rd'.must \subseteq accepted /\ Shown(rd', purged)
<1>1. /\ rd.step \in {"view", "spans"} /\ rd \in Read /\ rd.op \in {"detail"} \cup LinkOps
      /\ rd.must \subseteq accepted
      /\ rd.trace \in Traces /\ rd.org \in Orgs /\ rd.org # NoOrg
      /\ rd.op \notin ListOps /\ rd.op \notin {"none", "share", "page", "projects"}
      /\ Shown(rd, purged)
    BY ReadsAssumption DEF ReadView, ReadSpans, ReadsInv, ReadFacts, ShownInv, ListOps, LinkOps
<1>2. ~rd.failed /\ rd.op \in LinkOps => rd.trace \notin SensitiveTraces
    BY <1>1 DEF Shown
<1>3. 200 \in Statuses /\ "spans" \in ReadSteps
    BY DEF Statuses, ReadSteps
<1>4. CASE rd' = [rd EXCEPT !.step = "spans"]
  <2>1. rd' \in Read /\ Same(rd', rd) /\ rd'.step = "spans"
      BY <1>1, <1>3, <1>4, StepSame
  <2>2. /\ rd'.op = rd.op /\ rd'.trace = rd.trace /\ rd'.must = rd.must
        /\ rd'.failed = rd.failed
      BY <2>1 DEF Same
  <2> QED BY <1>1, <1>2, <2>1, <2>2 DEF Shown
<1>5. ASSUME NEW S \in SUBSET Spans, rd' = [Answer(rd, 200) EXCEPT !.spans = S],
             SpansUnder(rd.trace) \subseteq S
      PROVE  rd'.must \subseteq accepted /\ Shown(rd', purged)
  <2> DEFINE a == Answer(rd, 200)
  <2>1. a \in Read /\ Same(a, rd) /\ a.step = "answered" /\ a.status = 200
      BY <1>1, <1>3, AnswerSame
  <2>2. rd' = [a EXCEPT !.spans = S]
      BY <1>5
  <2> HIDE DEF a
  <2>3. /\ rd' \in Read /\ rd'.op = a.op /\ rd'.trace = a.trace /\ rd'.must = a.must
        /\ rd'.failed = a.failed /\ rd'.step = a.step /\ rd'.status = a.status
        /\ rd'.asked = a.asked /\ rd'.token = a.token /\ rd'.org = a.org /\ rd'.spans = S
      BY <2>1, <2>2 DEF Read
  <2>4. /\ rd'.op = rd.op /\ rd'.trace = rd.trace /\ rd'.must = rd.must
        /\ rd'.failed = rd.failed /\ rd'.step = "answered" /\ rd'.status = 200
        /\ rd'.spans = S
      BY <2>1, <2>3 DEF Same
  <2>5. ~rd'.failed => ShownOne(rd')
      BY <1>1, <1>2, <2>4 DEF ShownOne
  <2>6. ShowsSpans(rd', purged)
    <3>1. OwedIn(rd.must, purged, rd.trace) \subseteq SpansUnder(rd.trace)
        BY <1>1, OwedStored
    <3> QED BY <1>5, <2>4, <3>1 DEF ShowsSpans
  <2> QED BY <1>1, <2>4, <2>5, <2>6 DEF Shown
<1>6. CASE ReadView /\ traces[rd.trace] = Absent
  <2>1. rd' = Answer(rd, 200)
      BY <1>6 DEF ReadView
  <2>2. rd' \in Read /\ Same(rd', rd) /\ rd'.step = "answered" /\ rd'.status = 200
      BY <1>1, <1>3, <2>1, AnswerSame
  <2>3. rd'.op = rd.op /\ rd'.trace = rd.trace /\ rd'.must = rd.must
      BY <2>2 DEF Same
  <2>4. ASSUME NEW b \in DueIn(rd', purged), TraceOf[b] = rd'.trace PROVE FALSE
    <3>1. b \in accepted /\ TraceOf[b] \notin purged
        BY <1>1, <2>3, <2>4 DEF DueIn
    <3> QED BY <1>6, <2>3, <2>4, <3>1, DueStored
  <2>5. SpansUnder(rd.trace) = {}
      BY <1>6 DEF SpansUnder, SpansUnderTrace, StoreOK, Inv
  <2>6. OwedIn(rd.must, purged, rd.trace) \subseteq {}
      BY <1>1, <2>5, OwedStored
  <2>7. ShowsSpans(rd', purged)
      BY <2>3, <2>6 DEF ShowsSpans
  <2> QED BY <1>1, <2>2, <2>3, <2>4, <2>7 DEF Shown
<1>7. CASE ReadView /\ traces[rd.trace] # Absent
    BY <1>4, <1>7 DEF ReadView
<1>8. CASE ReadSpans
  <2>1. rd' = [Answer(rd, 200) EXCEPT !.spans = SpansUnder(rd.trace)]
      BY <1>8 DEF ReadSpans
  <2>2. SpansUnder(rd.trace) \subseteq Spans
      BY DEF SpansUnder
  <2> QED BY <1>5, <2>1, <2>2
<1> QED BY <1>6, <1>7, <1>8

(* The counts include every trace that is owed.                             *)
LEMMA ProjectsShow ==
    ASSUME StoreOK, ReadsInv, ShownInv, listProjects
    PROVE  rd'.must \subseteq accepted /\ Shown(rd', purged)
<1>1. rd \in Read /\ rd.must \subseteq accepted /\ Shown(rd, purged)
    BY DEF ReadsInv, ReadFacts, ShownInv
<1>2. /\ rd' \in Read /\ Same(rd', rd) /\ rd.op = "projects" /\ rd'.step = "answered"
      /\ rd'.counts = [p \in Projects |->
                Cardinality({t \in StoredTraces : OrgOf[t] = rd.org /\ ProjectOf[t] = p})]
    BY <1>1, ProjectsAnswer
<1>3. /\ rd'.op = "projects" /\ rd'.org = rd.org /\ rd'.must = rd.must
      /\ rd'.trace = rd.trace /\ rd'.failed = rd.failed
    BY <1>2 DEF Same
<1>4. rd'.op \in ListOps /\ rd'.op \notin LinkOps
    BY <1>3 DEF ListOps, LinkOps
<1> DEFINE due == DueIn(rd', purged)
<1>5. ASSUME NEW p \in Projects
      PROVE  /\ IsFiniteSet(DueTraces(due, rd'.org, p)) /\ rd'.counts[p] \in Nat
             /\ rd'.counts[p] >= Cardinality(DueTraces(due, rd'.org, p))
  <2> DEFINE D == DueTraces(DueIn(rd', purged), rd'.org, p)
             C == {t \in StoredTraces : OrgOf[t] = rd.org /\ ProjectOf[t] = p}
  <2>1. D \subseteq C
    <3> SUFFICES ASSUME NEW b \in DueIn(rd', purged),
                        OrgOf[TraceOf[b]] = rd'.org, ProjectOf[TraceOf[b]] = p
                 PROVE  TraceOf[b] \in C
        BY DEF DueTraces
    <3>1. b \in accepted /\ TraceOf[b] \notin purged
        BY <1>1, <1>3 DEF DueIn
    <3>2. TraceOf[b] \in Traces /\ traces[TraceOf[b]] # Absent
        BY <3>1, DueStored
    <3> QED BY <1>3, <3>2 DEF StoredTraces
  <2>2. IsFiniteSet(C)
      BY FS_Subset DEF StoreOK, RowInv
  <2>3. /\ IsFiniteSet(D) /\ Cardinality(D) <= Cardinality(C)
        /\ Cardinality(D) \in Nat /\ Cardinality(C) \in Nat
      BY <2>1, <2>2, FS_Subset, FS_CardinalityType
  <2>4. rd'.counts[p] = Cardinality(C)
      BY <1>2
  <2> HIDE DEF C, D
  <2>5. Cardinality(C) >= Cardinality(D)
      BY <2>3
  <2> QED BY <2>3, <2>4, <2>5 DEF D
<1>8. CountsTraces(rd', purged) /\ ShowsSpans(rd', purged)
    BY <1>3, <1>4, <1>5 DEF CountsTraces, ShowsSpans
<1>6. ~rd'.failed /\ rd'.org # NoOrg => rd'.trace = Absent
  <2>1. rd.op \in ListOps
      BY <1>2 DEF ListOps
  <2> QED BY <1>1, <1>3, <2>1 DEF Shown
<1>7. Shown(rd', purged)
    BY <1>2, <1>3, <1>4, <1>6, <1>8 DEF Shown
<1> QED BY <1>1, <1>3, <1>7

(* The pages: no row counts fewer spans than are owed.                      *)
LEMMA PageShows ==
    ASSUME NEW r \in Read, NEW q \in Read, Same(q, r), r.op = "page", NEW gone,
           Shown(r, gone), ~q.failed /\ q.org # NoOrg => CountsSpans(q, gone)
    PROVE  Shown(q, gone)
<1>1. /\ q.op = "page" /\ q.org = r.org /\ q.failed = r.failed /\ q.trace = r.trace
      /\ q.op \in ListOps /\ q.op \notin LinkOps
    BY DEF Same, ListOps, LinkOps
<1>2. ShowsSpans(q, gone)
    BY <1>1 DEF ShowsSpans
<1> QED BY <1>1, <1>2 DEF Shown

(* A page, or the next one, adds no row yet.                                *)
LEMMA ListShows ==
    ASSUME StoreOK, ReadsInv, ShownInv, listTraces \/ NextPage
    PROVE  rd'.must \subseteq accepted /\ Shown(rd', purged)
<1>1. rd \in Read /\ rd.must \subseteq accepted /\ Shown(rd, purged)
    BY DEF ReadsInv, ReadFacts, ShownInv
<1>2. rd' \in Read /\ Same(rd', rd) /\ rd.op = "page" /\ rd'.listed = rd.listed
    BY PageSelected, NextPageAsked
<1>3. rd'.must = rd.must /\ rd'.failed = rd.failed /\ rd'.org = rd.org
    BY <1>2 DEF Same
<1>4. ~rd'.failed /\ rd'.org # NoOrg => CountsSpans(rd', purged)
    BY <1>1, <1>2, <1>3 DEF Shown, CountsSpans
<1>5. Shown(rd', purged)
    BY <1>1, <1>2, <1>4, PageShows
<1> QED BY <1>1, <1>3, <1>5

(* The row that is added counts every span that is owed.                    *)
LEMMA SummaryShows ==
    ASSUME StoreOK, ReadsInv, ShownInv, SummariseRow
    PROVE  rd'.must \subseteq accepted /\ Shown(rd', purged)
<1> DEFINE head == Head(rd.todo)
           row  == [id |-> head.id, startedAt |-> head.startedAt,
                    spanCount |-> Cardinality(SpansUnder(head.id))]
           must == rd.must
           old  == rd.listed
           new  == rd'.listed
<1>1. rd \in Read /\ must \subseteq accepted /\ Shown(rd, purged)
    BY DEF ReadsInv, ReadFacts, ShownInv
<1>2. /\ rd' \in Read /\ Same(rd', rd) /\ rd.op = "page" /\ new = Append(old, row)
      /\ rd.todo # <<>>
    BY RowSummarised
<1>3. rd'.must = must /\ rd'.failed = rd.failed /\ rd'.org = rd.org
    BY <1>2 DEF Same
<1>4. row.spanCount >= Cardinality(OwedIn(must, purged, row.id))
  <2> DEFINE E == OwedIn(must, purged, head.id)
             S == SpansUnder(head.id)
  <2>1. E \subseteq S
      BY <1>1, OwedStored
  <2>2. IsFiniteSet(S)
    <3>1. rd.todo \in Seq(Row)
        BY <1>1 DEF Read
    <3> QED BY <1>2, <3>1, NextSummary
  <2>3. Cardinality(E) \in Nat /\ Cardinality(S) \in Nat /\ Cardinality(E) <= Cardinality(S)
      BY <2>1, <2>2, FS_Subset, FS_CardinalityType
  <2>4. row.spanCount = Cardinality(S) /\ row.id = head.id
      OBVIOUS
  <2> HIDE DEF S, row, head
  <2> QED BY <2>3, <2>4
<1>5. old \in Seq(ListRow)
    BY <1>1 DEF Read
<1>6. ~rd.failed /\ rd.org # NoOrg =>
        \A i \in DOMAIN old :
          old[i].spanCount >= Cardinality(OwedIn(must, purged, old[i].id))
    BY <1>1, <1>2 DEF Shown, CountsSpans
<1> HIDE DEF row, must, old, new
<1>7. \A i \in DOMAIN new : (i \in DOMAIN old /\ new[i] = old[i]) \/ new[i] = row
    BY <1>2, <1>5
<1>8. ~rd'.failed /\ rd'.org # NoOrg =>
        \A i \in DOMAIN new :
          new[i].spanCount >= Cardinality(OwedIn(must, purged, new[i].id))
    BY <1>3, <1>4, <1>6, <1>7
<1>9. ~rd'.failed /\ rd'.org # NoOrg => CountsSpans(rd', purged)
    BY <1>3, <1>8 DEF CountsSpans, new
<1>10. Shown(rd', purged)
    BY <1>1, <1>2, <1>9, PageShows
<1> QED BY <1>1, <1>3, <1>10

(* Nothing is owed at first.                                                *)
LEMMA ShownInvInit == ReadsInit => ShownInv
<1> SUFFICES ASSUME ReadsInit PROVE ShownInv
    OBVIOUS
<1>1. rd = Idle
    BY DEF ReadsInit
<1>2. rd.org = NoOrg /\ rd.must = {}
    BY <1>1 DEF Idle
<1> QED BY <1>2 DEF ShownInv, Shown

(* Only a sweep takes rows away, and then the body is owed no more.         *)
LEMMA ShownInvStep ==
    StoreOK /\ ReadsInv /\ ShownInv /\ [ReadsNext]_<<vars, readVars>> => ShownInv'
<1> SUFFICES ASSUME StoreOK, ReadsInv, ShownInv, [ReadsNext]_<<vars, readVars>> PROVE ShownInv'
    OBVIOUS
<1>1. ASSUME rd' = rd, [Next]_vars PROVE ShownInv'
  <2>1. accepted \subseteq accepted' /\ purged \subseteq purged'
      BY <1>1, HistoryGrows
  <2>3. rd \in Read /\ Shown(rd, purged) /\ rd.must \subseteq accepted
      BY DEF ReadsInv, ReadFacts, ShownInv
  <2>4. Shown(rd, purged')
      BY <2>1, <2>3, ShownShrinks
  <2>5. Shown(rd', purged')
      BY <1>1, <2>4
  <2>6. rd'.must \subseteq accepted'
      BY <1>1, <2>1, <2>3
  <2> QED BY <2>5, <2>6 DEF ShownInv
<1>2. CASE UNCHANGED <<vars, readVars>>
    BY <1>1, <1>2 DEF readVars
<1>3. CASE WriteStep
    BY <1>1, <1>3 DEF WriteStep
<1>4. CASE ReadStep /\ UNCHANGED vars
  <2>1. accepted' = accepted /\ purged' = purged
      BY <1>4 DEF vars, history
  <2>2. ASSUME rd'.must \subseteq accepted, Shown(rd', purged)
        PROVE  ShownInv'
      BY <2>1, <2>2 DEF ShownInv
  <2>3. CASE Ask
      BY <2>2, <2>3, AskShows
  <2>4. CASE GetTrace
      BY <2>2, <2>4, GetTraceShows
  <2>5. ASSUME NEW ttl \in AskedTtls, Sign(ttl) PROVE ShownInv'
      BY <2>2, <2>5, SignShows
  <2>6. CASE ReadView \/ ReadSpans
      BY <2>2, <2>6, ViewShows
  <2>7. CASE listProjects
      BY <2>2, <2>7, ProjectsShow
  <2>8. CASE listTraces \/ NextPage
      BY <2>2, <2>8, ListShows
  <2>9. CASE SummariseRow
      BY <2>2, <2>9, SummaryShows
  <2>10. ASSUME rd'.org = NoOrg, rd'.must = {} PROVE ShownInv'
      BY <2>2, <2>10 DEF Shown
  <2>11. CASE ReadFails
      BY <2>10, <2>11 DEF ReadFails, Refuse, Answer, Idle
  <2>12. CASE Done
      BY <2>10, <2>12 DEF Done, Idle
  <2> QED BY <1>4, <2>3, <2>4, <2>5, <2>6, <2>7, <2>8, <2>9, <2>11, <2>12 DEF ReadStep, Ask
<1> QED BY <1>2, <1>3, <1>4 DEF ReadsNext

(* What ingest answered 202 to before a read is asked is in its answer,     *)
(* whole, but for the traces a sweep took and the ids that spans of two     *)
(* traces share: however requests, sweeps, failures and crashes fall        *)
(* between the statements of the read, and whichever traces spans name.     *)
THEOREM AnswersComplete == ReadsSpec => []AnswersSeeAcceptedWrites
<1>1. ASSUME StoreOK, ReadsInv, ShownInv PROVE AnswersSeeAcceptedWrites
  <2> SUFFICES ASSUME Ended, ~rd.failed, rd.org # NoOrg
               PROVE  /\ \A b \in Due : TraceOf[b] = rd.trace /\ OrgOf[rd.trace] = rd.org =>
                           /\ rd.op = "detail" => Codes = {200}
                           /\ rd.op = "share" => Codes = {201}
                           /\ rd.op \in LinkOps /\ rd.asked <= rd.token.expiresAt
                                => Codes = {IF rd.trace \in SensitiveTraces THEN 404 ELSE 200}
                      /\ rd.op \in LinkOps \cup {"detail"} /\ 200 \in Codes =>
                           Owed(rd.trace) \subseteq rd.spans
                      /\ rd.op = "projects" => \A p \in Projects :
                           rd.counts[p] >= Cardinality(DueTraces(Due, rd.org, p))
                      /\ rd.op = "page" => \A i \in DOMAIN rd.listed :
                           rd.listed[i].spanCount >= Cardinality(Owed(rd.listed[i].id))
      BY DEF AnswersSeeAcceptedWrites, DueTraces
  <2>1. /\ rd \in Read /\ rd.must \subseteq Bodies /\ Due = DueIn(rd, purged)
        /\ Shown(rd, purged) /\ \A t : Owed(t) = OwedIn(rd.must, purged, t)
    <3>1. \A t : Owed(t) = OwedIn(rd.must, purged, t)
        BY Zenon DEF Owed, OwedIn
    <3>2. rd \in Read /\ rd.must \subseteq accepted /\ accepted \subseteq Bodies
        BY <1>1 DEF ReadsInv, ReadFacts, ShownInv, StoreOK, StoreInv
    <3> QED BY <1>1, <3>1, <3>2 DEF ShownInv, Due, DueIn
  <2>2. ASSUME NEW b \in Due, TraceOf[b] = rd.trace, OrgOf[rd.trace] = rd.org
        PROVE  ShownOne(rd) /\ rd.op \notin ListOps /\ rd.op # "none"
    <3>1. TraceOf[b] \in Traces /\ Absent \notin Traces
        BY <2>1, Shape, ReadsAssumption DEF DueIn
    <3>2. rd.op \notin ListOps /\ rd.op # "none"
        BY <2>1, <2>2, <3>1 DEF Shown
    <3> QED BY <2>1, <2>2, <3>2 DEF Shown, Ended
  <2>3. ASSUME NEW b \in Due, TraceOf[b] = rd.trace, OrgOf[rd.trace] = rd.org
        PROVE  /\ rd.op = "detail" => Codes = {200}
               /\ rd.op = "share" => Codes = {201}
               /\ rd.op \in LinkOps /\ rd.asked <= rd.token.expiresAt
                    => Codes = {IF rd.trace \in SensitiveTraces THEN 404 ELSE 200}
    <3>1. ShownOne(rd) /\ rd.op \in {"detail", "share"} \cup LinkOps
        BY <2>1, <2>2, <2>3 DEF Read, ReadOps, IdOps
    <3>2. CASE rd.op = "detail"
      <4>1. Codes = {rd.status}
          BY <3>2 DEF Codes, WebStatus, ListOps
      <4> QED BY <3>1, <3>2, <4>1 DEF ShownOne, LinkOps
    <3>3. CASE rd.op = "share"
      <4>1. Codes = {rd.status}
          BY <3>3 DEF Codes
      <4> QED BY <3>1, <3>3, <4>1 DEF ShownOne, LinkOps
    <3>4. CASE rd.op = "card"
      <4>1. Codes = {rd.status}
          BY <3>4 DEF Codes, WebStatus, ListOps, CardProxy
      <4> QED BY <3>1, <3>4, <4>1 DEF ShownOne, LinkOps
    <3>5. CASE rd.op = "public"
      <4>1. Codes = {rd.status, IF rd.status = 200 THEN 200 ELSE 404}
          BY <3>5 DEF Codes, WebStatus, ListOps, PublicPage
      <4> QED BY <3>1, <3>5, <4>1 DEF ShownOne, LinkOps
    <3> QED BY <3>1, <3>2, <3>3, <3>4, <3>5 DEF LinkOps
  <2>4. rd.op = "projects" => \A p \in Projects :
          rd.counts[p] >= Cardinality(DueTraces(Due, rd.org, p))
      BY <2>1 DEF Shown, CountsTraces, Ended
  <2>5. rd.op = "page" => \A i \in DOMAIN rd.listed :
          rd.listed[i].spanCount >= Cardinality(Owed(rd.listed[i].id))
      BY <2>1 DEF Shown, CountsSpans
  <2>6. ASSUME rd.op \in LinkOps \cup {"detail"}, 200 \in Codes
        PROVE  Owed(rd.trace) \subseteq rd.spans
    <3>1. rd.status = 200
        BY <2>6 DEF Codes, WebStatus, PublicPage, CardProxy, ListOps, LinkOps
    <3> QED BY <2>1, <2>6, <3>1 DEF Shown, ShowsSpans, Ended
  <2> QED BY <2>3, <2>4, <2>5, <2>6
<1>2. ReadsSpec => []ShownInv
  <2>1. /\ ReadsInit => ShownInv
        /\ StoreOK /\ ReadsInv /\ ShownInv /\ [ReadsNext]_<<vars, readVars>> => ShownInv'
      BY ShownInvInit, ShownInvStep
  <2> QED BY <2>1, ReadsInvariant, PTL DEF ReadsSpec
<1> QED BY <1>1, <1>2, ReadsInvariant, PTL

-----------------------------------------------------------------------------
(* A walk from page to page.                                                *)

(* The two parts of a walk: the rows summarised, and the page's others.     *)
Ids(done, todo)   == {done[i].id : i \in DOMAIN done} \cup {todo[i].id : i \in DOMAIN todo}
Times(done, todo) == {done[i].startedAt : i \in DOMAIN done}
                       \cup {todo[i].startedAt : i \in DOMAIN todo}

(* They come newest first, and no trace twice.                              *)
Follows(a, b) == a.id # b.id /\ b.startedAt <= a.startedAt
Falling(rows) == \A i, j \in DOMAIN rows : i < j => Follows(rows[i], rows[j])
Ordered(done, todo) ==
    /\ Falling(done) /\ Falling(todo)
    /\ \A i \in DOMAIN done, j \in DOMAIN todo : Follows(done[i], todo[j])

(* A row says when its trace began.                                         *)
Dated(row) == \E b \in Bodies : TraceOf[b] = row.id /\ row.startedAt = Iso(StartUs[b])

(* The next page goes on where the last one ended.                          *)
Continues(r) == \A i \in DOMAIN r.listed : \E c \in r.before : c <= r.listed[i].startedAt

(* A trace that is not among the rows is still to come, or began in the     *)
(* millisecond of one that is.                                              *)
Met(r, t, us) ==
    \/ t \in Ids(r.listed, r.todo)
    \/ Iso(us) \in Times(r.listed, r.todo)
    \/ r.step = "rows" /\ \A c \in r.before : us < c
    \/ r.step # "rows" /\ r.page = r.limit /\ \A x \in Times(r.listed, r.todo) : us < x

Walk(r, stored, tr) ==
    r.op = "page" /\ r.org # NoOrg /\ ~r.failed =>
      /\ r.step # "summaries" => r.todo = <<>>
      /\ Ordered(r.listed, r.todo)
      /\ \A i \in DOMAIN r.listed : Dated(r.listed[i])
      /\ \A i \in DOMAIN r.todo : Dated(r.todo[i])
      /\ r.step = "rows" => Continues(r)
      /\ \A t \in stored : OrgOf[t] = r.org /\ ProjectOf[t] = r.project =>
           Met(r, t, StartUs[tr[t]])

WalkInv == steady \subseteq StoredTraces /\ Walk(rd, steady, traces)

(* A trace id and its start are made together, by the SDK and by the Action.*)
OneStartPerTrace == \A a, b \in Bodies : TraceOf[a] = TraceOf[b] => StartUs[a] = StartUs[b]

(* The milliseconds: cutting keeps the order, and two times in different    *)
(* milliseconds are apart even when the later one is cut.                   *)
LEMMA Milliseconds ==
    ASSUME NEW a \in Nat, NEW b \in Nat
    PROVE  /\ Iso(a) \in Int /\ Iso(a) <= a
           /\ a <= b => Iso(a) <= Iso(b)
           /\ a <= b /\ Iso(a) # Iso(b) => a < Iso(b)
<1> DEFINE p == a \div PerMs
           q == b \div PerMs
           c == a % PerMs
           d == b % PerMs
<1>1. PerMs \in Nat \ {0}
    BY ReadsAssumption
<1>2. p \in Nat /\ q \in Nat /\ c \in 0 .. PerMs - 1 /\ d \in 0 .. PerMs - 1
    BY <1>1
<1>3. a = PerMs * p + c /\ b = PerMs * q + d
    BY <1>1
<1>4. Iso(a) = a - c /\ Iso(b) = b - d
    BY DEF Iso
<1> HIDE DEF p, q, c, d
<1>5. CASE p = q
    BY <1>1, <1>2, <1>3, <1>4, <1>5
<1>6. CASE p < q
  <2>1. PerMs * (p + 1) <= PerMs * q
      BY <1>1, <1>2, <1>6
  <2>2. PerMs * (p + 1) = PerMs * p + PerMs
      BY <1>1, <1>2
  <2> DEFINE x == PerMs * p  y == PerMs * q
  <2>3. x \in Int /\ y \in Int /\ x + PerMs <= y /\ a = x + c /\ b = y + d
      BY <1>1, <1>2, <1>3, <2>1, <2>2
  <2> HIDE DEF x, y
  <2> QED BY <1>1, <1>2, <1>4, <2>3
<1>7. CASE q < p
  <2>1. PerMs * (q + 1) <= PerMs * p
      BY <1>1, <1>2, <1>7
  <2>2. PerMs * (q + 1) = PerMs * q + PerMs
      BY <1>1, <1>2
  <2> DEFINE x == PerMs * p  y == PerMs * q
  <2>3. x \in Int /\ y \in Int /\ y + PerMs <= x /\ a = x + c /\ b = y + d
      BY <1>1, <1>2, <1>3, <2>1, <2>2
  <2> HIDE DEF x, y
  <2> QED BY <1>1, <1>2, <1>4, <2>3
<1> QED BY <1>2, <1>5, <1>6, <1>7

(* The rows are those of the traces in s.                                   *)
RowsFor(rows, s) ==
    /\ DOMAIN rows = DOMAIN s
    /\ \A i \in DOMAIN s : rows[i].id = s[i] /\ rows[i].startedAt = Iso(Start(s[i]))

(* A page is in order; and what it leaves out is older, or there is nothing *)
(* that it leaves out.                                                      *)
LEMMA PageInOrder ==
    ASSUME StoreOK, NEW C, C \subseteq StoredTraces, NEW n \in Nat \ {0}, NEW s \in Pages(C, n)
    PROVE  /\ RowsFor(RowsOf(s), s) /\ Falling(RowsOf(s))
           /\ \A i \in DOMAIN s : s[i] \in C /\ Start(s[i]) \in Nat
           /\ \A t \in C : \/ \E i \in DOMAIN s : s[i] = t
                           \/ Len(s) = n /\ \A i \in DOMAIN s : Start(t) <= Start(s[i])
<1> DEFINE size == IF Cardinality(C) < n THEN Cardinality(C) ELSE n
<1>1. IsFiniteSet(C) /\ Cardinality(C) \in Nat /\ size \in Nat
  <2>1. IsFiniteSet(C)
      BY FS_Subset DEF StoreOK, RowInv
  <2> QED BY <2>1, FS_CardinalityType
<1>2. /\ s \in [1 .. size -> C]
      /\ \A i, j \in 1 .. size : i < j => s[i] # s[j] /\ Start(s[i]) >= Start(s[j])
      /\ \A i \in 1 .. size, t \in C \ Elements(s) : Start(s[i]) >= Start(t)
    BY DEF Pages
<1>3. size < n => size = Cardinality(C)
    BY <1>1
<1>4. size = Cardinality(C) => \A t \in C : \E i \in 1 .. size : s[i] = t
  <2>1. s \in Injection(1 .. size, C)
    <3>1. ASSUME NEW i \in 1 .. size, NEW j \in 1 .. size, s[i] = s[j] PROVE i = j
        BY <1>1, <1>2, <3>1
    <3> HIDE DEF size
    <3> QED BY <1>2, <3>1 DEF Injection, IsInjective
  <2>2. Cardinality(1 .. size) = size
    <3> HIDE DEF size
    <3>1. 1 \in Int /\ size \in Int
        BY <1>1
    <3>2. Cardinality(1 .. size) = IF 1 > size THEN 0 ELSE size - 1 + 1
        BY <3>1, FS_Interval
    <3> QED BY <1>1, <3>2
  <2> HIDE DEF size
  <2>3. size = Cardinality(C) => s \in Surjection(1 .. size, C)
      BY <1>1, <2>1, <2>2, FS_Injection
  <2> QED BY <2>3 DEF Surjection
<1>5. size <= n
    BY <1>1
<1> HIDE DEF size
<1>6. Len(s) = size /\ DOMAIN s = 1 .. size
    BY <1>1, <1>2
<1>7. ASSUME NEW t \in C PROVE Start(t) \in Nat
  <2>1. t \in Traces /\ traces[t] \in Bodies
      BY DEF StoredTraces, StoreOK, Inv, TypeOK
  <2> QED BY <2>1, ReadsAssumption DEF Start
<1>8. \A i \in DOMAIN s : /\ s[i] \in C /\ Start(s[i]) \in Nat
                          /\ RowsOf(s)[i].id = s[i]
                          /\ RowsOf(s)[i].startedAt = Iso(Start(s[i]))
    BY <1>2, <1>6, <1>7 DEF RowsOf
<1>9. DOMAIN RowsOf(s) = DOMAIN s
    BY <1>6 DEF RowsOf
<1>10. Falling(RowsOf(s))
  <2> SUFFICES ASSUME NEW i \in DOMAIN s, NEW j \in DOMAIN s, i < j
               PROVE  Follows(RowsOf(s)[i], RowsOf(s)[j])
      BY <1>9 DEF Falling
  <2>1. s[i] # s[j] /\ Start(s[i]) >= Start(s[j])
      BY <1>2, <1>6
  <2>2. Start(s[i]) \in Nat /\ Start(s[j]) \in Nat /\ Start(s[j]) <= Start(s[i])
      BY <1>8, <2>1
  <2>3. Iso(Start(s[j])) <= Iso(Start(s[i]))
      BY <2>2, Milliseconds
  <2> QED BY <1>8, <2>1, <2>3 DEF Follows
<1>11. ASSUME NEW t \in C
       PROVE  \/ \E i \in DOMAIN s : s[i] = t
              \/ Len(s) = n /\ \A i \in DOMAIN s : Start(t) <= Start(s[i])
  <2>1. CASE size < n
      BY <1>3, <1>4, <1>6, <2>1
  <2>2. CASE ~(size < n)
    <3>1. size = n
        BY <1>1, <1>5, <2>2
    <3>2. CASE t \in Elements(s)
        BY <3>2 DEF Elements
    <3>3. CASE t \notin Elements(s)
      <4>1. \A i \in DOMAIN s : Start(s[i]) >= Start(t)
          BY <1>2, <1>6, <3>3
      <4> QED BY <1>6, <1>7, <1>8, <3>1, <4>1
    <3> QED BY <3>2, <3>3
  <2> QED BY <2>1, <2>2
<1> QED BY <1>8, <1>9, <1>10, <1>11 DEF RowsFor

(* A row that is summarised changes places, and nothing else.               *)
LEMMA RowMoves ==
    ASSUME NEW done \in Seq(ListRow), NEW todo \in Seq(Row), todo # <<>>,
           NEW row \in ListRow, row.id = Head(todo).id, row.startedAt = Head(todo).startedAt
    PROVE  /\ Ids(Append(done, row), Tail(todo)) = Ids(done, todo)
           /\ Times(Append(done, row), Tail(todo)) = Times(done, todo)
           /\ Ordered(done, todo) => Ordered(Append(done, row), Tail(todo))
           /\ (\A i \in DOMAIN done : Dated(done[i])) /\ (\A i \in DOMAIN todo : Dated(todo[i])) =>
                /\ \A i \in DOMAIN Append(done, row) : Dated(Append(done, row)[i])
                /\ \A i \in DOMAIN Tail(todo) : Dated(Tail(todo)[i])
<1> DEFINE n    == Len(done)
           m    == Len(todo)
           more == Append(done, row)
           rest == Tail(todo)
<1>1. /\ n \in Nat /\ m \in Nat \ {0} /\ DOMAIN done = 1 .. n /\ DOMAIN todo = 1 .. m
      /\ DOMAIN more = 1 .. n + 1 /\ more[n + 1] = row
      /\ \A i \in 1 .. n : more[i] = done[i]
      /\ Head(todo) = todo[1] /\ 1 \in 1 .. m
    OBVIOUS
<1>2. Len(rest) = m - 1 /\ DOMAIN rest = 1 .. m - 1
    OBVIOUS
<1>3. \A i \in 1 .. m - 1 : rest[i] = todo[i + 1]
    OBVIOUS
<1>4. row.id = todo[1].id /\ row.startedAt = todo[1].startedAt
    BY <1>1
<1> HIDE DEF n, m, more, rest
<1>5. \A i \in 1 .. n + 1 : i \in 1 .. n \/ i = n + 1
    BY <1>1
<1>6. \A i \in 1 .. m : i = 1 \/ (i - 1 \in 1 .. m - 1 /\ todo[i] = rest[i - 1])
    BY <1>1, <1>3
<1>7. \A i \in 1 .. m - 1 : i + 1 \in 1 .. m /\ rest[i] = todo[i + 1]
    BY <1>1, <1>3
<1>8. n + 1 \in 1 .. n + 1 /\ \A i \in 1 .. n : i \in 1 .. n + 1
    BY <1>1
<1>9. Ids(more, rest) = Ids(done, todo)
  <2>1. {more[i].id : i \in DOMAIN more} = {done[i].id : i \in DOMAIN done} \cup {row.id}
      BY <1>1, <1>5, <1>8
  <2>2. {todo[i].id : i \in DOMAIN todo} = {rest[i].id : i \in DOMAIN rest} \cup {row.id}
    <3>1. \A i \in 1 .. m : todo[i].id = row.id \/ \E j \in 1 .. m - 1 : rest[j].id = todo[i].id
        BY <1>4, <1>6
    <3>2. \A j \in 1 .. m - 1 : \E i \in 1 .. m : todo[i].id = rest[j].id
        BY <1>7
    <3>3. \E i \in 1 .. m : todo[i].id = row.id
        BY <1>1, <1>4
    <3>4. ASSUME NEW x \in {todo[i].id : i \in 1 .. m}
          PROVE  x \in {rest[i].id : i \in 1 .. m - 1} \cup {row.id}
        BY <3>1
    <3>5. ASSUME NEW x \in {rest[i].id : i \in 1 .. m - 1} \cup {row.id}
          PROVE  x \in {todo[i].id : i \in 1 .. m}
        BY <3>2, <3>3
    <3> QED BY <1>1, <1>2, <3>4, <3>5
  <2> QED BY <2>1, <2>2 DEF Ids
<1>10. Times(more, rest) = Times(done, todo)
  <2>1. {more[i].startedAt : i \in DOMAIN more}
          = {done[i].startedAt : i \in DOMAIN done} \cup {row.startedAt}
      BY <1>1, <1>5, <1>8
  <2>2. {todo[i].startedAt : i \in DOMAIN todo}
          = {rest[i].startedAt : i \in DOMAIN rest} \cup {row.startedAt}
    <3>1. \A i \in 1 .. m :
            todo[i].startedAt = row.startedAt \/
            \E j \in 1 .. m - 1 : rest[j].startedAt = todo[i].startedAt
        BY <1>4, <1>6
    <3>2. \A j \in 1 .. m - 1 : \E i \in 1 .. m : todo[i].startedAt = rest[j].startedAt
        BY <1>7
    <3>3. \E i \in 1 .. m : todo[i].startedAt = row.startedAt
        BY <1>1, <1>4
    <3>4. ASSUME NEW x \in {todo[i].startedAt : i \in 1 .. m}
          PROVE  x \in {rest[i].startedAt : i \in 1 .. m - 1} \cup {row.startedAt}
        BY <3>1
    <3>5. ASSUME NEW x \in {rest[i].startedAt : i \in 1 .. m - 1} \cup {row.startedAt}
          PROVE  x \in {todo[i].startedAt : i \in 1 .. m}
        BY <3>2, <3>3
    <3> QED BY <1>1, <1>2, <3>4, <3>5
  <2> QED BY <2>1, <2>2 DEF Times
<1>11. ASSUME Ordered(done, todo) PROVE Ordered(more, rest)
  <2>1. ASSUME NEW i \in DOMAIN more, NEW j \in DOMAIN more, i < j
        PROVE  Follows(more[i], more[j])
    <3>1. i \in 1 .. n
        BY <1>1, <2>1
    <3>2. CASE j \in 1 .. n
        BY <1>1, <1>11, <2>1, <3>1, <3>2 DEF Ordered, Falling
    <3>3. CASE j = n + 1
      <4>1. Follows(done[i], todo[1])
          BY <1>1, <1>11, <3>1 DEF Ordered
      <4> QED BY <1>1, <1>4, <3>1, <3>3, <4>1 DEF Follows
    <3> QED BY <1>1, <1>5, <3>2, <3>3
  <2>2. ASSUME NEW i \in DOMAIN rest, NEW j \in DOMAIN rest, i < j
        PROVE  Follows(rest[i], rest[j])
    <3>1. i + 1 \in 1 .. m /\ j + 1 \in 1 .. m /\ i + 1 < j + 1
        BY <1>1, <1>2, <2>2
    <3>2. Follows(todo[i + 1], todo[j + 1])
        BY <1>1, <1>11, <3>1 DEF Ordered, Falling
    <3> QED BY <1>2, <1>7, <3>2
  <2>3. ASSUME NEW i \in DOMAIN more, NEW j \in DOMAIN rest
        PROVE  Follows(more[i], rest[j])
    <3>1. j + 1 \in 1 .. m /\ 1 < j + 1 /\ rest[j] = todo[j + 1]
        BY <1>1, <1>2, <1>7
    <3>2. CASE i \in 1 .. n
        BY <1>1, <1>11, <3>1, <3>2 DEF Ordered
    <3>3. CASE i = n + 1
      <4>1. Follows(todo[1], todo[j + 1])
          BY <1>1, <1>11, <3>1 DEF Ordered, Falling
      <4> QED BY <1>1, <1>4, <3>1, <3>3, <4>1 DEF Follows
    <3> QED BY <1>1, <1>5, <3>2, <3>3
  <2> QED BY <2>1, <2>2, <2>3 DEF Ordered, Falling
<1>12. ASSUME \A i \in DOMAIN done : Dated(done[i]), \A i \in DOMAIN todo : Dated(todo[i])
       PROVE  /\ \A i \in DOMAIN more : Dated(more[i])
              /\ \A i \in DOMAIN rest : Dated(rest[i])
  <2>1. Dated(row)
      BY <1>1, <1>4, <1>12 DEF Dated
  <2> QED BY <1>1, <1>2, <1>5, <1>7, <1>12, <2>1
<1> QED BY <1>9, <1>10, <1>11, <1>12 DEF more, rest

(* What a page adds keeps the walk in order, ...                            *)
LEMMA PageKeepsOrder ==
    ASSUME StoreOK, OneStartPerTrace, NEW r \in Read, r.limit \in Nat \ {0},
           NEW s \in Pages(Selected(r, StoredTraces, traces), r.limit),
           Falling(r.listed), \A i \in DOMAIN r.listed : Dated(r.listed[i]), Continues(r)
    PROVE  /\ Ordered(r.listed, RowsOf(s))
           /\ \A i \in DOMAIN RowsOf(s) : Dated(RowsOf(s)[i])
<1> DEFINE C == Selected(r, StoredTraces, traces)
           n == r.limit
<1>0. s \in Pages(C, n) /\ n \in Nat \ {0}
    OBVIOUS
<1>1. C \subseteq StoredTraces
    BY DEF Selected
<1>3. \A t \in C : /\ traces[t] \in Bodies /\ TraceOf[traces[t]] = t
                   /\ \A c \in r.before : Start(t) < c
    BY DEF Selected, StoredTraces, StoreOK, RowInv, Inv, TypeOK, Start
<1> HIDE DEF C, n
<1>2. /\ DOMAIN RowsOf(s) = DOMAIN s /\ Falling(RowsOf(s))
      /\ \A i \in DOMAIN s : /\ s[i] \in C /\ Start(s[i]) \in Nat
                             /\ RowsOf(s)[i].id = s[i]
                             /\ RowsOf(s)[i].startedAt = Iso(Start(s[i]))
  <2>1. RowsFor(RowsOf(s), s) /\ Falling(RowsOf(s))
      BY <1>0, <1>1, PageInOrder
  <2>2. \A i \in DOMAIN s : s[i] \in C /\ Start(s[i]) \in Nat
      BY <1>0, <1>1, PageInOrder
  <2> QED BY <2>1, <2>2 DEF RowsFor
<1>4. r.listed \in Seq(ListRow) /\ r.before \subseteq Int
    BY DEF Read
<1>5. \A i \in DOMAIN r.listed : r.listed[i].startedAt \in Int
  <2> DEFINE listed == r.listed
  <2>1. listed \in Seq(ListRow)
      BY <1>4
  <2> HIDE DEF listed
  <2>2. \A i \in DOMAIN listed : listed[i] \in ListRow
      BY <2>1
  <2>3. \A i \in DOMAIN listed : listed[i].startedAt \in Int
      BY <2>2 DEF ListRow
  <2> QED BY <2>3 DEF listed
<1>6. ASSUME NEW i \in DOMAIN r.listed, NEW j \in DOMAIN s
      PROVE  Follows(r.listed[i], RowsOf(s)[j])
  <2> DEFINE a == r.listed[i].startedAt
             b == Start(s[j])
  <2>1. s[j] \in C /\ b \in Nat /\ Iso(b) \in Int /\ Iso(b) <= b
      BY <1>2, Milliseconds
  <2>2. PICK c \in r.before : c <= a
      BY DEF Continues
  <2>3. b < c /\ a \in Int /\ c \in Int
      BY <1>3, <1>4, <1>5, <2>1
  <2> HIDE DEF a, b
  <2>4. Iso(b) < a /\ Iso(b) <= a
      BY <2>1, <2>2, <2>3
  <2>5. ASSUME r.listed[i].id = s[j] PROVE FALSE
    <3>1. PICK d \in Bodies : TraceOf[d] = r.listed[i].id /\ a = Iso(StartUs[d])
        BY DEF Dated, a
    <3>2. traces[s[j]] \in Bodies /\ TraceOf[traces[s[j]]] = s[j]
        BY <1>3, <2>1
    <3>3. StartUs[d] = b
        BY <2>5, <3>1, <3>2 DEF OneStartPerTrace, b, Start
    <3>4. a = Iso(b)
        BY <3>1, <3>3
    <3> QED BY <2>1, <2>3, <2>4, <3>4
  <2> QED BY <1>2, <2>4, <2>5 DEF Follows, a, b
<1>7. \A i \in DOMAIN s : Dated(RowsOf(s)[i])
    BY <1>2, <1>3 DEF Dated, Start
<1> QED BY <1>2, <1>6, <1>7 DEF Ordered

(* ... and leaves no trace out that is still stored.                        *)
LEMMA PageMeets ==
    ASSUME StoreOK, NEW r \in Read, r.limit \in Nat \ {0}, Continues(r),
           NEW s \in Pages(Selected(r, StoredTraces, traces), r.limit),
           NEW t \in StoredTraces, OrgOf[t] = r.org, ProjectOf[t] = r.project,
           \/ t \in Ids(r.listed, <<>>)
           \/ Iso(Start(t)) \in Times(r.listed, <<>>)
           \/ \A c \in r.before : Start(t) < c
    PROVE  \/ t \in Ids(r.listed, RowsOf(s))
           \/ Iso(Start(t)) \in Times(r.listed, RowsOf(s))
           \/ Len(s) = r.limit /\ \A x \in Times(r.listed, RowsOf(s)) : Start(t) < x
<1> DEFINE C    == Selected(r, StoredTraces, traces)
           n    == r.limit
           rows == RowsOf(s)
           us   == Start(t)
<1>0. s \in Pages(C, n) /\ n \in Nat \ {0} /\ C \subseteq StoredTraces
    BY DEF Selected
<1>1. /\ traces[t] \in Bodies /\ us \in Nat
    BY ReadsAssumption DEF StoredTraces, StoreOK, Inv, TypeOK, Start
<1>2. (\A c \in r.before : us < c) => t \in C
    BY DEF Selected, Start
<1>3. t \in Ids(r.listed, <<>>) => t \in Ids(r.listed, rows)
    BY DEF Ids
<1>4. Iso(us) \in Times(r.listed, <<>>) => Iso(us) \in Times(r.listed, rows)
    BY DEF Times
<1>5. r.listed \in Seq(ListRow) /\ r.before \subseteq Int
    BY DEF Read
<1>6. \A i \in DOMAIN r.listed : r.listed[i].startedAt \in Int
  <2> DEFINE listed == r.listed
  <2>1. listed \in Seq(ListRow)
      BY <1>5
  <2> HIDE DEF listed
  <2>2. \A i \in DOMAIN listed : listed[i] \in ListRow
      BY <2>1
  <2>3. \A i \in DOMAIN listed : listed[i].startedAt \in Int
      BY <2>2 DEF ListRow
  <2> QED BY <2>3 DEF listed
<1>7. ASSUME \A c \in r.before : us < c
      PROVE  \A i \in DOMAIN r.listed : us < r.listed[i].startedAt
  <2> SUFFICES ASSUME NEW i \in DOMAIN r.listed PROVE us < r.listed[i].startedAt
      OBVIOUS
  <2> DEFINE a == r.listed[i].startedAt
  <2>1. PICK c \in r.before : c <= a
      BY DEF Continues
  <2>2. us < c /\ c \in Int /\ a \in Int
      BY <1>5, <1>6, <1>7
  <2> HIDE DEF a, us
  <2>3. us < a
      BY <1>1, <2>1, <2>2
  <2> QED BY <2>3 DEF a
<1> HIDE DEF C, n, rows, us
<1>8. /\ RowsFor(rows, s)
      /\ \A i \in DOMAIN s : s[i] \in C /\ Start(s[i]) \in Nat
      /\ \A u \in C : \/ \E i \in DOMAIN s : s[i] = u
                      \/ Len(s) = n /\ \A i \in DOMAIN s : Start(u) <= Start(s[i])
    BY <1>0, PageInOrder DEF rows
<1>9. ASSUME \A c \in r.before : us < c, t \notin Ids(r.listed, rows),
             Iso(us) \notin Times(r.listed, rows)
      PROVE  Len(s) = n /\ \A x \in Times(r.listed, rows) : us < x
  <2>1. /\ DOMAIN rows = DOMAIN s
        /\ \A i \in DOMAIN s : rows[i].id = s[i] /\ rows[i].startedAt = Iso(Start(s[i]))
      BY <1>8 DEF RowsFor
  <2>2. ~ \E i \in DOMAIN s : s[i] = t
      BY <1>9, <2>1 DEF Ids
  <2>3. Len(s) = n /\ \A i \in DOMAIN s : us <= Start(s[i])
      BY <1>2, <1>8, <1>9, <2>2 DEF us
  <2>4. ASSUME NEW i \in DOMAIN s PROVE us < rows[i].startedAt
    <3> DEFINE b == Start(s[i])
    <3>1. us \in Nat /\ b \in Nat /\ us <= b /\ rows[i].startedAt = Iso(b)
        BY <1>1, <1>8, <2>1, <2>3
    <3>2. Iso(b) \in Times(r.listed, rows)
        BY <2>1 DEF Times
    <3>3. Iso(us) # Iso(b)
        BY <1>9, <3>2
    <3> HIDE DEF b
    <3>4. us < Iso(b)
        BY <3>1, <3>3, Milliseconds
    <3> QED BY <3>1, <3>4
  <2>5. \A x \in Times(r.listed, rows) : us < x
      BY <1>7, <1>9, <2>1, <2>4 DEF Times
  <2> QED BY <2>3, <2>5
<1> QED BY <1>3, <1>4, <1>9 DEF n, rows, us

(* What a step does to the walk: a request, ...                             *)
LEMMA AskWalks ==
    ASSUME StoreOK, ReadsInv, Ask
    PROVE  \A stored, tr : Walk(rd', stored, tr)
<1>1. PICK r \in Read : NewRequest(r) /\ Begin(r)
    BY AskBegins DEF ReadsInv
<1>2. rd' \in Read /\ rd' = [r EXCEPT !.asked = minute, !.must = rd'.must]
    BY <1>1, Begun DEF StoreOK, Inv
<1>3. /\ rd'.op = r.op /\ rd'.step = r.step /\ rd'.org = r.org /\ rd'.listed = r.listed
      /\ rd'.todo = r.todo /\ rd'.before = r.before
    BY <1>2 DEF Read
<1>4. CASE Refused(r)
  <2>1. rd'.org = NoOrg
      BY <1>3, <1>4 DEF Refused
  <2> QED BY <2>1 DEF Walk
<1>5. CASE Fresh(r) /\ r.op \in IdOps \cup LinkOps
  <2>1. rd'.op # "page"
      BY <1>3, <1>5 DEF IdOps, LinkOps
  <2> QED BY <2>1 DEF Walk
<1>6. CASE Fresh(r) /\ r.step = "rows"
  <2>1. rd'.step = "rows" /\ rd'.listed = <<>> /\ rd'.todo = <<>> /\ rd'.before = {}
      BY <1>3, <1>6 DEF Fresh
  <2>2. /\ \A i \in DOMAIN rd'.listed : FALSE
        /\ \A i \in DOMAIN rd'.todo : FALSE
      BY <2>1
  <2>3. Ordered(rd'.listed, rd'.todo) /\ Continues(rd')
      BY <2>2 DEF Ordered, Falling, Continues
  <2>4. \A t, us : Met(rd', t, us)
      BY <2>1 DEF Met
  <2> QED BY <2>1, <2>2, <2>3, <2>4 DEF Walk
<1> QED BY <1>1, <1>4, <1>5, <1>6 DEF NewRequest

(* ... a page, ...                                                          *)
LEMMA PageWalks ==
    ASSUME StoreOK, ReadsInv, WalkInv, OneStartPerTrace, listTraces
    PROVE  Walk(rd', steady, traces)
<1> DEFINE old == rd.listed
           new == rd'.todo
<1>1. /\ rd.step = "rows" /\ rd.op = "page" /\ rd.org \in Orgs /\ rd.limit \in 1 .. MaxLimit
      /\ rd' \in Read /\ Same(rd', rd) /\ rd'.listed = rd.listed
      /\ rd'.step \in {"answered", "summaries"}
      /\ (rd'.step = "answered" <=> rd'.todo = <<>>)
      /\ rd'.page = Len(rd'.todo)
      /\ \E s \in Pages(Selected(rd, StoredTraces, traces), rd.limit) : rd'.todo = RowsOf(s)
    BY PageSelected
<1>2. rd \in Read /\ rd.limit \in Nat \ {0}
  <2>1. rd \in Read
      BY DEF ReadsInv, ReadFacts
  <2>2. rd.limit \in Int
      BY <2>1 DEF Read
  <2> QED BY <1>1, <2>1, <2>2
<1>3. /\ rd'.op = "page" /\ rd'.org = rd.org /\ rd'.failed = rd.failed
      /\ rd'.project = rd.project /\ rd'.limit = rd.limit
    BY <1>1 DEF Same
<1> SUFFICES ASSUME rd'.org # NoOrg, ~rd'.failed PROVE Walk(rd', steady, traces)
    BY DEF Walk
<1>4. /\ rd.todo = <<>> /\ Ordered(rd.listed, rd.todo) /\ Continues(rd)
      /\ \A i \in DOMAIN rd.listed : Dated(rd.listed[i])
      /\ steady \subseteq StoredTraces
      /\ \A t \in steady : OrgOf[t] = rd.org /\ ProjectOf[t] = rd.project =>
           Met(rd, t, StartUs[traces[t]])
    BY <1>1, <1>3 DEF WalkInv, Walk
<1>5. PICK s \in Pages(Selected(rd, StoredTraces, traces), rd.limit) : rd'.todo = RowsOf(s)
    BY <1>1
<1>6. Falling(rd.listed)
    BY <1>4 DEF Ordered
<1>7. Ordered(rd.listed, RowsOf(s)) /\ \A i \in DOMAIN RowsOf(s) : Dated(RowsOf(s)[i])
    BY <1>2, <1>4, <1>6, PageKeepsOrder
<1>8. Len(s) = Len(RowsOf(s))
  <2> DEFINE C == Selected(rd, StoredTraces, traces)
             n == rd.limit
  <2>1. C \subseteq StoredTraces /\ s \in Pages(C, n) /\ n \in Nat \ {0}
      BY <1>2 DEF Selected
  <2> HIDE DEF C, n
  <2> QED BY <2>1, PageRows
<1>9. ASSUME NEW t \in steady, OrgOf[t] = rd.org, ProjectOf[t] = rd.project
      PROVE  Met(rd', t, StartUs[traces[t]])
  <2> DEFINE us == Start(t)
  <2>1. us = StartUs[traces[t]]
      BY DEF Start
  <2>2. \/ t \in Ids(rd.listed, <<>>)
        \/ Iso(us) \in Times(rd.listed, <<>>)
        \/ \A c \in rd.before : us < c
      BY <1>1, <1>4, <1>9, <2>1 DEF Met
  <2>3. t \in StoredTraces
      BY <1>4
  <2>4. \/ t \in Ids(rd.listed, RowsOf(s))
        \/ Iso(us) \in Times(rd.listed, RowsOf(s))
        \/ Len(s) = rd.limit /\ \A x \in Times(rd.listed, RowsOf(s)) : us < x
      BY <1>2, <1>4, <1>9, <2>2, <2>3, PageMeets
  <2> HIDE DEF us
  <2>5. rd'.page = Len(s) /\ rd'.step # "rows"
      BY <1>1, <1>5, <1>8
  <2>6. Met(rd', t, us)
      BY <1>1, <1>3, <1>5, <2>4, <2>5 DEF Met
  <2> QED BY <2>1, <2>6
<1>10. rd'.step # "summaries" => rd'.todo = <<>>
    BY <1>1
<1>11. rd'.step # "rows"
    BY <1>1
<1> QED BY <1>1, <1>3, <1>4, <1>5, <1>7, <1>9, <1>10, <1>11 DEF Walk

(* ... a summary, ...                                                       *)
LEMMA SummaryWalks ==
    ASSUME StoreOK, ReadsInv, WalkInv, SummariseRow
    PROVE  Walk(rd', steady, traces)
<1> DEFINE row == [id |-> Head(rd.todo).id, startedAt |-> Head(rd.todo).startedAt,
                   spanCount |-> Cardinality(SpansUnder(Head(rd.todo).id))]
<1>1. /\ rd.step = "summaries" /\ rd.op = "page" /\ rd \in Read /\ rd.todo # <<>>
      /\ rd' \in Read /\ Same(rd', rd) /\ rd'.page = rd.page
      /\ rd'.todo = Tail(rd.todo) /\ rd'.listed = Append(rd.listed, row)
      /\ rd'.step \in {"answered", "summaries"}
      /\ (rd'.step = "answered" <=> rd'.todo = <<>>)
    BY RowSummarised
<1>2. /\ rd'.op = "page" /\ rd'.org = rd.org /\ rd'.failed = rd.failed
      /\ rd'.project = rd.project /\ rd'.limit = rd.limit
    BY <1>1 DEF Same
<1> SUFFICES ASSUME rd'.org # NoOrg, ~rd'.failed PROVE Walk(rd', steady, traces)
    BY DEF Walk
<1>3. /\ Ordered(rd.listed, rd.todo)
      /\ \A i \in DOMAIN rd.listed : Dated(rd.listed[i])
      /\ \A i \in DOMAIN rd.todo : Dated(rd.todo[i])
      /\ \A t \in steady : OrgOf[t] = rd.org /\ ProjectOf[t] = rd.project =>
           Met(rd, t, StartUs[traces[t]])
    BY <1>1, <1>2 DEF WalkInv, Walk
<1>4. /\ rd.listed \in Seq(ListRow) /\ rd.todo \in Seq(Row)
    BY <1>1 DEF Read
<1>5. /\ row \in ListRow /\ row.id = Head(rd.todo).id
      /\ row.startedAt = Head(rd.todo).startedAt
    BY <1>1, <1>4, NextSummary
<1> HIDE DEF row
<1> DEFINE old  == rd.listed
           todo == rd.todo
<1>6. old \in Seq(ListRow) /\ todo \in Seq(Row) /\ todo # <<>>
    BY <1>1, <1>4
<1>7. /\ Ids(Append(old, row), Tail(todo)) = Ids(old, todo)
      /\ Times(Append(old, row), Tail(todo)) = Times(old, todo)
      /\ Ordered(Append(old, row), Tail(todo))
      /\ \A i \in DOMAIN Append(old, row) : Dated(Append(old, row)[i])
      /\ \A i \in DOMAIN Tail(todo) : Dated(Tail(todo)[i])
  <2>1. /\ Ordered(old, todo) /\ (\A i \in DOMAIN old : Dated(old[i]))
        /\ (\A i \in DOMAIN todo : Dated(todo[i]))
        /\ row.id = Head(todo).id /\ row.startedAt = Head(todo).startedAt
      BY <1>3, <1>5
  <2> HIDE DEF old, todo
  <2> QED BY <1>5, <1>6, <2>1, RowMoves
<1>8. /\ Ids(rd'.listed, rd'.todo) = Ids(rd.listed, rd.todo)
      /\ Times(rd'.listed, rd'.todo) = Times(rd.listed, rd.todo)
      /\ Ordered(rd'.listed, rd'.todo)
      /\ \A i \in DOMAIN rd'.listed : Dated(rd'.listed[i])
      /\ \A i \in DOMAIN rd'.todo : Dated(rd'.todo[i])
    BY <1>1, <1>7
<1>9. ASSUME NEW t \in steady, OrgOf[t] = rd.org, ProjectOf[t] = rd.project
      PROVE  Met(rd', t, StartUs[traces[t]])
    BY <1>1, <1>2, <1>3, <1>8, <1>9 DEF Met
<1>10. rd'.step # "summaries" => rd'.todo = <<>>
    BY <1>1
<1>11. rd'.step # "rows"
    BY <1>1
<1> QED BY <1>2, <1>8, <1>9, <1>10, <1>11 DEF Walk

(* ... and the question for the next page.                                  *)
LEMMA NextPageWalks ==
    ASSUME StoreOK, ReadsInv, WalkInv, NextPage
    PROVE  Walk(rd', steady, traces)
<1>1. /\ rd.step = "answered" /\ rd.op = "page" /\ rd.page = rd.limit
      /\ rd \in Read /\ Len(rd.listed) \in Nat \ {0}
      /\ rd' \in Read /\ Same(rd', rd) /\ rd'.step = "rows" /\ rd'.listed = rd.listed
      /\ rd'.todo = rd.todo /\ rd'.before = {rd.listed[Len(rd.listed)].startedAt}
    BY NextPageAsked
<1>2. /\ rd'.op = "page" /\ rd'.org = rd.org /\ rd'.failed = rd.failed
      /\ rd'.project = rd.project /\ rd'.limit = rd.limit
    BY <1>1 DEF Same
<1> SUFFICES ASSUME rd'.org # NoOrg, ~rd'.failed PROVE Walk(rd', steady, traces)
    BY DEF Walk
<1>3. /\ rd.todo = <<>> /\ Ordered(rd.listed, rd.todo)
      /\ \A i \in DOMAIN rd.listed : Dated(rd.listed[i])
      /\ \A i \in DOMAIN rd.todo : Dated(rd.todo[i])
      /\ \A t \in steady : OrgOf[t] = rd.org /\ ProjectOf[t] = rd.project =>
           Met(rd, t, StartUs[traces[t]])
    BY <1>1, <1>2 DEF WalkInv, Walk
<1> DEFINE n    == Len(rd.listed)
           last == rd.listed[n].startedAt
<1>4. DOMAIN rd.listed = 1 .. n /\ n \in Nat \ {0}
  <2> DEFINE listed == rd.listed
  <2>1. listed \in Seq(ListRow)
      BY <1>1 DEF Read
  <2> HIDE DEF listed
  <2>2. DOMAIN listed = 1 .. Len(listed)
      BY <2>1
  <2> QED BY <1>1, <2>2 DEF listed
<1>5. \A i \in DOMAIN rd.listed : rd.listed[i].startedAt \in Int
  <2> DEFINE listed == rd.listed
  <2>1. listed \in Seq(ListRow)
      BY <1>1 DEF Read
  <2> HIDE DEF listed
  <2>2. \A i \in DOMAIN listed : listed[i] \in ListRow
      BY <2>1
  <2>3. \A i \in DOMAIN listed : listed[i].startedAt \in Int
      BY <2>2 DEF ListRow
  <2> QED BY <2>3 DEF listed
<1> HIDE DEF n
<1>6. \A i \in DOMAIN rd.listed : last <= rd.listed[i].startedAt
  <2> SUFFICES ASSUME NEW i \in DOMAIN rd.listed PROVE last <= rd.listed[i].startedAt
      OBVIOUS
  <2>1. i \in 1 .. n /\ n \in DOMAIN rd.listed
      BY <1>4
  <2>2. CASE i = n
    <3> DEFINE a == rd.listed[n].startedAt
    <3>1. a \in Int
        BY <1>5, <2>1
    <3> HIDE DEF a
    <3>2. a <= a
        BY <3>1
    <3> QED BY <2>2, <3>2 DEF a
  <2>3. CASE i < n
      BY <1>3, <2>1, <2>3 DEF Ordered, Falling, Follows
  <2> QED BY <1>4, <2>1, <2>2, <2>3
<1>7. last \in Times(rd.listed, rd.todo)
    BY <1>4 DEF Times
<1> HIDE DEF last
<1>8. rd'.before = {last}
    BY <1>1 DEF last, n
<1>9. Continues(rd')
    BY <1>1, <1>6, <1>8 DEF Continues
<1>10. ASSUME NEW t \in steady, OrgOf[t] = rd.org, ProjectOf[t] = rd.project
       PROVE  Met(rd', t, StartUs[traces[t]])
    BY <1>1, <1>3, <1>7, <1>8, <1>10 DEF Met
<1> QED BY <1>1, <1>2, <1>3, <1>9, <1>10 DEF Walk

(* The reads of one trace are not part of a walk.                           *)
LEMMA OneTraceReads ==
    ASSUME ReadsInv,
           GetTrace \/ (\E ttl \in AskedTtls : Sign(ttl)) \/ ReadView \/ ReadSpans
    PROVE  rd'.op # "page"
<1>1. rd \in Read /\ rd.op \in IdOps \cup LinkOps
    BY DEF ReadsInv, ReadFacts, GetTrace, Sign, ReadView, ReadSpans, IdOps, LinkOps
<1>2. rd.op # "page"
    BY <1>1 DEF IdOps, LinkOps
<1>3. ASSUME NEW code \in Statuses, rd' = Answer(rd, code) PROVE rd'.op = rd.op
    BY <1>1, <1>3, AnswerSame DEF Same
<1>4. ASSUME NEW code \in Statuses, rd' = Refuse(rd, code) PROVE rd'.op = rd.op
    BY <1>1, <1>4, RefuseFacts
<1>5. ASSUME NEW step \in ReadSteps, rd' = [rd EXCEPT !.step = step] PROVE rd'.op = rd.op
    BY <1>1, <1>5, StepSame DEF Same
<1>6. CASE GetTrace
  <2>1. \/ \E code \in {404} : rd' = Answer(rd, code)
        \/ \E code \in {403, 404} : rd' = Refuse(rd, code)
        \/ \E step \in {"sign", "view"} : rd' = [rd EXCEPT !.step = step]
      BY <1>6 DEF GetTrace
  <2>2. {403, 404} \subseteq Statuses /\ {"sign", "view"} \subseteq ReadSteps
      BY DEF Statuses, ReadSteps
  <2> QED BY <1>2, <1>3, <1>4, <1>5, <2>1, <2>2
<1>7. ASSUME NEW ttl \in AskedTtls, Sign(ttl) PROVE rd'.op # "page"
  <2>1. rd' = Answer(rd, 201) /\ 201 \in Statuses
      BY <1>7 DEF Sign, Statuses
  <2> QED BY <1>2, <1>3, <2>1
<1>8. CASE ReadView
  <2>1. /\ rd' = Answer(rd, 200) \/ rd' = [rd EXCEPT !.step = "spans"]
        /\ 200 \in Statuses /\ "spans" \in ReadSteps
      BY <1>8 DEF ReadView, Statuses, ReadSteps
  <2> QED BY <1>2, <1>3, <1>5, <2>1
<1>9. CASE ReadSpans
  <2> DEFINE a == Answer(rd, 200)
             S == SpansUnder(rd.trace)
  <2>1. rd' = [a EXCEPT !.spans = S] /\ 200 \in Statuses
      BY <1>9 DEF ReadSpans, Statuses
  <2>2. a \in Read /\ a.op = rd.op
      BY <1>1, <2>1, AnswerSame DEF Same
  <2> HIDE DEF a, S
  <2>3. rd'.op = a.op
      BY <2>1, <2>2 DEF Read
  <2> QED BY <1>2, <2>2, <2>3
<1> QED BY <1>6, <1>7, <1>8, <1>9

(* A sweep of some traces leaves less to meet.                              *)
LEMMA WalkShrinks ==
    ASSUME NEW r, NEW stored, NEW tr, Walk(r, stored, tr), NEW fewer \in SUBSET stored, NEW now,
           \A t \in fewer : now[t] = tr[t]
    PROVE  Walk(r, fewer, now)
  BY DEF Walk

(* Nobody walks at first.                                                   *)
LEMMA WalkInvInit == ReadsInit => WalkInv
<1> SUFFICES ASSUME ReadsInit PROVE WalkInv
    OBVIOUS
<1>1. rd = Idle /\ steady = {}
    BY DEF ReadsInit
<1>2. rd.op = "none"
    BY <1>1 DEF Idle
<1> QED BY <1>1, <1>2 DEF WalkInv, Walk

(* An insert comes under a trace that was not there all the while; a sweep  *)
(* takes one that is met no more; a page goes on where the last one ended.  *)
LEMMA WalkInvStep ==
    ASSUME OneStartPerTrace, StoreOK, ReadsInv, WalkInv, [ReadsNext]_<<vars, readVars>>
    PROVE  WalkInv'
<1>1. CASE UNCHANGED <<vars, readVars>>
  <2>1. /\ rd' = rd /\ steady' = steady /\ traces' = traces
      BY <1>1 DEF vars, tables, readVars
  <2> QED BY <2>1 DEF WalkInv, StoredTraces
<1>2. CASE ReadsNext
  <2>1. steady' = IF rd'.op # "page" THEN {}
                  ELSE IF rd.op = "page" THEN steady \cap StoredTraces' ELSE StoredTraces'
      BY <1>2 DEF ReadsNext
  <2>2. steady' \subseteq StoredTraces'
      BY <2>1
  <2>3. SUFFICES Walk(rd', steady', traces')
      BY <2>2 DEF WalkInv
  <2>4. CASE WriteStep
    <3>1. rd' = rd /\ RowsKept
        BY <2>4, RowsKeptStep DEF WriteStep, StoreOK
    <3>2. CASE rd.op # "page"
        BY <3>1, <3>2 DEF Walk
    <3>3. CASE rd.op = "page"
      <4>1. steady' = steady \cap StoredTraces'
          BY <2>1, <3>1, <3>3
      <4>2. ASSUME NEW t \in steady' PROVE traces'[t] = traces[t]
        <5>1. t \in Traces /\ traces[t] # Absent /\ traces'[t] # Absent
            BY <4>1 DEF WalkInv, StoredTraces
        <5> QED BY <3>1, <5>1 DEF RowsKept
      <4>3. Walk(rd, steady, traces) /\ steady' \subseteq steady
          BY <4>1 DEF WalkInv
      <4>4. Walk(rd, steady', traces')
          BY <4>2, <4>3, WalkShrinks
      <4> QED BY <3>1, <4>4
    <3> QED BY <3>2, <3>3
  <2>5. CASE ReadStep /\ UNCHANGED vars
    <3>1. traces' = traces /\ StoredTraces' = StoredTraces
        BY <2>5 DEF vars, tables, StoredTraces
    <3>2. CASE Ask
        BY <3>2, AskWalks
    <3>3. ASSUME rd.op = "page", Walk(rd', steady, traces) PROVE Walk(rd', steady', traces')
      <4>1. steady' \subseteq steady
          BY <2>1, <3>3
      <4> QED BY <3>1, <3>3, <4>1, WalkShrinks
    <3>4. CASE listTraces
        BY <3>3, <3>4, PageWalks, PageSelected
    <3>5. CASE SummariseRow
        BY <3>3, <3>5, SummaryWalks, RowSummarised
    <3>6. CASE NextPage
        BY <3>3, <3>6, NextPageWalks, NextPageAsked
    <3>7. ASSUME rd'.op # "page" \/ rd'.org = NoOrg PROVE Walk(rd', steady', traces')
        BY <3>7 DEF Walk
    <3>8. CASE GetTrace \/ (\E ttl \in AskedTtls : Sign(ttl)) \/ ReadView \/ ReadSpans
        BY <3>7, <3>8, OneTraceReads
    <3>9. CASE listProjects
      <4>1. rd'.op = rd.op /\ rd.op = "projects"
          BY <3>9, ProjectsAnswer DEF Same, ReadsInv, ReadFacts
      <4> QED BY <3>7, <4>1
    <3>10. CASE ReadFails
      <4>1. rd'.org = NoOrg
          BY <3>10, ReadFailed DEF ReadsInv, ReadFacts
      <4> QED BY <3>7, <4>1
    <3>11. CASE Done
      <4>1. rd'.op = "none"
          BY <3>11 DEF Done, Idle
      <4> QED BY <3>7, <4>1
    <3> QED BY <2>5, <3>2, <3>4, <3>5, <3>6, <3>8, <3>9, <3>10, <3>11 DEF ReadStep, Ask
  <2> QED BY <1>2, <2>4, <2>5 DEF ReadsNext
<1> QED BY <1>1, <1>2

(* Someone who reads page after page to the last meets no trace twice, and  *)
(* every trace stored all the while but for those of a millisecond one of   *)
(* which is listed: whatever is written and swept between the pages.        *)
THEOREM PagesMeetEveryTrace ==
    ASSUME OneStartPerTrace
    PROVE  ReadsSpec => []PageWalkComplete
<1>1. ASSUME StoreOK, ReadsInv, WalkInv PROVE PageWalkComplete
  <2> DEFINE listed == rd.listed
             walked == {listed[i].id : i \in DOMAIN listed}
             times  == {listed[i].startedAt : i \in DOMAIN listed}
  <2> SUFFICES ASSUME Ended, rd.op = "page", rd.status = 200, ~rd.failed
               PROVE  /\ Cardinality(walked) = Len(listed)
                      /\ rd.page < rd.limit =>
                           \A t \in steady : OrgOf[t] = rd.org /\ ProjectOf[t] = rd.project =>
                             t \in walked \/ Iso(Start(t)) \in times
      BY DEF PageWalkComplete
  <2>1. rd \in Read /\ rd.org # NoOrg /\ rd.step = "answered"
      BY <1>1, ReadsAssumption DEF ReadsInv, ReadFacts, Ended
  <2>2. /\ rd.todo = <<>> /\ Ordered(listed, rd.todo)
        /\ \A t \in steady : OrgOf[t] = rd.org /\ ProjectOf[t] = rd.project =>
             Met(rd, t, Start(t))
      BY <1>1, <2>1 DEF WalkInv, Walk, Start
  <2>3. Ids(listed, rd.todo) = walked /\ Times(listed, rd.todo) = times
      BY <2>2 DEF Ids, Times
  <2>4. listed \in Seq(ListRow) /\ Falling(listed)
      BY <2>1, <2>2 DEF Read, Ordered
  <2>5. Cardinality(walked) = Len(listed)
    <3> HIDE DEF listed
    <3> DEFINE n == Len(listed)
               id == [i \in 1 .. n |-> listed[i].id]
    <3>1. n \in Nat /\ DOMAIN listed = 1 .. n
        BY <2>4
    <3> HIDE DEF n
    <3>2. id \in [1 .. n -> walked] /\ \A t \in walked : \E i \in 1 .. n : id[i] = t
        BY <3>1
    <3>3. ASSUME NEW i \in 1 .. n, NEW j \in 1 .. n, id[i] = id[j] PROVE i = j
      <4>1. listed[i].id = listed[j].id
          BY <3>3
      <4>2. CASE i < j
          BY <2>4, <3>1, <4>1, <4>2 DEF Falling, Follows
      <4>3. CASE j < i
          BY <2>4, <3>1, <4>1, <4>3 DEF Falling, Follows
      <4> QED BY <3>1, <4>2, <4>3
    <3>4. DOMAIN id = 1 .. n
        OBVIOUS
    <3> HIDE DEF id, walked
    <3>5. id \in Surjection(1 .. n, walked) /\ id \in Injection(1 .. n, walked)
        BY <3>2, <3>3, <3>4 DEF Surjection, Injection, IsInjective
    <3>6. IsFiniteSet(1 .. n) /\ Cardinality(1 .. n) = n
      <4>1. 1 \in Int /\ n \in Int
          BY <3>1
      <4>2. /\ IsFiniteSet(1 .. n)
            /\ Cardinality(1 .. n) = IF 1 > n THEN 0 ELSE n - 1 + 1
          BY <4>1, FS_Interval
      <4> QED BY <3>1, <4>2
    <3>7. Cardinality(walked) = Cardinality(1 .. n)
        BY <3>5, <3>6, FS_Surjection
    <3> QED BY <3>6, <3>7 DEF n
  <2>6. ASSUME rd.page < rd.limit, NEW t \in steady, OrgOf[t] = rd.org,
               ProjectOf[t] = rd.project
        PROVE  t \in walked \/ Iso(Start(t)) \in times
    <3>1. rd.page # rd.limit
      <4> DEFINE page == rd.page  limit == rd.limit
      <4>1. page \in Int /\ limit \in Int /\ page < limit
          BY <2>1, <2>6 DEF Read
      <4> HIDE DEF page, limit
      <4>2. page # limit
          BY <4>1
      <4> QED BY <4>2 DEF page, limit
    <3>2. Met(rd, t, Start(t))
        BY <2>2, <2>6
    <3> HIDE DEF walked, times
    <3> QED BY <2>1, <2>3, <3>1, <3>2 DEF Met
  <2> QED BY <2>5, <2>6
<1>2. ReadsSpec => []WalkInv
  <2>1. /\ ReadsInit => WalkInv
        /\ StoreOK /\ ReadsInv /\ WalkInv /\ [ReadsNext]_<<vars, readVars>> => WalkInv'
      BY WalkInvInit, WalkInvStep
  <2> QED BY <2>1, ReadsInvariant, PTL DEF ReadsSpec
<1> QED BY <1>1, <1>2, ReadsInvariant, PTL
=============================================================================
