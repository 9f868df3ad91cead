------------------------------- MODULE SdkTrace -------------------------------
(***************************************************************************)
(* The recording side of the iOS SDK: the EdgeProbe singleton (start,      *)
(* beginTrace, trace) and TraceHandle (span, end, deinit).  Spans of one   *)
(* handle run concurrently, end() may be called by several threads and     *)
(* while spans still run, and start() may come before, between or after    *)
(* all of it.  An atomic step is one critical section: startLock.sync, or  *)
(* a stretch under TraceHandle.lock.                                       *)
(*                                                                         *)
(* Time is the monotonic clock; Second is the ticks of a second, so that a *)
(* tick stands for the millisecond in which a duration is reported.  What  *)
(* a payload goes through after export() is SdkExport's subject.           *)
(***************************************************************************)
EXTENDS Integers, Sequences, FiniteSets

CONSTANTS
    Handles,      \* TraceHandles the app creates
    SpanIds,      \* spans the app measures, under a handle or alone
    Configs,      \* (apiKey, orgId, projectId) the app calls start with
    Unset,        \* the defaults before start
    Solo,         \* the home of a span measured by EdgeProbe.trace
    Second,       \* clock ticks in a second
    MaxClock,     \* bound: the clock
    MaxStarts     \* bound: calls of start

ASSUME ClockAssumption ==
    /\ Second \in Nat \ {0} /\ MaxClock \in Nat /\ MaxStarts \in Nat
    /\ Unset \notin Configs /\ Solo \notin Handles

VARIABLES
    isStarted, config,    \* EdgeProbe._isStarted; its apiKey, orgId, projectId
    exporter,             \* EdgeProbe._exporter: the config it was built for
    clock,
    phase,                \* each handle: unborn, live, or gone (deallocated)
    captured,             \* its exporter, taken by beginTrace
    ended, spans,         \* TraceHandle.ended and .spans
    exporting,            \* payloads of end() calls on their way to export()
    span,                 \* each span: [state, home, since, optIn, text]
    sent,                 \* payloads given to an exporter, in order
    (* History. *)
    starts, firstStart,   \* calls of start, and the config of the first
    finished              \* spans closed under a handle before it ended

startVars  == <<isStarted, config, exporter, starts, firstStart>>
handleVars == <<phase, captured, ended, spans, exporting, finished>>
vars == <<startVars, handleVars, clock, span, sent>>

Clock  == 0 .. MaxClock
Homes  == Handles \cup {Solo}
Record == [id : SpanIds, status : {"ok", "error"}, durationMs : Clock,
           text : BOOLEAN, took : Clock]
Fresh  == [state |-> "new", home |-> Solo, since |-> 0,
           optIn |-> FALSE, text |-> FALSE]

Init ==
    /\ isStarted = FALSE /\ config = Unset /\ exporter = Unset
    /\ clock = 0
    /\ phase = [h \in Handles |-> "unborn"]
    /\ captured = [h \in Handles |-> Unset]
    /\ ended = [h \in Handles |-> FALSE]
    /\ spans = [h \in Handles |-> <<>>]
    /\ exporting = {}
    /\ span = [s \in SpanIds |-> Fresh]
    /\ sent = <<>>
    /\ starts = 0 /\ firstStart = Unset
    /\ finished = [h \in Handles |-> <<>>]

-----------------------------------------------------------------------------
(* EdgeProbe.                                                               *)

(* start: the first call configures the SDK, any other is ignored.  Without *)
(* an endpoint (dry run) there is no exporter.                              *)
start(c, hasEndpoint) ==
    /\ starts < MaxStarts
    /\ starts' = starts + 1
    /\ IF isStarted
       THEN UNCHANGED <<isStarted, config, exporter, firstStart>>
       ELSE /\ isStarted' = TRUE
            /\ config' = c
            /\ exporter' = IF hasEndpoint THEN c ELSE exporter
            /\ firstStart' = IF starts = 0 THEN c ELSE firstStart
    /\ UNCHANGED <<handleVars, clock, span, sent>>

(* beginTrace: the exporter and ids are read once, under startLock.         *)
beginTrace(h) ==
    /\ phase[h] = "unborn"
    /\ phase' = [phase EXCEPT ![h] = "live"]
    /\ captured' = [captured EXCEPT ![h] = exporter]
    /\ UNCHANGED <<startVars, ended, spans, exporting, finished, clock, span, sent>>

-----------------------------------------------------------------------------
(* Spans.                                                                   *)

(* span(...) { or trace(...) {: the block starts.  The app holds the handle *)
(* while one of its spans runs.                                             *)
OpenSpan(s, home, optIn) ==
    /\ span[s].state = "new"
    /\ home \in Handles => phase[home] = "live"
    /\ span' = [span EXCEPT ![s] = [state |-> "open", home |-> home,
                                    since |-> clock, optIn |-> optIn,
                                    text |-> FALSE]]
    /\ UNCHANGED <<startVars, handleVars, clock, sent>>

(* The block, or whoever got hold of its SpanReporter, stores content; this *)
(* may happen after the span has closed.  trace() has no reporter.          *)
Report(s) ==
    /\ span[s].state \in {"open", "closed"} /\ span[s].home # Solo
    /\ span' = [span EXCEPT ![s].text = TRUE]
    /\ UNCHANGED <<startVars, handleVars, clock, sent>>

(* durationMs: Duration.components.attoseconds is only the part below one   *)
(* second, the whole seconds are in components.seconds.                     *)
durationMs(elapsed) == elapsed % Second

recordSpan_IgnoresOptIn(s, status) ==         \* faulty: always keeps content
    [id |-> s, status |-> status, durationMs |-> durationMs(clock - span[s].since),
     text |-> span[s].text, took |-> clock - span[s].since]
(* recordSpan: what is frozen of the span when its block returns or throws. *)
recordSpan(s, status) ==
    [id |-> s, status |-> status, durationMs |-> durationMs(clock - span[s].since),
     text |-> span[s].optIn /\ span[s].text, took |-> clock - span[s].since]

(* A block under a handle returns or throws; the deferred recordSpan        *)
(* appends, whether or not the handle has ended meanwhile.                  *)
CloseSpan(s, status) ==
    LET h == span[s].home
        r == recordSpan(s, status)
    IN  /\ span[s].state = "open" /\ h \in Handles
        /\ span' = [span EXCEPT ![s].state = "closed"]
        /\ spans' = [spans EXCEPT ![h] = Append(@, r)]
        /\ finished' = IF ended[h] THEN finished
                       ELSE [finished EXCEPT ![h] = Append(@, r)]
        /\ UNCHANGED <<startVars, phase, captured, ended, exporting, clock, sent>>

CloseSolo_NoGuard(s, status) ==           \* faulty: exports in a dry run too
    /\ span[s].state = "open" /\ span[s].home = Solo
    /\ span' = [span EXCEPT ![s].state = "closed"]
    /\ sent' = Append(sent, [home |-> Solo, to |-> exporter,
                             spans |-> <<recordSpan(s, status)>>])
    /\ UNCHANGED <<startVars, handleVars, clock>>
(* A block of trace() ends: it exports through the exporter of that moment. *)
CloseSolo(s, status) ==
    /\ span[s].state = "open" /\ span[s].home = Solo
    /\ span' = [span EXCEPT ![s].state = "closed"]
    /\ sent' = IF exporter = Unset THEN sent
               ELSE Append(sent, [home |-> Solo, to |-> exporter,
                                  spans |-> <<recordSpan(s, status)>>])
    /\ UNCHANGED <<startVars, handleVars, clock>>

-----------------------------------------------------------------------------
(* end() and deinit.                                                        *)

Payload(h) == [home |-> h, to |-> captured[h], spans |-> spans[h]]

(* Faulty: end() does not check whether the handle has ended.               *)
end_NotOnce(h) ==
    /\ phase[h] = "live"
    /\ ended' = [ended EXCEPT ![h] = TRUE]
    /\ exporting' = exporting \cup {Payload(h)}
    /\ UNCHANGED <<startVars, phase, captured, spans, finished, clock, span, sent>>

(* end(), its critical section: test and set `ended`, snapshot the spans.   *)
(* A second call returns here.                                              *)
end(h) ==
    /\ phase[h] = "live"
    /\ ~ended[h]
    /\ ended' = [ended EXCEPT ![h] = TRUE]
    /\ exporting' = exporting \cup {Payload(h)}
    /\ UNCHANGED <<startVars, phase, captured, spans, finished, clock, span, sent>>

(* Faulty: the spans are read after the lock was released.                  *)
Export_ReadsLate(p) ==
    /\ p \in exporting
    /\ exporting' = exporting \ {p}
    /\ sent' = IF p.to = Unset THEN sent ELSE Append(sent, Payload(p.home))
    /\ UNCHANGED <<startVars, phase, captured, ended, spans, finished, clock, span>>

(* ... and the rest of end(), outside the lock: exporter.export, unless the *)
(* handle was begun without one.                                            *)
Export(p) ==
    /\ p \in exporting
    /\ exporting' = exporting \ {p}
    /\ sent' = IF p.to = Unset THEN sent ELSE Append(sent, p)
    /\ UNCHANGED <<startVars, phase, captured, ended, spans, finished, clock, span>>

Unused(h) ==
    /\ phase[h] = "live"
    /\ \A s \in SpanIds : ~(span[s].state = "open" /\ span[s].home = h)
    /\ \A p \in exporting : p.home # h

(* The last reference goes away: deinit ends the handle if nobody has.      *)
deinit(h) ==
    /\ Unused(h)
    /\ phase' = [phase EXCEPT ![h] = "gone"]
    /\ ended' = [ended EXCEPT ![h] = TRUE]
    /\ sent' = IF ended[h] \/ captured[h] = Unset THEN sent
               ELSE Append(sent, Payload(h))
    /\ UNCHANGED <<startVars, captured, spans, exporting, finished, clock, span>>

Tick ==
    /\ clock < MaxClock
    /\ clock' = clock + 1
    /\ UNCHANGED <<startVars, handleVars, span, sent>>

Next ==
    \/ \E c \in Configs, hasEndpoint \in BOOLEAN : start(c, hasEndpoint)
    \/ \E h \in Handles : beginTrace(h) \/ end(h) \/ deinit(h)
    \/ \E p \in exporting : Export(p)
    \/ \E s \in SpanIds :
         \/ \E home \in Homes, optIn \in BOOLEAN : OpenSpan(s, home, optIn)
         \/ Report(s)
         \/ \E status \in {"ok", "error"} : CloseSpan(s, status) \/ CloseSolo(s, status)
    \/ Tick

Spec == Init /\ [][Next]_vars

-----------------------------------------------------------------------------
(* Properties.                                                              *)

(* Every variable has its type.                                             *)
TypeOK ==
    /\ isStarted \in BOOLEAN
    /\ config \in Configs \cup {Unset} /\ exporter \in Configs \cup {Unset}
    /\ clock \in Clock
    /\ phase \in [Handles -> {"unborn", "live", "gone"}]
    /\ captured \in [Handles -> Configs \cup {Unset}]
    /\ ended \in [Handles -> BOOLEAN]
    /\ spans \in [Handles -> Seq(Record)]
    /\ \A p \in exporting : p.home \in Handles /\ p.spans \in Seq(Record)
    /\ \A s \in SpanIds : /\ span[s].state \in {"new", "open", "closed"}
                          /\ span[s].home \in Homes /\ span[s].since \in Clock
    /\ \A i \in 1 .. Len(sent) : sent[i].home \in Homes /\ sent[i].to \in Configs
    /\ starts \in 0 .. MaxStarts

(* The payloads of handle h that are at, or on their way to, an exporter.   *)
SentFor(h)      == {i \in 1 .. Len(sent) : sent[i].home = h}
ExportingFor(h) == {p \in exporting : p.home = h}

(* One POST per trace: however many threads call end(), and although it may *)
(* never have been called when the last reference goes away, a handle that  *)
(* has an exporter yields exactly one payload once it has ended or is gone, *)
(* and none before.                                                         *)
OnePayloadPerTrace ==
    \A h \in Handles :
        Cardinality(SentFor(h)) + Cardinality(ExportingFor(h)) =
            IF /\ ended[h] \/ phase[h] = "gone"
               /\ captured[h] # Unset \/ ExportingFor(h) # {}
            THEN 1 ELSE 0

(* The payload of a handle holds exactly the spans that had finished when   *)
(* it ended, thrown ones included, each once and in the order they closed,  *)
(* however long the export is delayed and whatever closes meanwhile; and    *)
(* all that is ever exported goes to where the first start() said.          *)
PayloadIsSnapshot ==
    /\ \A h \in Handles :
         /\ \A i \in SentFor(h) : sent[i].spans = finished[h]
         /\ \A p \in ExportingFor(h) : p.spans = finished[h]
    /\ \A i \in 1 .. Len(sent) : sent[i].to = firstStart

(* Content leaves the process only with the opt-in of that very call, even  *)
(* when a reporter outlives its span.                                       *)
ContentOnlyOptIn ==
    \A i \in 1 .. Len(sent) : \A j \in 1 .. Len(sent[i].spans) :
        sent[i].spans[j].text => span[sent[i].spans[j].id].optIn

-----------------------------------------------------------------------------
(* What the documentation says of the SDK and the code does not do.         *)

(* EdgeProbe.trace: "The span's duration ... get captured and eventually    *)
(* exported".                                                               *)
DurationIsCaptured ==
    \A i \in 1 .. Len(sent) : \A j \in 1 .. Len(sent[i].spans) :
        sent[i].spans[j].durationMs = sent[i].spans[j].took
=============================================================================
