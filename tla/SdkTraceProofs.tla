---------------------------- MODULE SdkTraceProofs ----------------------------
(***************************************************************************)
(* The recording side of the SDK, for any number of handles, spans,        *)
(* threads that call end(), configurations and calls of start().           *)
(***************************************************************************)
EXTENDS SdkTrace, SequenceTheorems, FiniteSetTheorems, TLAPS

Delivered == [home : Homes, to : Configs, spans : Seq(Record)]
Measured  == [state : {"new", "open", "closed"}, home : Homes, since : Clock,
              optIn : BOOLEAN, text : BOOLEAN]

(* Types, with what TypeOK leaves out; no span begins in the future.        *)
Typed ==
    /\ isStarted \in BOOLEAN
    /\ {config, exporter, firstStart} \subseteq Configs \cup {Unset}
    /\ starts \in 0 .. MaxStarts
    /\ clock \in Clock
    /\ phase \in [Handles -> {"unborn", "live", "gone"}]
    /\ captured \in [Handles -> Configs \cup {Unset}]
    /\ ended \in [Handles -> BOOLEAN]
    /\ spans \in [Handles -> Seq(Record)]
    /\ finished \in [Handles -> Seq(Record)]
    /\ exporting \subseteq [home : Handles, to : Configs \cup {Unset}, spans : Seq(Record)]
    /\ span \in [SpanIds -> Measured]
    /\ \A s \in SpanIds : span[s].since <= clock
    /\ sent \in Seq(Delivered)

(* Whoever has an exporter has that of the first start().                   *)
OneConfig ==
    /\ isStarted <=> starts # 0
    /\ ~isStarted => firstStart = Unset
    /\ exporter \in {Unset, firstStart}
    /\ \A h \in Handles : captured[h] \in {Unset, firstStart}
    /\ \A i \in 1 .. Len(sent) : sent[i].to = firstStart

(* The one payload of a handle: none before it ends, which is the last time *)
(* that its spans are those that had finished; then a snapshot of these     *)
(* waits for export, while the handle lives; then, if there was an exporter *)
(* to give it to, it is sent.                                               *)
Snapshot(h) == [home |-> h, to |-> captured[h], spans |-> finished[h]]
Delivery(h) ==
    /\ phase[h] = "unborn" => ~ended[h]
    /\ phase[h] = "gone" => ended[h]
    /\ ~ended[h] => spans[h] = finished[h]
    /\ \A p \in ExportingFor(h) : /\ p = Snapshot(h)
                                  /\ ended[h] /\ phase[h] = "live" /\ SentFor(h) = {}
    /\ \A i \in SentFor(h) : /\ ended[h] /\ captured[h] # Unset
                             /\ sent[i].spans = finished[h]
                             /\ SentFor(h) = {i}
    /\ ended[h] /\ captured[h] # Unset => SentFor(h) # {} \/ ExportingFor(h) # {}

(* A record with content is of a call that opted in, which it cannot undo.  *)
Consented(measured, r) == r.text => measured[r.id].optIn /\ measured[r.id].state # "new"
Content ==
    /\ \A h \in Handles : \A j \in 1 .. Len(finished[h]) : Consented(span, finished[h][j])
    /\ \A i \in 1 .. Len(sent) : \A j \in 1 .. Len(sent[i].spans) :
         Consented(span, sent[i].spans[j])

TraceInv == Typed /\ OneConfig /\ (\A h \in Handles : Delivery(h)) /\ Content

-----------------------------------------------------------------------------
(* What durationMs keeps of an interval is within it.                       *)
LEMMA DurationWithin ==
    ASSUME NEW elapsed \in Nat
    PROVE  durationMs(elapsed) \in 0 .. elapsed
<1>1. Second \in Nat \ {0}
    BY ClockAssumption
<1>2. elapsed % Second \in 0 .. (Second - 1) /\ elapsed % Second <= elapsed
    BY <1>1
<1> QED BY <1>1, <1>2 DEF durationMs

(* What recordSpan freezes is a record, with content only of an opt-in.     *)
LEMMA RecordSpanTyped ==
    ASSUME Typed, NEW s \in SpanIds, NEW status \in {"ok", "error"}
    PROVE  /\ recordSpan(s, status) \in Record
           /\ recordSpan(s, status).id = s
           /\ recordSpan(s, status).text => span[s].optIn
<1>1. /\ span[s] \in Measured /\ clock \in Clock /\ span[s].since <= clock
    BY DEF Typed
<1>2. /\ span[s].since \in Clock /\ span[s].optIn \in BOOLEAN /\ span[s].text \in BOOLEAN
    BY <1>1 DEF Measured
<1>3. clock - span[s].since \in Nat /\ 0 .. (clock - span[s].since) \subseteq Clock
    BY <1>1, <1>2, ClockAssumption DEF Clock
<1>4. durationMs(clock - span[s].since) \in Clock /\ clock - span[s].since \in Clock
    BY <1>3, DurationWithin
<1> QED BY <1>2, <1>4 DEF recordSpan, Record

(* A payload given to an exporter comes after those before it, and counts   *)
(* for its own handle only.                                                 *)
LEMMA SentOneMore ==
    ASSUME sent \in Seq(Delivered), NEW p \in Delivered, sent' = Append(sent, p)
    PROVE  /\ sent' \in Seq(Delivered)
           /\ 1 .. Len(sent') = 1 .. Len(sent) \cup {Len(sent) + 1}
           /\ Len(sent) + 1 \notin 1 .. Len(sent)
           /\ \A i \in 1 .. Len(sent) : sent'[i] = sent[i]
           /\ sent'[Len(sent) + 1] = p
           /\ \A h \in Handles :
                SentFor(h)' = IF p.home = h THEN SentFor(h) \cup {Len(sent) + 1}
                                            ELSE SentFor(h)
<1>1. /\ Append(sent, p) \in Seq(Delivered) /\ Len(sent) \in Nat
      /\ Len(Append(sent, p)) = Len(sent) + 1
      /\ \A i \in 1 .. Len(sent) : Append(sent, p)[i] = sent[i]
      /\ Append(sent, p)[Len(sent) + 1] = p
    BY AppendProperties
<1>2. /\ 1 .. Len(sent') = 1 .. Len(sent) \cup {Len(sent) + 1}
      /\ Len(sent) + 1 \notin 1 .. Len(sent)
    BY <1>1
<1>3. /\ \A i \in 1 .. Len(sent) : sent'[i] = sent[i]
      /\ sent'[Len(sent) + 1] = p
    BY <1>1
<1>4. ASSUME NEW h \in Handles
      PROVE  SentFor(h)' = IF p.home = h THEN SentFor(h) \cup {Len(sent) + 1}
                                         ELSE SentFor(h)
  <2>1. SentFor(h)' = {i \in 1 .. Len(sent) \cup {Len(sent) + 1} : sent'[i].home = h}
      BY <1>2 DEF SentFor
  <2> QED BY <1>3, <2>1 DEF SentFor
<1> QED BY <1>1, <1>2, <1>3, <1>4

-----------------------------------------------------------------------------
(* Every step keeps the types.                                              *)
LEMMA TypedStep ==
    ASSUME Typed, OneConfig, [Next]_vars
    PROVE  Typed'
<1> USE DEF Typed
<1>1. CASE UNCHANGED vars
    BY <1>1 DEF vars, startVars, handleVars
<1>2. ASSUME NEW c \in Configs, NEW hasEndpoint \in BOOLEAN, start(c, hasEndpoint)
      PROVE  Typed'
  <2>1. UNCHANGED <<handleVars, clock, span, sent>>
      BY <1>2 DEF start
  <2>2. starts' \in 0 .. MaxStarts
      BY <1>2, ClockAssumption DEF start
  <2>4. isStarted' \in BOOLEAN
      BY <1>2 DEF start
  <2>3. {config', exporter', firstStart'} \subseteq Configs \cup {Unset}
      BY <1>2 DEF start
  <2> QED BY <2>1, <2>2, <2>3, <2>4 DEF handleVars
<1>3. ASSUME NEW h \in Handles, beginTrace(h) PROVE Typed'
    BY <1>3 DEF beginTrace, startVars
<1>4. ASSUME NEW h \in Handles, end(h) PROVE Typed'
  <2>1. Payload(h) \in [home : Handles, to : Configs \cup {Unset}, spans : Seq(Record)]
      BY DEF Payload
  <2>2. ended' \in [Handles -> BOOLEAN] /\ exporting' = exporting \cup {Payload(h)}
      BY <1>4 DEF end
  <2>3. UNCHANGED <<startVars, phase, captured, spans, finished, clock, span, sent>>
      BY <1>4 DEF end
  <2> QED BY <2>1, <2>2, <2>3 DEF startVars
<1>5. ASSUME NEW h \in Handles, deinit(h) PROVE Typed'
  <2>1. /\ phase' \in [Handles -> {"unborn", "live", "gone"}]
        /\ ended' \in [Handles -> BOOLEAN]
        /\ UNCHANGED <<startVars, captured, spans, exporting, finished, clock, span>>
      BY <1>5 DEF deinit
  <2>2. captured[h] # Unset => Payload(h) \in Delivered
      BY DEF Payload, Delivered, Homes
  <2>3. sent' \in Seq(Delivered)
      BY <1>5, <2>2, SentOneMore DEF deinit
  <2> QED BY <2>1, <2>3 DEF startVars
<1>6. ASSUME NEW p \in exporting, Export(p) PROVE Typed'
  <2>1. /\ exporting' \subseteq exporting
        /\ UNCHANGED <<startVars, phase, captured, ended, spans, finished, clock, span>>
      BY <1>6 DEF Export
  <2>2. p.to # Unset => p \in Delivered
      BY DEF Delivered, Homes
  <2>3. sent' \in Seq(Delivered)
      BY <1>6, <2>2, SentOneMore DEF Export
  <2> QED BY <2>1, <2>3 DEF startVars
<1>7. ASSUME NEW s \in SpanIds, NEW home \in Homes, NEW optIn \in BOOLEAN,
             OpenSpan(s, home, optIn)
      PROVE  Typed'
  <2> DEFINE new == [state |-> "open", home |-> home, since |-> clock, optIn |-> optIn,
                     text |-> FALSE]
  <2>1. new \in Measured /\ new.since = clock
      BY DEF Measured
  <2>2. span' = [span EXCEPT ![s] = new] /\ UNCHANGED <<startVars, handleVars, clock, sent>>
      BY <1>7 DEF OpenSpan
  <2> HIDE DEF new
  <2>3. span' \in [SpanIds -> Measured]
      BY <2>1, <2>2
  <2>4. \A x \in SpanIds : span'[x].since <= clock
      BY <2>1, <2>2 DEF Clock
  <2> QED BY <2>2, <2>3, <2>4 DEF startVars, handleVars
<1>8. ASSUME NEW s \in SpanIds, NEW new \in Measured, new.since = span[s].since,
             span' = [span EXCEPT ![s] = new]
      PROVE  span' \in [SpanIds -> Measured] /\ \A x \in SpanIds : span'[x].since <= clock
    BY <1>8
<1>9. ASSUME NEW s \in SpanIds, Report(s) PROVE Typed'
  <2> DEFINE new == [span[s] EXCEPT !.text = TRUE]
  <2>1. span' = [span EXCEPT ![s] = new] /\ UNCHANGED <<startVars, handleVars, clock, sent>>
      BY <1>9 DEF Report
  <2>2. span[s] \in Measured
      OBVIOUS
  <2>3. new \in Measured /\ new.since = span[s].since
      BY <2>2 DEF Measured
  <2> HIDE DEF new
  <2> QED BY <1>8, <2>1, <2>3 DEF startVars, handleVars
<1>10. ASSUME NEW s \in SpanIds, NEW status \in {"ok", "error"}, CloseSpan(s, status)
       PROVE  Typed'
  <2> DEFINE new == [span[s] EXCEPT !.state = "closed"]
             h   == span[s].home
             r   == recordSpan(s, status)
  <2>1. /\ span' = [span EXCEPT ![s] = new] /\ h \in Handles
        /\ spans' = [spans EXCEPT ![h] = Append(@, r)]
        /\ finished' = IF ended[h] THEN finished ELSE [finished EXCEPT ![h] = Append(@, r)]
        /\ UNCHANGED <<startVars, phase, captured, ended, exporting, clock, sent>>
      BY <1>10 DEF CloseSpan
  <2>2. span[s] \in Measured
      OBVIOUS
  <2>3. new \in Measured /\ new.since = span[s].since
      BY <2>2 DEF Measured
  <2>4. r \in Record
      BY RecordSpanTyped
  <2> HIDE DEF new, r, h
  <2>5. Append(spans[h], r) \in Seq(Record) /\ Append(finished[h], r) \in Seq(Record)
      BY <2>1, <2>4, AppendProperties
  <2>6. spans' \in [Handles -> Seq(Record)] /\ finished' \in [Handles -> Seq(Record)]
      BY <2>1, <2>5
  <2> QED BY <1>8, <2>1, <2>3, <2>6 DEF startVars
<1>11. ASSUME NEW s \in SpanIds, NEW status \in {"ok", "error"}, CloseSolo(s, status)
       PROVE  Typed'
  <2> DEFINE new == [span[s] EXCEPT !.state = "closed"]
             r   == recordSpan(s, status)
             p   == [home |-> Solo, to |-> exporter, spans |-> <<r>>]
  <2>1. /\ span' = [span EXCEPT ![s] = new]
        /\ sent' = IF exporter = Unset THEN sent ELSE Append(sent, p)
        /\ UNCHANGED <<startVars, handleVars, clock>>
      BY <1>11 DEF CloseSolo
  <2>2. span[s] \in Measured
      OBVIOUS
  <2>3. new \in Measured /\ new.since = span[s].since
      BY <2>2 DEF Measured
  <2>4. r \in Record
      BY RecordSpanTyped
  <2> HIDE DEF new, r
  <2>5. exporter # Unset => p \in Delivered
      BY <2>4 DEF Delivered, Homes
  <2> HIDE DEF p
  <2>6. sent' \in Seq(Delivered)
      BY <2>1, <2>5, SentOneMore
  <2> QED BY <1>8, <2>1, <2>3, <2>6 DEF startVars, handleVars
<1>12. CASE Tick
  <2>1. /\ clock' = clock + 1 /\ clock' \in Clock
        /\ UNCHANGED <<startVars, handleVars, span, sent>>
      BY <1>12, ClockAssumption DEF Tick, Clock
  <2>2. \A s \in SpanIds : span[s].since <= clock'
    <3> SUFFICES ASSUME NEW s \in SpanIds PROVE span[s].since <= clock'
        OBVIOUS
    <3>1. span[s] \in Measured /\ span[s].since <= clock
        OBVIOUS
    <3>2. span[s].since \in Clock
        BY <3>1 DEF Measured
    <3> QED BY <2>1, <3>1, <3>2 DEF Clock
  <2> QED BY <2>1, <2>2 DEF startVars, handleVars
<1> QED BY <1>1, <1>2, <1>3, <1>4, <1>5, <1>6, <1>7, <1>9, <1>10, <1>11, <1>12 DEF Next

(* Every step keeps the one configuration: start() takes effect once, and   *)
(* nobody has an exporter before.                                           *)
LEMMA OneConfigStep ==
    ASSUME TraceInv, [Next]_vars
    PROVE  OneConfig'
<1> USE DEF TraceInv, OneConfig
<1>1. ASSUME UNCHANGED <<startVars, captured, sent>> PROVE OneConfig'
    BY <1>1 DEF startVars
<1>2. ASSUME UNCHANGED <<startVars, captured>>, NEW p \in Delivered, p.to = firstStart,
             sent' = Append(sent, p)
      PROVE  OneConfig'
  <2>1. ASSUME NEW i \in 1 .. Len(sent') PROVE sent'[i].to = firstStart
    <3>1. /\ 1 .. Len(sent') = 1 .. Len(sent) \cup {Len(sent) + 1}
          /\ \A j \in 1 .. Len(sent) : sent'[j] = sent[j]
          /\ sent'[Len(sent) + 1] = p
        BY <1>2, SentOneMore DEF Typed
    <3> QED BY <1>2, <3>1
  <2> QED BY <1>2, <2>1 DEF startVars
<1>3. ASSUME NEW c \in Configs, NEW hasEndpoint \in BOOLEAN, start(c, hasEndpoint)
      PROVE  OneConfig'
  <2>1. UNCHANGED <<captured, sent>> /\ starts' = starts + 1 /\ starts \in Nat
      BY <1>3, ClockAssumption DEF start, handleVars, Typed
  <2>2. CASE isStarted
      BY <1>3, <2>1, <2>2 DEF start
  <2>3. CASE ~isStarted
    <3>1. firstStart = Unset /\ starts = 0 /\ exporter = Unset
        BY <2>3
    <3>2. isStarted' = TRUE /\ firstStart' = c /\ exporter' \in {Unset, c}
        BY <1>3, <2>3, <3>1 DEF start
    <3>3. \A i \in 1 .. Len(sent) : sent[i] \in Delivered
        BY DEF Typed
    <3>4. \A i \in 1 .. Len(sent) : sent[i].to # Unset
        BY <3>3, ClockAssumption DEF Delivered
    <3>5. 1 .. Len(sent) = {}
        BY <3>1, <3>4
    <3>6. \A h \in Handles : captured[h] = Unset
        BY <3>1
    <3> QED BY <2>1, <3>2, <3>5, <3>6
  <2> QED BY <2>2, <2>3 DEF Typed
<1>4. ASSUME NEW h \in Handles, beginTrace(h) PROVE OneConfig'
  <2>1. UNCHANGED <<startVars, sent>> /\ captured' = [captured EXCEPT ![h] = exporter]
      BY <1>4 DEF beginTrace
  <2>2. \A g \in Handles : captured'[g] \in {Unset, firstStart}
      BY <2>1 DEF Typed
  <2> QED BY <2>1, <2>2 DEF startVars
<1>5. ASSUME NEW h \in Handles, deinit(h) PROVE OneConfig'
  <2>1. UNCHANGED <<startVars, captured>>
      BY <1>5 DEF deinit
  <2>2. CASE ended[h] \/ captured[h] = Unset
      BY <1>1, <1>5, <2>1, <2>2 DEF deinit
  <2>3. CASE ~(ended[h] \/ captured[h] = Unset)
    <3>1. sent' = Append(sent, Payload(h))
        BY <1>5, <2>3 DEF deinit
    <3>2. Payload(h) \in Delivered /\ Payload(h).to = firstStart
        BY <2>3 DEF Payload, Delivered, Homes, Typed
    <3> QED BY <1>2, <2>1, <3>1, <3>2
  <2> QED BY <2>2, <2>3
<1>6. ASSUME NEW p \in exporting, Export(p) PROVE OneConfig'
  <2>1. UNCHANGED <<startVars, captured>>
      BY <1>6 DEF Export
  <2>2. CASE p.to = Unset
      BY <1>1, <1>6, <2>1, <2>2 DEF Export
  <2>3. CASE p.to # Unset
    <3>1. sent' = Append(sent, p)
        BY <1>6, <2>3 DEF Export
    <3>2. p \in Delivered
        BY <2>3 DEF Delivered, Homes, Typed
    <3>3. p.home \in Handles /\ p \in ExportingFor(p.home)
        BY DEF Typed, ExportingFor
    <3>4. p = Snapshot(p.home)
        BY <3>3 DEF Delivery
    <3>5. p.to = firstStart
        BY <2>3, <3>3, <3>4 DEF Snapshot
    <3> QED BY <1>2, <2>1, <3>1, <3>2, <3>5
  <2> QED BY <2>2, <2>3
<1>7. ASSUME NEW s \in SpanIds, NEW status \in {"ok", "error"}, CloseSolo(s, status)
      PROVE  OneConfig'
  <2> DEFINE r == recordSpan(s, status)
             p == [home |-> Solo, to |-> exporter, spans |-> <<r>>]
  <2>1. UNCHANGED <<startVars, captured>>
      BY <1>7 DEF CloseSolo, handleVars
  <2>2. CASE exporter = Unset
      BY <1>1, <1>7, <2>1, <2>2 DEF CloseSolo
  <2>3. CASE exporter # Unset
    <3>1. sent' = Append(sent, p)
        BY <1>7, <2>3 DEF CloseSolo
    <3>2. r \in Record
        BY RecordSpanTyped
    <3> HIDE DEF r
    <3>3. p \in Delivered /\ p.to = firstStart
        BY <2>3, <3>2 DEF Delivered, Homes, Typed
    <3> HIDE DEF p
    <3> QED BY <1>2, <2>1, <3>1, <3>3
  <2> QED BY <2>2, <2>3
<1>8. ASSUME NEW s \in SpanIds, NEW status \in {"ok", "error"}, CloseSpan(s, status)
      PROVE  OneConfig'
    BY <1>1, <1>8 DEF CloseSpan
<1> QED
  BY <1>1, <1>3, <1>4, <1>5, <1>6, <1>7, <1>8
  DEF Next, end, OpenSpan, Report, Tick, vars, handleVars

-----------------------------------------------------------------------------
(* A handle that a step does not concern keeps its payload.                 *)
LEMMA DeliveryStays ==
    ASSUME NEW h \in Handles, Delivery(h),
           phase'[h] = phase[h], captured'[h] = captured[h], ended'[h] = ended[h],
           finished'[h] = finished[h], ~ended[h] => spans'[h] = spans[h],
           ExportingFor(h)' = ExportingFor(h), SentFor(h)' = SentFor(h),
           \A i \in SentFor(h) : sent'[i] = sent[i]
    PROVE  Delivery(h)'
  BY DEF Delivery, Snapshot

(* The payloads of the other handles are where they were when one more is   *)
(* sent.                                                                    *)
LEMMA OthersSent ==
    ASSUME sent \in Seq(Delivered), NEW p \in Delivered, sent' = Append(sent, p),
           NEW h \in Handles, p.home # h
    PROVE  SentFor(h)' = SentFor(h) /\ \A i \in SentFor(h) : sent'[i] = sent[i]
  BY SentOneMore DEF SentFor

(* Every step keeps to one payload for each handle.                         *)
LEMMA DeliveryStep ==
    ASSUME TraceInv, [Next]_vars, NEW g \in Handles
    PROVE  Delivery(g)'
<1>t. Typed /\ Delivery(g)
    BY DEF TraceInv
<1>1. ASSUME UNCHANGED <<handleVars, sent>> PROVE Delivery(g)'
    BY <1>t, <1>1, DeliveryStays DEF handleVars, ExportingFor, SentFor
<1>2. ASSUME NEW h \in Handles, beginTrace(h) PROVE Delivery(g)'
  <2>1. /\ UNCHANGED <<ended, spans, exporting, finished, sent>>
        /\ phase[h] = "unborn"
        /\ phase' = [phase EXCEPT ![h] = "live"]
        /\ captured' = [captured EXCEPT ![h] = exporter]
      BY <1>2 DEF beginTrace
  <2>2. ExportingFor(g)' = ExportingFor(g) /\ SentFor(g)' = SentFor(g)
      BY <2>1 DEF ExportingFor, SentFor
  <2>3. CASE g = h
    <3>1. ~ended[g] /\ ExportingFor(g) = {} /\ SentFor(g) = {} /\ spans[g] = finished[g]
        BY <1>t, <2>1, <2>3 DEF Delivery, Typed
    <3>2. phase'[g] = "live"
        BY <1>t, <2>1, <2>3 DEF Typed
    <3> QED BY <2>1, <2>2, <3>1, <3>2 DEF Delivery
  <2>4. CASE g # h
    <3>1. phase'[g] = phase[g] /\ captured'[g] = captured[g]
        BY <1>t, <2>1, <2>4 DEF Typed
    <3> QED BY <1>t, <2>1, <2>2, <3>1, DeliveryStays
  <2> QED BY <2>3, <2>4
<1>3. ASSUME NEW h \in Handles, end(h) PROVE Delivery(g)'
  <2>1. /\ UNCHANGED <<phase, captured, spans, finished, sent>>
        /\ phase[h] = "live" /\ ~ended[h]
        /\ ended' = [ended EXCEPT ![h] = TRUE]
        /\ exporting' = exporting \cup {Payload(h)}
      BY <1>3 DEF end
  <2>2. SentFor(g)' = SentFor(g)
      BY <2>1 DEF SentFor
  <2>3. CASE g = h
    <3>1. ExportingFor(g) = {} /\ SentFor(g) = {} /\ spans[g] = finished[g]
        BY <1>t, <2>1, <2>3 DEF Delivery, Typed
    <3>2. Payload(h) = Snapshot(g) /\ Snapshot(g)' = Snapshot(g) /\ Snapshot(g).home = g
        BY <2>1, <2>3, <3>1 DEF Payload, Snapshot
    <3>3. ExportingFor(g)' = {Snapshot(g)}
        BY <2>1, <3>1, <3>2 DEF ExportingFor
    <3>4. ended'[g] = TRUE
        BY <1>t, <2>1, <2>3 DEF Typed
    <3> QED BY <2>1, <2>2, <2>3, <3>1, <3>2, <3>3, <3>4 DEF Delivery
  <2>4. CASE g # h
    <3>1. ended'[g] = ended[g]
        BY <1>t, <2>1, <2>4 DEF Typed
    <3>2. Payload(h).home # g
        BY <2>4 DEF Payload
    <3>3. ExportingFor(g)' = ExportingFor(g)
        BY <2>1, <3>2 DEF ExportingFor
    <3> QED BY <1>t, <2>1, <2>2, <3>1, <3>3, DeliveryStays
  <2> QED BY <2>3, <2>4
<1>4. ASSUME NEW p \in exporting, Export(p) PROVE Delivery(g)'
  <2>1. /\ UNCHANGED <<phase, captured, ended, spans, finished>>
        /\ exporting' = exporting \ {p}
        /\ sent' = IF p.to = Unset THEN sent ELSE Append(sent, p)
      BY <1>4 DEF Export
  <2>2. p.to # Unset => p \in Delivered
      BY <1>t DEF Typed, Delivered, Homes
  <2>3. CASE p.home = g
    <3>1. p \in ExportingFor(g)
        BY <2>3 DEF ExportingFor
    <3>2. /\ p = Snapshot(g) /\ ended[g] /\ phase[g] = "live" /\ SentFor(g) = {}
          /\ \A x \in ExportingFor(g) : x = p
        BY <1>t, <3>1 DEF Delivery
    <3>3. ExportingFor(g)' = {}
        BY <2>1, <3>2 DEF ExportingFor
    <3>4. p.to = captured[g] /\ p.spans = finished[g]
        BY <3>2 DEF Snapshot
    <3>5. CASE p.to = Unset
      <4>1. SentFor(g)' = {}
          BY <2>1, <3>2, <3>5 DEF SentFor
      <4> QED BY <2>1, <3>2, <3>3, <3>4, <3>5, <4>1 DEF Delivery
    <3>6. CASE p.to # Unset
      <4>1. SentFor(g)' = {Len(sent) + 1} /\ sent'[Len(sent) + 1] = p
          BY <1>t, <2>1, <2>2, <2>3, <3>2, <3>6, SentOneMore DEF Typed
      <4> QED BY <2>1, <3>2, <3>3, <3>4, <3>6, <4>1 DEF Delivery
    <3> QED BY <3>5, <3>6
  <2>4. CASE p.home # g
    <3>1. ExportingFor(g)' = ExportingFor(g)
        BY <2>1, <2>4 DEF ExportingFor
    <3>2. SentFor(g)' = SentFor(g) /\ \A i \in SentFor(g) : sent'[i] = sent[i]
      <4>1. CASE p.to = Unset
          BY <2>1, <4>1 DEF SentFor
      <4>2. CASE p.to # Unset
          BY <1>t, <2>1, <2>2, <2>4, <4>2, OthersSent DEF Typed
      <4> QED BY <4>1, <4>2
    <3> QED BY <1>t, <2>1, <3>1, <3>2, DeliveryStays
  <2> QED BY <2>3, <2>4
<1>5. ASSUME NEW h \in Handles, deinit(h) PROVE Delivery(g)'
  <2>1. /\ UNCHANGED <<captured, spans, exporting, finished>>
        /\ Unused(h)
        /\ phase' = [phase EXCEPT ![h] = "gone"]
        /\ ended' = [ended EXCEPT ![h] = TRUE]
        /\ sent' = IF ended[h] \/ captured[h] = Unset THEN sent
                   ELSE Append(sent, Payload(h))
      BY <1>5 DEF deinit
  <2>2. captured[h] # Unset => Payload(h) \in Delivered
      BY <1>t DEF Payload, Typed, Delivered, Homes
  <2>3. ExportingFor(g)' = ExportingFor(g)
      BY <2>1 DEF ExportingFor
  <2>4. CASE g = h
    <3>1. ExportingFor(g) = {}
        BY <2>1, <2>4 DEF Unused, ExportingFor
    <3>2. phase'[g] = "gone" /\ ended'[g] = TRUE
        BY <1>t, <2>1, <2>4 DEF Typed
    <3>3. CASE ended[h] \/ captured[h] = Unset
      <4>1. sent' = sent /\ SentFor(g)' = SentFor(g)
          BY <2>1, <3>3 DEF SentFor
      <4> QED BY <1>t, <2>1, <2>3, <2>4, <3>1, <3>2, <3>3, <4>1 DEF Delivery
    <3>4. CASE ~(ended[h] \/ captured[h] = Unset)
      <4>1. SentFor(g) = {} /\ spans[g] = finished[g]
          BY <1>t, <2>4, <3>4 DEF Delivery
      <4>2. Payload(h).home = g /\ Payload(h).spans = finished[g]
          BY <2>4, <4>1 DEF Payload
      <4>3. SentFor(g)' = {Len(sent) + 1} /\ sent'[Len(sent) + 1] = Payload(h)
          BY <1>t, <2>1, <2>2, <3>4, <4>1, <4>2, SentOneMore DEF Typed
      <4> QED BY <2>1, <2>3, <2>4, <3>1, <3>2, <3>4, <4>2, <4>3 DEF Delivery
    <3> QED BY <3>3, <3>4
  <2>5. CASE g # h
    <3>1. phase'[g] = phase[g] /\ ended'[g] = ended[g]
        BY <1>t, <2>1, <2>5 DEF Typed
    <3>2. SentFor(g)' = SentFor(g) /\ \A i \in SentFor(g) : sent'[i] = sent[i]
      <4>1. CASE ended[h] \/ captured[h] = Unset
          BY <2>1, <4>1 DEF SentFor
      <4>2. CASE ~(ended[h] \/ captured[h] = Unset)
        <5>1. Payload(h).home # g /\ Payload(h) \in Delivered /\ sent' = Append(sent, Payload(h))
            BY <2>1, <2>2, <2>5, <4>2 DEF Payload
        <5> QED BY <1>t, <5>1, OthersSent DEF Typed
      <4> QED BY <4>1, <4>2
    <3> QED BY <1>t, <2>1, <2>3, <3>1, <3>2, DeliveryStays
  <2> QED BY <2>4, <2>5
<1>6. ASSUME NEW s \in SpanIds, NEW status \in {"ok", "error"}, CloseSpan(s, status)
      PROVE  Delivery(g)'
  <2> DEFINE h == span[s].home
             r == recordSpan(s, status)
  <2>1. /\ h \in Handles
        /\ spans' = [spans EXCEPT ![h] = Append(@, r)]
        /\ finished' = IF ended[h] THEN finished ELSE [finished EXCEPT ![h] = Append(@, r)]
        /\ UNCHANGED <<phase, captured, ended, exporting, sent>>
      BY <1>6 DEF CloseSpan
  <2> HIDE DEF h, r
  <2>2. ExportingFor(g)' = ExportingFor(g) /\ SentFor(g)' = SentFor(g)
      BY <2>1 DEF ExportingFor, SentFor
  <2>3. CASE g = h /\ ~ended[h]
    <3>1. ExportingFor(g) = {} /\ SentFor(g) = {} /\ spans[g] = finished[g]
        BY <1>t, <2>3 DEF Delivery
    <3>2. spans'[g] = Append(spans[g], r) /\ finished'[g] = Append(finished[g], r)
        BY <1>t, <2>1, <2>3 DEF Typed
    <3> QED BY <1>t, <2>1, <2>2, <2>3, <3>1, <3>2 DEF Delivery
  <2>4. CASE g # h \/ ended[h]
    <3>1. finished'[g] = finished[g]
        BY <1>t, <2>1, <2>4 DEF Typed
    <3>2. ~ended[g] => spans'[g] = spans[g]
        BY <1>t, <2>1, <2>4 DEF Typed
    <3> QED BY <1>t, <2>1, <2>2, <3>1, <3>2, DeliveryStays
  <2> QED BY <2>3, <2>4
<1>7. ASSUME NEW s \in SpanIds, NEW status \in {"ok", "error"}, CloseSolo(s, status)
      PROVE  Delivery(g)'
  <2> DEFINE r == recordSpan(s, status)
             p == [home |-> Solo, to |-> exporter, spans |-> <<r>>]
  <2>1. UNCHANGED handleVars /\ sent' = IF exporter = Unset THEN sent ELSE Append(sent, p)
      BY <1>7 DEF CloseSolo
  <2>2. r \in Record
      BY <1>t, RecordSpanTyped
  <2> HIDE DEF r
  <2>3. p.home # g /\ (exporter # Unset => p \in Delivered)
      BY <1>t, <2>2, ClockAssumption DEF Typed, Delivered, Homes
  <2> HIDE DEF p
  <2>4. CASE exporter = Unset
      BY <1>1, <2>1, <2>4
  <2>5. CASE exporter # Unset
    <3>1. SentFor(g)' = SentFor(g) /\ \A i \in SentFor(g) : sent'[i] = sent[i]
        BY <1>t, <2>1, <2>3, <2>5, OthersSent DEF Typed
    <3>2. ExportingFor(g)' = ExportingFor(g)
        BY <2>1 DEF ExportingFor, handleVars
    <3> QED BY <1>t, <2>1, <3>1, <3>2, DeliveryStays DEF handleVars
  <2> QED BY <2>4, <2>5
<1> QED
  BY <1>1, <1>2, <1>3, <1>4, <1>5, <1>6, <1>7
  DEF Next, start, OpenSpan, Report, Tick, vars

-----------------------------------------------------------------------------
(* A call cannot take its opt-in back.                                      *)
LEMMA ConsentStays ==
    ASSUME \A s \in SpanIds : span[s].state # "new" =>
             span'[s].state # "new" /\ span'[s].optIn = span[s].optIn,
           NEW r \in Record, Consented(span, r)
    PROVE  Consented(span', r)
<1>1. r.id \in SpanIds
    BY DEF Record
<1> QED BY <1>1 DEF Consented

(* Every step keeps content to the calls that opted in.                     *)
LEMMA ContentStep ==
    ASSUME TraceInv, [Next]_vars
    PROVE  Content'
<1>t. Typed /\ Content
    BY DEF TraceInv
<1> DEFINE Firm == \A s \in SpanIds : span[s].state # "new" =>
                     span'[s].state # "new" /\ span'[s].optIn = span[s].optIn
           All(ss) == \A j \in 1 .. Len(ss) : Consented(span', ss[j])
<1>1. ASSUME Firm, NEW ss \in Seq(Record), \A j \in 1 .. Len(ss) : Consented(span, ss[j])
      PROVE  All(ss)
  <2> SUFFICES ASSUME NEW j \in 1 .. Len(ss) PROVE Consented(span', ss[j])
      OBVIOUS
  <2>1. ss[j] \in Record
      OBVIOUS
  <2> QED BY <1>1, <2>1, ConsentStays
<1>2. ASSUME Firm PROVE \A h \in Handles : All(finished[h])
  <2> SUFFICES ASSUME NEW h \in Handles PROVE All(finished[h])
      OBVIOUS
  <2>1. finished[h] \in Seq(Record)
      BY <1>t DEF Typed
  <2>2. \A j \in 1 .. Len(finished[h]) : Consented(span, finished[h][j])
      BY <1>t DEF Content
  <2> HIDE DEF All, Firm
  <2> QED BY <1>1, <1>2, <2>1, <2>2
<1>3. ASSUME Firm PROVE \A i \in 1 .. Len(sent) : All(sent[i].spans)
  <2> SUFFICES ASSUME NEW i \in 1 .. Len(sent) PROVE All(sent[i].spans)
      OBVIOUS
  <2>1. sent[i] \in Delivered
      BY <1>t DEF Typed
  <2>2. sent[i].spans \in Seq(Record)
      BY <2>1 DEF Delivered
  <2>3. \A j \in 1 .. Len(sent[i].spans) : Consented(span, sent[i].spans[j])
      BY <1>t DEF Content
  <2> HIDE DEF All, Firm
  <2> QED BY <1>1, <1>3, <2>2, <2>3
<1>4. ASSUME Firm, UNCHANGED <<finished, sent>> PROVE Content'
    BY <1>2, <1>3, <1>4 DEF Content
<1>5. ASSUME Firm, UNCHANGED finished, NEW p \in Delivered, sent' = Append(sent, p),
             All(p.spans)
      PROVE  Content'
  <2>1. /\ 1 .. Len(sent') = 1 .. Len(sent) \cup {Len(sent) + 1}
        /\ \A i \in 1 .. Len(sent) : sent'[i] = sent[i]
        /\ sent'[Len(sent) + 1] = p
      BY <1>t, <1>5, SentOneMore DEF Typed
  <2>2. \A i \in 1 .. Len(sent') : All(sent'[i].spans)
    <3> HIDE DEF All
    <3> QED BY <1>3, <1>5, <2>1
  <2> QED BY <1>2, <1>5, <2>2 DEF Content
<1>6. ASSUME UNCHANGED span PROVE Firm
    BY <1>6
<1>7. ASSUME NEW h \in Handles, deinit(h) PROVE Content'
  <2>1. UNCHANGED <<finished, span>> /\ Firm
      BY <1>7 DEF deinit
  <2>2. CASE ended[h] \/ captured[h] = Unset
      BY <1>4, <1>7, <2>1, <2>2 DEF deinit
  <2>3. CASE ~(ended[h] \/ captured[h] = Unset)
    <3>1. sent' = Append(sent, Payload(h))
        BY <1>7, <2>3 DEF deinit
    <3>2. Payload(h) \in Delivered
        BY <1>t, <2>3 DEF Payload, Delivered, Homes, Typed
    <3>3. Payload(h).spans = finished[h]
        BY <2>3 DEF Payload, TraceInv, Delivery
    <3>4. All(Payload(h).spans)
        BY <1>2, <2>1, <3>3
    <3> QED BY <1>5, <2>1, <3>1, <3>2, <3>4
  <2> QED BY <2>2, <2>3
<1>8. ASSUME NEW p \in exporting, Export(p) PROVE Content'
  <2>1. UNCHANGED <<finished, span>> /\ Firm
      BY <1>8 DEF Export
  <2>2. CASE p.to = Unset
      BY <1>4, <1>8, <2>1, <2>2 DEF Export
  <2>3. CASE p.to # Unset
    <3>1. sent' = Append(sent, p)
        BY <1>8, <2>3 DEF Export
    <3>2. p \in Delivered
        BY <1>t, <2>3 DEF Delivered, Homes, Typed
    <3>3. p.home \in Handles /\ p \in ExportingFor(p.home)
        BY <1>t DEF Typed, ExportingFor
    <3>4. p = Snapshot(p.home)
        BY <3>3 DEF Delivery, TraceInv
    <3>5. p.spans = finished[p.home]
        BY <3>3, <3>4 DEF Snapshot
    <3>6. All(p.spans)
        BY <1>2, <2>1, <3>3, <3>5
    <3> QED BY <1>5, <2>1, <3>1, <3>2, <3>6
  <2> QED BY <2>2, <2>3
<1>9. ASSUME NEW s \in SpanIds, NEW status \in {"ok", "error"},
             span[s].state = "open", span' = [span EXCEPT ![s].state = "closed"]
      PROVE  /\ Firm
             /\ recordSpan(s, status) \in Record
             /\ Consented(span', recordSpan(s, status))
  <2>1. /\ recordSpan(s, status) \in Record /\ recordSpan(s, status).id = s
        /\ recordSpan(s, status).text => span[s].optIn
      BY <1>t, RecordSpanTyped
  <2>2. span[s] \in Measured
      BY <1>t DEF Typed
  <2>3. span'[s].state = "closed" /\ span'[s].optIn = span[s].optIn
      BY <1>t, <1>9, <2>2 DEF Typed, Measured
  <2>4. Firm
      BY <1>t, <1>9, <2>3 DEF Typed
  <2> QED BY <2>1, <2>3, <2>4 DEF Consented
<1>10. ASSUME NEW s \in SpanIds, NEW status \in {"ok", "error"}, CloseSpan(s, status)
       PROVE  Content'
  <2> DEFINE h == span[s].home
             r == recordSpan(s, status)
  <2>1. /\ span[s].state = "open" /\ h \in Handles
        /\ span' = [span EXCEPT ![s].state = "closed"]
        /\ finished' = IF ended[h] THEN finished ELSE [finished EXCEPT ![h] = Append(@, r)]
        /\ UNCHANGED sent
      BY <1>10 DEF CloseSpan
  <2>2. Firm /\ r \in Record /\ Consented(span', r)
      BY <1>9, <2>1
  <2> HIDE DEF h, r
  <2>3. \A g \in Handles : All(finished'[g])
    <3> SUFFICES ASSUME NEW g \in Handles PROVE All(finished'[g])
        OBVIOUS
    <3>1. CASE g = h /\ ~ended[h]
      <4>1. finished'[g] = Append(finished[g], r) /\ finished[g] \in Seq(Record)
          BY <1>t, <2>1, <3>1 DEF Typed
      <4>2. /\ Len(finished[g]) \in Nat
            /\ Len(Append(finished[g], r)) = Len(finished[g]) + 1
            /\ \A j \in 1 .. Len(finished[g]) : Append(finished[g], r)[j] = finished[g][j]
            /\ Append(finished[g], r)[Len(finished[g]) + 1] = r
          BY <2>2, <4>1, AppendProperties
      <4>3. \A j \in 1 .. Len(finished[g]) + 1 :
               j \in 1 .. Len(finished[g]) \/ j = Len(finished[g]) + 1
          BY <4>2
      <4>4. \A j \in 1 .. Len(finished[g]) : Consented(span', finished[g][j])
          BY <1>2, <2>2
      <4> QED BY <2>2, <4>1, <4>2, <4>3, <4>4
    <3>2. CASE g # h \/ ended[h]
      <4>1. finished'[g] = finished[g]
          BY <1>t, <2>1, <3>2 DEF Typed
      <4> QED BY <1>2, <2>2, <4>1
    <3> QED BY <3>1, <3>2
  <2>4. \A i \in 1 .. Len(sent) : All(sent[i].spans)
      BY <1>3, <2>2
  <2> QED BY <2>1, <2>3, <2>4 DEF Content
<1>11. ASSUME NEW s \in SpanIds, NEW status \in {"ok", "error"}, CloseSolo(s, status)
       PROVE  Content'
  <2> DEFINE r == recordSpan(s, status)
             p == [home |-> Solo, to |-> exporter, spans |-> <<r>>]
  <2>1. /\ span[s].state = "open"
        /\ span' = [span EXCEPT ![s].state = "closed"]
        /\ sent' = IF exporter = Unset THEN sent ELSE Append(sent, p)
        /\ UNCHANGED finished
      BY <1>11 DEF CloseSolo, handleVars
  <2>2. Firm /\ r \in Record /\ Consented(span', r)
      BY <1>9, <2>1
  <2> HIDE DEF r
  <2>3. CASE exporter = Unset
      BY <1>4, <2>1, <2>2, <2>3
  <2>4. CASE exporter # Unset
    <3>1. p \in Delivered
        BY <1>t, <2>2, <2>4 DEF Delivered, Homes, Typed
    <3>2. All(p.spans)
        BY <2>2
    <3> HIDE DEF p
    <3> QED BY <1>5, <2>1, <2>2, <2>4, <3>1, <3>2
  <2> QED BY <2>3, <2>4
<1>12. ASSUME NEW s \in SpanIds, NEW home \in Homes, NEW optIn \in BOOLEAN,
              OpenSpan(s, home, optIn)
       PROVE  Content'
  <2>1. Firm /\ UNCHANGED <<finished, sent>>
      BY <1>t, <1>12 DEF OpenSpan, handleVars, Typed
  <2> QED BY <1>4, <2>1
<1>13. ASSUME NEW s \in SpanIds, Report(s) PROVE Content'
  <2>1. UNCHANGED <<finished, sent>> /\ span' = [span EXCEPT ![s].text = TRUE]
      BY <1>13 DEF Report, handleVars
  <2>2. span[s] \in Measured
      BY <1>t DEF Typed
  <2>3. span'[s].state = span[s].state /\ span'[s].optIn = span[s].optIn
      BY <1>t, <2>1, <2>2 DEF Typed, Measured
  <2>4. Firm
      BY <1>t, <2>1, <2>3 DEF Typed
  <2> QED BY <1>4, <2>1, <2>4
<1>14. ASSUME UNCHANGED <<finished, sent, span>> PROVE Content'
    BY <1>4, <1>6, <1>14
<1> QED
  BY <1>7, <1>8, <1>10, <1>11, <1>12, <1>13, <1>14
  DEF Next, start, beginTrace, end, Tick, vars, handleVars

(* The invariant holds in every reachable state.                            *)
LEMMA TraceInvariant == Spec => []TraceInv
<1>1. Init => TraceInv
  <2> SUFFICES ASSUME Init PROVE TraceInv
      OBVIOUS
  <2> USE DEF Init
  <2>1. Typed
    <3>1. span \in [SpanIds -> Measured] /\ \A s \in SpanIds : span[s].since <= clock
        BY ClockAssumption DEF Fresh, Measured, Homes, Clock
    <3>2. starts \in 0 .. MaxStarts /\ clock \in Clock
        BY ClockAssumption DEF Clock
    <3>3. /\ spans \in [Handles -> Seq(Record)] /\ finished \in [Handles -> Seq(Record)]
          /\ sent \in Seq(Delivered)
        BY EmptySeq
    <3>4. /\ phase \in [Handles -> {"unborn", "live", "gone"}]
          /\ captured \in [Handles -> Configs \cup {Unset}]
          /\ ended \in [Handles -> BOOLEAN]
        OBVIOUS
    <3> QED BY <3>1, <3>2, <3>3, <3>4 DEF Typed
  <2>2. OneConfig /\ Content
      BY DEF OneConfig, Content
  <2>3. \A h \in Handles : Delivery(h)
      BY DEF Delivery, SentFor, ExportingFor
  <2> QED BY <2>1, <2>2, <2>3 DEF TraceInv
<1>2. TraceInv /\ [Next]_vars => TraceInv'
  <2> SUFFICES ASSUME TraceInv, [Next]_vars PROVE TraceInv'
      OBVIOUS
  <2>1. Typed' /\ OneConfig' /\ Content'
      BY TypedStep, OneConfigStep, ContentStep DEF TraceInv
  <2>2. \A h \in Handles : Delivery(h)'
      BY DeliveryStep
  <2> QED BY <2>1, <2>2 DEF TraceInv
<1> QED BY <1>1, <1>2, PTL DEF Spec

-----------------------------------------------------------------------------
(* Types.                                                                   *)
THEOREM TraceTypeCorrect == Spec => []TypeOK
<1>1. TraceInv => TypeOK
  <2> SUFFICES ASSUME TraceInv PROVE TypeOK
      OBVIOUS
  <2>1. Typed
      BY DEF TraceInv
  <2>2. ASSUME NEW p \in exporting PROVE p.home \in Handles /\ p.spans \in Seq(Record)
      BY <2>1 DEF Typed
  <2>3. ASSUME NEW s \in SpanIds
        PROVE  /\ span[s].state \in {"new", "open", "closed"}
               /\ span[s].home \in Homes /\ span[s].since \in Clock
    <3>1. span[s] \in Measured
        BY <2>1 DEF Typed
    <3> QED BY <3>1 DEF Measured
  <2>4. ASSUME NEW i \in 1 .. Len(sent) PROVE sent[i].home \in Homes /\ sent[i].to \in Configs
    <3>1. sent[i] \in Delivered
        BY <2>1 DEF Typed
    <3> QED BY <3>1 DEF Delivered
  <2> QED BY <2>1, <2>2, <2>3, <2>4 DEF Typed, TypeOK
<1> QED BY <1>1, TraceInvariant, PTL

(* A handle with an exporter yields exactly one payload, at its end, however *)
(* many threads call end() and whether or not any does before deinit.       *)
THEOREM OnePayload == Spec => []OnePayloadPerTrace
<1>1. TraceInv => OnePayloadPerTrace
  <2> SUFFICES ASSUME TraceInv, NEW h \in Handles
               PROVE  Cardinality(SentFor(h)) + Cardinality(ExportingFor(h)) =
                        IF /\ ended[h] \/ phase[h] = "gone"
                           /\ captured[h] # Unset \/ ExportingFor(h) # {}
                        THEN 1 ELSE 0
      BY DEF OnePayloadPerTrace
  <2>1. Delivery(h)
      BY DEF TraceInv
  <2>2. Cardinality({}) = 0 /\ \A x : Cardinality({x}) = 1
      BY FS_EmptySet, FS_Singleton
  <2>3. ended[h] \/ phase[h] = "gone" <=> ended[h]
      BY <2>1 DEF Delivery
  <2>4. CASE ExportingFor(h) # {}
    <3>1. ExportingFor(h) = {Snapshot(h)} /\ SentFor(h) = {} /\ ended[h]
        BY <2>1, <2>4 DEF Delivery
    <3>2. Cardinality(SentFor(h)) = 0 /\ Cardinality(ExportingFor(h)) = 1
        BY <2>2, <3>1
    <3> QED BY <2>4, <3>1, <3>2
  <2>5. CASE SentFor(h) # {}
    <3>1. PICK i \in SentFor(h) : TRUE
        BY <2>5
    <3>2. SentFor(h) = {i} /\ ended[h] /\ captured[h] # Unset
        BY <2>1, <3>1 DEF Delivery
    <3>3. ExportingFor(h) = {}
        BY <2>1, <2>5 DEF Delivery
    <3>4. Cardinality(SentFor(h)) = 1 /\ Cardinality(ExportingFor(h)) = 0
        BY <2>2, <3>2, <3>3
    <3> QED BY <3>2, <3>4
  <2>6. CASE ExportingFor(h) = {} /\ SentFor(h) = {}
    <3>1. ~(ended[h] /\ captured[h] # Unset)
        BY <2>1, <2>6 DEF Delivery
    <3> QED BY <2>2, <2>3, <2>6, <3>1
  <2> QED BY <2>4, <2>5, <2>6
<1> QED BY <1>1, TraceInvariant, PTL

(* That payload holds the spans that had finished when the handle ended, in *)
(* order, and like all that is exported it goes where the first start()     *)
(* said.                                                                    *)
THEOREM PayloadsAreSnapshots == Spec => []PayloadIsSnapshot
<1>1. TraceInv => PayloadIsSnapshot
    BY DEF TraceInv, OneConfig, Delivery, Snapshot, PayloadIsSnapshot
<1> QED BY <1>1, TraceInvariant, PTL

(* Content leaves the process only with the opt-in of that very call.       *)
THEOREM ContentNeedsOptIn == Spec => []ContentOnlyOptIn
<1>1. TraceInv => ContentOnlyOptIn
    BY DEF TraceInv, Content, Consented, ContentOnlyOptIn
<1> QED BY <1>1, TraceInvariant, PTL
=============================================================================
