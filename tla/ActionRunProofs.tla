--------------------------- MODULE ActionRunProofs ----------------------------
(***************************************************************************)
(* Theorems about ActionRun, for any inputs, files and traces of other     *)
(* clients: what a public page shows of a trace, what each stage of a run  *)
(* has at hand, what a link in a comment means, and which verdict the      *)
(* comment and the exit code give.                                         *)
(***************************************************************************)
EXTENDS ActionRun, TracePageProofs

(* However a run of the action, failures and readers interleave, no public  *)
(* page names content or is refused, for any inputs, files and stored       *)
(* traces, and for spans and keys of any number and depth.                  *)
THEOREM PagesClean == Spec => []PublicAttributesClean
<1>1. Init => PublicAttributesClean
    BY DEF Init, PublicAttributesClean
<1>2. PublicAttributesClean /\ [Next]_vars => PublicAttributesClean'
    <2> SUFFICES ASSUME PublicAttributesClean, [Next]_vars
                 PROVE  PublicAttributesClean'
        OBVIOUS
    <2>1. CASE Main \/ ReadTrace \/ ReadBaseline \/ Compare \/ CompareThrows \/ UNCHANGED vars
        BY <2>1 DEF Main, ReadTrace, ReadBaseline, Compare, CompareThrows, vars, backend,
                    PublicAttributesClean
    <2>2. CASE IngestAccepted \/ IngestFails
        BY <2>2 DEF IngestAccepted, IngestFails, PublicAttributesClean
    <2>3. CASE ShareMinted \/ ShareFails
        BY <2>3 DEF ShareMinted, ShareFails, PublicAttributesClean
    <2>4. CASE OpenPage
        BY <2>4, EveryPageIsClean DEF OpenPage, PublicAttributesClean
    <2> QED
        BY <2>1, <2>2, <2>3, <2>4 DEF Next
<1> QED
    BY <1>1, <1>2, PTL DEF Spec

-----------------------------------------------------------------------------
(* None is neither a payload, a row of the store, a delta, a comment nor    *)
(* the end of a run.                                                        *)
NoneIsNoRecord ==
    /\ \A t, s : [trace |-> t, spans |-> s] # None
    /\ \A e, c : [exit |-> e, comment |-> c] # None
    /\ \A v, l, p, h, t :
         [variant |-> v, linked |-> l, percent |-> p, threshold |-> h, table |-> t] # None
    /\ \A x, y : <<x, y>> # None

(* What a run knows of its files while it goes on.                          *)
RunInv ==
    /\ TypeOK
    /\ files \in [trace : TraceFiles, baseline : BaselineFiles]
    /\ pc \in {"baseline", "ingest", "share", "compare"} => current # None

(* The payload of a summary is a record.                                    *)
LEMMA PayloadIsSomething ==
    ASSUME NoneIsNoRecord, NEW summary
    PROVE  summaryToIngestPayload(summary) # None
  BY DEF summaryToIngestPayload, NoneIsNoRecord

(* The end of a run is a record with its exit code.                         *)
LEMMA EndIsSomething ==
    ASSUME NoneIsNoRecord, NEW e \in 0 .. 2, NEW c, NEW r, r = [exit |-> e, comment |-> c]
    PROVE  r # None /\ r.exit \in 0 .. 2 /\ r.comment = c
  BY DEF NoneIsNoRecord

(* A run begins with two files and nothing else.                            *)
LEMMA RunInvInit ==
    ASSUME Init
    PROVE  RunInv
  BY DEF Init, RunInv, TypeOK

(* Every step of a run, and every reader, keeps it.                         *)
LEMMA RunInvStep ==
    ASSUME NoneIsNoRecord, RunInv, [Next]_vars
    PROVE  RunInv'
<1> USE DEF RunInv, backend
<1>1. CASE Main
  <2>1. CASE opts'.tracePath = ""
    <3>1. result' = [exit |-> 2, comment |-> None] /\ pc' = "done"
        BY <1>1, <2>1 DEF Main
    <3>2. result' # None /\ result'.exit \in 0 .. 2
        BY <3>1, EndIsSomething
    <3> QED BY <1>1, <3>1, <3>2 DEF Main, TypeOK
  <2>2. CASE opts'.tracePath # ""
      BY <1>1, <2>2 DEF Main, TypeOK
  <2> QED BY <2>1, <2>2
<1>2. CASE ReadTrace
  <2>1. CASE Readable(files.trace)
    <3>1. files.trace \in TraceFiles \ {Unreadable} /\ files.trace # None
        BY <2>1, FilesAssumption DEF Readable
    <3> QED BY <1>2, <2>1, <3>1 DEF ReadTrace, TypeOK
  <2>2. CASE ~Readable(files.trace)
    <3>1. result' = [exit |-> 2, comment |-> None] /\ pc' = "done"
        BY <1>2, <2>2 DEF ReadTrace
    <3>2. result' # None /\ result'.exit \in 0 .. 2
        BY <3>1, EndIsSomething
    <3> QED BY <1>2, <2>2, <3>1, <3>2 DEF ReadTrace, TypeOK
  <2> QED BY <2>1, <2>2
<1>3. CASE ReadBaseline
  <2>1. baseline' # None => baseline' \in BaselineFiles \ {Unreadable}
      BY <1>3 DEF ReadBaseline, Readable
  <2>2. pc' = "ingest" => payload' # None
      BY <1>3, PayloadIsSomething DEF ReadBaseline
  <2> QED BY <1>3, <2>1, <2>2 DEF ReadBaseline, TypeOK
<1>4. CASE IngestAccepted
    BY <1>4 DEF IngestAccepted, TypeOK
<1>5. CASE IngestFails
    BY <1>5 DEF IngestFails, TypeOK
<1>6. CASE ShareMinted
    BY <1>6 DEF ShareMinted, TypeOK
<1>7. CASE ShareFails
    BY <1>7 DEF ShareFails, TypeOK
<1>8. CASE Compare
  <2> DEFINE verdict == Verdict(current, baseline, opts.threshold)
             e == IF verdict.regression /\ opts.failOnRegression THEN 1 ELSE 0
             c == renderComment(verdict, opts.threshold, shareUrl)
  <2>1. /\ pc = "compare" /\ pc' = "done" /\ result' = [exit |-> e, comment |-> c]
        /\ UNCHANGED <<input, files, opts, current, baseline, payload, shareUrl, backend>>
      BY <1>8 DEF Compare
  <2>2. e \in 0 .. 2
    <3> HIDE DEF verdict
    <3>1. e = 0 \/ e = 1
        BY Zenon
    <3> QED BY <3>1
  <2> HIDE DEF e, c
  <2>3. result' # None /\ result'.exit \in 0 .. 2
      BY <2>1, <2>2, EndIsSomething
  <2> QED BY <2>1, <2>3 DEF TypeOK
<1>9. CASE OpenPage
  <2>1. PICK rows : page' = [of |-> stored, rows |-> rows, shown |-> PublicPage(stored.trace, rows)]
      BY <1>9 DEF OpenPage
  <2>2. page'.of = stored
      BY <2>1
  <2>3. /\ UNCHANGED <<input, files, pc, opts, current, baseline, payload, shareUrl, result,
                       stored, taken, minted>>
      BY <1>9 DEF OpenPage
  <2> QED BY <2>2, <2>3 DEF TypeOK
<1>10. CASE UNCHANGED vars
    BY <1>10 DEF vars, TypeOK
<1>11. CASE CompareThrows
  <2>1. /\ pc = "compare" /\ pc' = "done" /\ result' = [exit |-> 1, comment |-> None]
        /\ UNCHANGED <<input, files, opts, current, baseline, payload, shareUrl, backend>>
      BY <1>11 DEF CompareThrows
  <2>2. result' # None /\ result'.exit \in 0 .. 2
      BY <2>1, EndIsSomething
  <2> QED BY <2>1, <2>2 DEF TypeOK
<1> QED
    BY <1>1, <1>2, <1>3, <1>4, <1>5, <1>6, <1>7, <1>8, <1>9, <1>10, <1>11 DEF Next

(* Every stage of a run has what it needs at hand: a trace file before it   *)
(* reads, a summary that was readable before it sends or compares, the      *)
(* payload before it sends, and an end with one of the three exit codes; a  *)
(* page shows the row the store holds (entry.ts).                           *)
THEOREM RunTypeCorrect ==
    ASSUME NoneIsNoRecord
    PROVE  Spec => []TypeOK
<1>1. Init => RunInv
    BY RunInvInit
<1>2. RunInv /\ [Next]_vars => RunInv'
    BY RunInvStep
<1>3. RunInv => TypeOK
    BY DEF RunInv
<1> QED
    BY <1>1, <1>2, <1>3, PTL DEF Spec

-----------------------------------------------------------------------------
(* FlattenSeq appends the sequences of ss to each other, one by one; a      *)
(* table g of what there is after the first i of them, up to m.             *)
FlatAt(g, ss, i) == IF i = 1 THEN ss[i] ELSE g[i - 1] \o ss[i]
Flat(g, ss, m) == g = [i \in 1 .. m |-> FlatAt(g, ss, i)]

(* There is such a table.                                                   *)
LEMMA FlatExists ==
    ASSUME NEW ss, NEW n \in Nat
    PROVE  \E g : Flat(g, ss, n)
<1> DEFINE T == {m \in Nat : \E g : Flat(g, ss, m)}
<1>1. 0 \in T
  <2>1. Flat([i \in 1 .. 0 |-> 0], ss, 0)
      BY DEF Flat
  <2> QED BY <2>1
<1>2. ASSUME NEW m \in Nat, m \in T
      PROVE  m + 1 \in T
  <2>1. PICK g : Flat(g, ss, m)
      BY <1>2
  <2> DEFINE h == [i \in 1 .. m + 1 |-> FlatAt(g, ss, i)]
  <2>2. ASSUME NEW i \in 1 .. m + 1, i # 1
        PROVE  h[i - 1] = g[i - 1]
    <3>1. i - 1 \in 1 .. m /\ i - 1 \in 1 .. m + 1
        BY <2>2
    <3> QED BY <2>1, <3>1 DEF Flat
  <2>3. ASSUME NEW i \in 1 .. m + 1
        PROVE  h[i] = FlatAt(h, ss, i)
    <3>1. h[i] = FlatAt(g, ss, i)
        OBVIOUS
    <3> HIDE DEF h
    <3> QED BY <2>2, <3>1 DEF FlatAt
  <2>4. h = [i \in 1 .. m + 1 |-> h[i]]
      OBVIOUS
  <2> HIDE DEF h
  <2>5. Flat(h, ss, m + 1)
      BY <2>3, <2>4 DEF Flat
  <2> QED BY <2>5
<1> HIDE DEF T
<1>3. Nat \subseteq T
    BY <1>1, <1>2, NumbersByInduction
<1> QED BY <1>3 DEF T

(* What FlattenSeq looks up is such a table.                                *)
LEMMA FlattenIsFlat ==
    ASSUME NEW ss, Len(ss) \in Nat \ {0}
    PROVE  \E g : Flat(g, ss, Len(ss)) /\ FlattenSeq(ss) = g[Len(ss)]
<1> DEFINE f == CHOOSE g : Flat(g, ss, Len(ss))
<1>1. Flat(f, ss, Len(ss))
    BY FlatExists
<1>2. FlattenSeq(ss) = f[Len(ss)]
    BY Zenon DEF FlattenSeq, Flat, FlatAt
<1> QED BY <1>1, <1>2

(* Appending two sequences puts together what they hold.                    *)
LEMMA AppendedHold ==
    ASSUME NEW S, NEW a \in Seq(S), NEW b \in Seq(S)
    PROVE  a \o b \in Seq(S) /\ SpanSet(a \o b) = SpanSet(a) \cup SpanSet(b)
<1>1. a \o b \in Seq(S) /\ Len(a \o b) = Len(a) + Len(b)
    OBVIOUS
<1>2. ASSUME NEW i \in DOMAIN a
      PROVE  a[i] \in SpanSet(a \o b)
  <2>1. i \in DOMAIN (a \o b) /\ (a \o b)[i] = a[i]
      BY <1>1
  <2> QED BY <2>1 DEF SpanSet
<1>3. ASSUME NEW i \in DOMAIN b
      PROVE  b[i] \in SpanSet(a \o b)
  <2>1. Len(a) + i \in DOMAIN (a \o b) /\ (a \o b)[Len(a) + i] = b[i]
      BY <1>1
  <2> QED BY <2>1 DEF SpanSet
<1>4. ASSUME NEW i \in DOMAIN (a \o b)
      PROVE  (a \o b)[i] \in SpanSet(a) \cup SpanSet(b)
  <2>1. CASE i <= Len(a)
    <3>1. i \in DOMAIN a /\ (a \o b)[i] = a[i]
        BY <1>1, <2>1
    <3> QED BY <3>1 DEF SpanSet
  <2>2. CASE i > Len(a)
    <3>1. i - Len(a) \in DOMAIN b /\ (a \o b)[i] = b[i - Len(a)]
        BY <1>1, <2>2
    <3> QED BY <3>1 DEF SpanSet
  <2> QED BY <1>1, <2>1, <2>2
<1>5. SpanSet(a) \cup SpanSet(b) \subseteq SpanSet(a \o b)
    BY <1>2, <1>3 DEF SpanSet
<1>6. SpanSet(a \o b) \subseteq SpanSet(a) \cup SpanSet(b)
  <2> SUFFICES ASSUME NEW x \in SpanSet(a \o b) PROVE x \in SpanSet(a) \cup SpanSet(b)
      OBVIOUS
  <2>1. PICK i \in DOMAIN (a \o b) : x = (a \o b)[i]
      BY DEF SpanSet
  <2> QED BY <1>4, <2>1
<1> QED BY <1>1, <1>5, <1>6

(* What the first m sequences of ss hold.                                   *)
Held(ss, m) == UNION {SpanSet(ss[n]) : n \in 1 .. m}

(* The first m + 1 of them hold what the first m do, and the next.          *)
LEMMA OneMoreHeld ==
    ASSUME NEW ss, NEW m \in Nat
    PROVE  /\ Held(ss, m + 1) = Held(ss, m) \cup SpanSet(ss[m + 1])
           /\ Held(ss, 1) = SpanSet(ss[1])
<1>1. 1 .. m + 1 = (1 .. m) \cup {m + 1} /\ 1 .. 1 = {1}
    OBVIOUS
<1> QED BY <1>1 DEF Held

(* What FlattenSeq returns holds the elements of the sequences it is given, *)
(* all of them and no other.                                                *)
LEMMA FlattenElements ==
    ASSUME NEW S, NEW ss \in Seq(Seq(S))
    PROVE  /\ FlattenSeq(ss) \in Seq(S)
           /\ SpanSet(FlattenSeq(ss)) = Held(ss, Len(ss))
<1>1. CASE ss = <<>>
  <2>1. FlattenSeq(ss) = ss
      BY <1>1 DEF FlattenSeq
  <2>2. SpanSet(ss) = {} /\ Held(ss, Len(ss)) = {}
    <3>1. Len(ss) = 0 /\ DOMAIN ss = {} /\ 1 .. 0 = {}
        BY <1>1
    <3>2. SpanSet(ss) = {}
        BY <3>1 DEF SpanSet
    <3>3. Held(ss, 0) = {}
        BY <3>1 DEF Held
    <3> QED BY <3>1, <3>2, <3>3
  <2>3. ss \in Seq(S)
      BY <1>1
  <2> QED BY <2>1, <2>2, <2>3
<1>2. CASE ss # <<>>
  <2>1. Len(ss) \in Nat \ {0} /\ DOMAIN ss = 1 .. Len(ss)
      BY <1>2
  <2>2. PICK f : Flat(f, ss, Len(ss)) /\ FlattenSeq(ss) = f[Len(ss)]
      BY <2>1, FlattenIsFlat
  <2> DEFINE Good(i) == f[i] \in Seq(S) /\ SpanSet(f[i]) = Held(ss, i)
             T == {m \in Nat : m + 1 \in 1 .. Len(ss) => Good(m + 1)}
  <2>3. ASSUME NEW i \in 1 .. Len(ss)
        PROVE  f[i] = FlatAt(f, ss, i) /\ ss[i] \in Seq(S)
    <3>1. f = [j \in 1 .. Len(ss) |-> FlatAt(f, ss, j)]
        BY <2>2 DEF Flat
    <3>2. f[i] = FlatAt(f, ss, i)
        BY Zenon, <3>1
    <3>3. ss[i] \in Seq(S)
        BY <2>1
    <3> QED BY <3>2, <3>3
  <2>4. 0 \in T
    <3>1. f[1] = ss[1] /\ ss[1] \in Seq(S)
        BY <2>1, <2>3 DEF FlatAt
    <3>2. Good(1)
        BY <3>1, OneMoreHeld
    <3> QED BY <3>2
  <2>5. ASSUME NEW m \in Nat, m \in T
        PROVE  m + 1 \in T
    <3> SUFFICES ASSUME (m + 1) + 1 \in 1 .. Len(ss)
                 PROVE  Good((m + 1) + 1)
        OBVIOUS
    <3> DEFINE i == (m + 1) + 1
    <3>1. i \in 1 .. Len(ss) /\ i # 1 /\ i - 1 = m + 1 /\ m + 1 \in 1 .. Len(ss)
        BY <2>1
    <3>2. Good(m + 1)
        BY <2>5, <3>1
    <3>3. f[i] = f[m + 1] \o ss[i] /\ ss[i] \in Seq(S)
      <4> HIDE DEF i
      <4> QED BY <2>3, <3>1 DEF FlatAt
    <3>4. Held(ss, i) = Held(ss, m + 1) \cup SpanSet(ss[i])
        BY OneMoreHeld
    <3> HIDE DEF i
    <3>5. f[i] \in Seq(S) /\ SpanSet(f[i]) = SpanSet(f[m + 1]) \cup SpanSet(ss[i])
        BY <3>2, <3>3, AppendedHold
    <3> QED BY <3>2, <3>4, <3>5 DEF i
  <2> HIDE DEF T
  <2>6. Nat \subseteq T
      BY <2>4, <2>5, NumbersByInduction
  <2>7. Len(ss) - 1 \in T /\ (Len(ss) - 1) + 1 = Len(ss) /\ Len(ss) \in 1 .. Len(ss)
      BY <2>1, <2>6
  <2>8. Good(Len(ss))
      BY <2>7 DEF T
  <2> QED BY <2>2, <2>8
<1> QED BY <1>1, <1>2

-----------------------------------------------------------------------------
(* The summaries a payload is made of: every turn has stages.               *)
WholeTurn == [turn : Int \cup {None}, totalMs : Nat \cup {None}, stages : Stages]
WholeSummary == {s \in TraceSummary : HasStages(s)}

(* Their turns are whole.                                                   *)
LEMMA WholeTurns ==
    ASSUME NEW summary \in WholeSummary
    PROVE  summary.turns \in Seq(WholeTurn) /\ summary \in TraceSummary
<1> DEFINE turns == summary.turns
<1>1. summary \in TraceSummary /\ HasStages(summary)
    BY DEF WholeSummary
<1>2. turns \in Seq(TurnEntry)
    BY <1>1 DEF TraceSummary
<1>3. \A t \in SpanSet(turns) : t # None /\ t.stages # None
    BY <1>1 DEF HasStages
<1> HIDE DEF turns
<1>4. ASSUME NEW n \in 1 .. Len(turns)
      PROVE  turns[n] \in WholeTurn
  <2>1. turns[n] \in TurnEntry /\ turns[n] \in SpanSet(turns)
      BY <1>2 DEF SpanSet
  <2>2. turns[n] # None /\ turns[n].stages # None
      BY <1>3, <2>1
  <2> DEFINE t == turns[n]
  <2>3. t \in [turn : Int \cup {None}, totalMs : Nat \cup {None}, stages : Stages \cup {None}]
      BY <2>1, <2>2 DEF TurnEntry
  <2> HIDE DEF t
  <2>4. t.stages # None
      BY <2>2 DEF t
  <2>5. t \in WholeTurn
      BY <2>3, <2>4 DEF WholeTurn
  <2> QED BY <2>5 DEF t
<1>5. turns \in Seq(WholeTurn)
    BY <1>2, <1>4
<1> QED BY <1>1, <1>5 DEF turns

(* The span of a stage of a turn, as the payload of a summary has it.       *)
StageSpan(summary, n, i) ==
    buildTurnSpans(summary.turns[n], TurnStart(summary, n))[i]

(* The stages of a whole turn are a sequence in which no name comes twice.  *)
LEMMA TurnShape ==
    ASSUME NEW t \in WholeTurn
    PROVE  /\ t.stages \in Seq(STRING \X Nat)
           /\ \A i, j \in DOMAIN t.stages : t.stages[i][1] = t.stages[j][1] => i = j
<1>1. t.stages \in Stages
    BY DEF WholeTurn
<1> QED BY Zenon, <1>1 DEF Stages

(* The spans of a payload are those of the stages of the turns.             *)
LEMMA PayloadHoldsStages ==
    ASSUME NEW summary \in WholeSummary
    PROVE  LET spans == summaryToIngestPayload(summary).spans
           IN  /\ spans \in Seq(SpanSet(spans))
               /\ \A n \in DOMAIN summary.turns : \A i \in DOMAIN summary.turns[n].stages :
                    StageSpan(summary, n, i) \in SpanSet(spans)
               /\ \A s \in SpanSet(spans) :
                    \E n \in DOMAIN summary.turns : \E i \in DOMAIN summary.turns[n].stages :
                      s = StageSpan(summary, n, i)
<1> DEFINE turns == summary.turns
           spans == summaryToIngestPayload(summary).spans
           Of(n) == buildTurnSpans(turns[n], TurnStart(summary, n))
           ss == [n \in DOMAIN turns |-> Of(n)]
           S == UNION {SpanSet(ss[n]) : n \in DOMAIN turns}
<1>1. turns \in Seq(WholeTurn) /\ DOMAIN turns = 1 .. Len(turns) /\ Len(turns) \in Nat
    BY WholeTurns
<1>2. spans = FlattenSeq(ss)
    BY DEF summaryToIngestPayload
<1>3. ASSUME NEW n \in DOMAIN turns
      PROVE  /\ DOMAIN Of(n) = DOMAIN turns[n].stages
             /\ \E len \in Nat : DOMAIN turns[n].stages = 1 .. len
  <2>1. turns[n].stages \in Seq(STRING \X Nat)
      BY <1>1, TurnShape
  <2> QED BY <2>1 DEF buildTurnSpans
<1>4. DOMAIN ss = DOMAIN turns /\ \A n \in DOMAIN turns : ss[n] = Of(n)
    OBVIOUS
<1> HIDE DEF Of, ss
<1>5. ASSUME NEW n \in DOMAIN turns
      PROVE  ss[n] \in Seq(S)
  <2>1. PICK len \in Nat : DOMAIN ss[n] = 1 .. len
      BY <1>3, <1>4
  <2>2. ASSUME NEW i \in 1 .. len PROVE ss[n][i] \in S
    <3>1. ss[n][i] \in SpanSet(ss[n])
        BY <2>1 DEF SpanSet
    <3> QED BY <3>1
  <2>3. ss[n] = [i \in 1 .. len |-> ss[n][i]]
      BY <1>3, <1>4, <2>1 DEF Of, buildTurnSpans
  <2> HIDE DEF S
  <2> QED BY <2>2, <2>3
<1>6. ss \in Seq(Seq(S)) /\ Len(ss) = Len(turns)
  <2>1. ss = [n \in 1 .. Len(turns) |-> ss[n]]
      BY <1>1 DEF ss
  <2> HIDE DEF S
  <2> QED BY <1>1, <1>5, <2>1
<1>7. spans \in Seq(S) /\ SpanSet(spans) = S
  <2>1. Held(ss, Len(ss)) = S
      BY <1>1, <1>6 DEF Held
  <2> HIDE DEF S
  <2> QED BY <1>2, <1>6, <2>1, FlattenElements
<1>8. ASSUME NEW n \in DOMAIN turns, NEW i \in DOMAIN turns[n].stages
      PROVE  StageSpan(summary, n, i) \in S
  <2>1. StageSpan(summary, n, i) = ss[n][i] /\ i \in DOMAIN ss[n]
      BY <1>3, <1>4 DEF StageSpan, Of
  <2> QED BY <2>1 DEF SpanSet
<1>9. ASSUME NEW s \in S
      PROVE  \E n \in DOMAIN turns : \E i \in DOMAIN turns[n].stages : s = StageSpan(summary, n, i)
  <2>1. PICK n \in DOMAIN turns : s \in SpanSet(ss[n])
      OBVIOUS
  <2>2. PICK i \in DOMAIN ss[n] : s = ss[n][i]
      BY <2>1 DEF SpanSet
  <2>3. s = StageSpan(summary, n, i) /\ i \in DOMAIN turns[n].stages
      BY <1>3, <1>4, <2>2 DEF StageSpan, Of
  <2> QED BY <2>3
<1> HIDE DEF S, spans
<1>10. /\ spans \in Seq(SpanSet(spans))
       /\ \A n \in DOMAIN turns : \A i \in DOMAIN turns[n].stages :
            StageSpan(summary, n, i) \in SpanSet(spans)
       /\ \A s \in SpanSet(spans) :
            \E n \in DOMAIN turns : \E i \in DOMAIN turns[n].stages : s = StageSpan(summary, n, i)
    BY <1>7, <1>8, <1>9
<1> QED BY <1>10 DEF spans

(* Storing a sequence of spans, none over another of its id nor with an id  *)
(* that is in use, stores one of every other id.                            *)
FirstOfEach(spans, n, ids) ==
    {spans[i] : i \in {i \in 1 .. n : /\ spans[i].id \notin ids
                                    /\ \A j \in 1 .. i - 1 : spans[j].id # spans[i].id}}

(* The store leaves no id of the payload out but those in use.              *)
LEMMA EveryIdStored ==
    ASSUME NEW spans, NEW n \in Nat, NEW k \in 1 .. n, NEW ids, spans[k].id \notin ids
    PROVE  \E s \in FirstOfEach(spans, n, ids) : s.id = spans[k].id
<1> DEFINE T == {i \in 1 .. n : spans[i].id = spans[k].id}
<1>1. T \subseteq Nat /\ T # {}
    OBVIOUS
<1>2. PICK i \in T : \A j \in T : i <= j
    BY <1>1, LeastNumber
<1>3. ASSUME NEW j \in 1 .. i - 1 PROVE spans[j].id # spans[i].id
    BY <1>2
<1>4. spans[i] \in FirstOfEach(spans, n, ids)
    BY <1>2, <1>3 DEF FirstOfEach
<1> QED BY <1>2, <1>4

(* Every stage of every turn is in the store, as a turn of that number has  *)
(* it, except where its id is in use; and nothing but what was sent.        *)
StageStored(spans, summary, t, i) ==
    \E s \in spans, u \in SpanSet(summary.turns) :
      /\ s.turn = t.turn /\ s.name = t.stages[i][1]
      /\ u.turn = t.turn /\ <<s.name, s.dur>> \in SpanSet(u.stages)
AllStored(spans, summary, ids, sent) ==
    /\ spans \subseteq SpanSet(sent)
    /\ \A t \in SpanSet(summary.turns) : \A i \in DOMAIN t.stages :
         <<t.turn, t.stages[i][1]>> \in ids \/ StageStored(spans, summary, t, i)

(* A payload that is stored whole has every stage of every turn in the      *)
(* store.                                                                   *)
LEMMA WholePayloadStored ==
    ASSUME NEW summary \in WholeSummary, NEW ids
    PROVE  LET spans == summaryToIngestPayload(summary).spans
           IN  AllStored(FirstOfEach(spans, Len(spans), ids), summary, ids, spans)
<1> DEFINE turns == summary.turns
           spans == summaryToIngestPayload(summary).spans
           kept == FirstOfEach(spans, Len(spans), ids)
<1>1. turns \in Seq(WholeTurn)
    BY WholeTurns
<1>2. /\ spans \in Seq(SpanSet(spans))
      /\ \A n \in DOMAIN turns : \A i \in DOMAIN turns[n].stages :
           StageSpan(summary, n, i) \in SpanSet(spans)
      /\ \A s \in SpanSet(spans) :
           \E n \in DOMAIN turns : \E i \in DOMAIN turns[n].stages : s = StageSpan(summary, n, i)
    BY PayloadHoldsStages
<1> HIDE DEF spans
<1>3. kept \subseteq SpanSet(spans)
    BY <1>2 DEF FirstOfEach, SpanSet
<1>4. ASSUME NEW n \in DOMAIN turns, NEW i \in DOMAIN turns[n].stages
      PROVE  LET x == StageSpan(summary, n, i)
             IN  /\ x.id = <<turns[n].turn, turns[n].stages[i][1]>>
                 /\ x.turn = turns[n].turn
                 /\ x.name = turns[n].stages[i][1] /\ x.dur = turns[n].stages[i][2]
    BY DEF StageSpan, buildTurnSpans
<1>5. ASSUME NEW n \in DOMAIN turns, NEW i \in DOMAIN turns[n].stages
      PROVE  <<turns[n].stages[i][1], turns[n].stages[i][2]>> \in SpanSet(turns[n].stages)
  <2> DEFINE q == turns[n].stages
  <2>1. turns[n] \in WholeTurn
      BY <1>1
  <2>2. q \in Seq(STRING \X Nat)
    <3> HIDE DEF turns
    <3> QED BY <2>1, TurnShape
  <2>3. i \in DOMAIN q
      OBVIOUS
  <2> HIDE DEF q
  <2>4. q[i] \in STRING \X Nat
      BY <2>2, <2>3
  <2>5. q[i] = <<q[i][1], q[i][2]>>
      BY <2>4
  <2> QED BY <2>3, <2>5 DEF SpanSet, q
<1>6. ASSUME NEW n \in DOMAIN turns, NEW i \in DOMAIN turns[n].stages,
             <<turns[n].turn, turns[n].stages[i][1]>> \notin ids
      PROVE  StageStored(kept, summary, turns[n], i)
  <2> DEFINE x == StageSpan(summary, n, i)
  <2>1. PICK k \in DOMAIN spans : x = spans[k]
      BY <1>2 DEF SpanSet
  <2>2. k \in 1 .. Len(spans) /\ Len(spans) \in Nat
      BY <1>2
  <2>3. x.id \notin ids
      BY <1>4, <1>6
  <2> HIDE DEF x
  <2>4. PICK s \in kept : s.id = x.id
      BY <2>1, <2>2, <2>3, EveryIdStored
  <2>5. PICK m \in DOMAIN turns :
          \E j \in DOMAIN turns[m].stages : s = StageSpan(summary, m, j)
      BY <1>2, <1>3, <2>4
  <2>6. PICK j \in DOMAIN turns[m].stages : s = StageSpan(summary, m, j)
      BY <2>5
  <2>7. x.id = <<turns[n].turn, turns[n].stages[i][1]>>
      BY <1>4 DEF x
  <2>8. /\ s.id = <<turns[m].turn, turns[m].stages[j][1]>>
        /\ s.turn = turns[m].turn
        /\ s.name = turns[m].stages[j][1] /\ s.dur = turns[m].stages[j][2]
      BY <1>4, <2>6
  <2>9. turns[m].turn = turns[n].turn /\ turns[m].stages[j][1] = turns[n].stages[i][1]
      BY <2>4, <2>7, <2>8
  <2>10. turns[m] \in SpanSet(turns) /\ <<s.name, s.dur>> \in SpanSet(turns[m].stages)
      BY <1>5, <2>8 DEF SpanSet
  <2> QED BY <2>4, <2>8, <2>9, <2>10 DEF StageStored
<1> HIDE DEF kept
<1>7. ASSUME NEW t \in SpanSet(turns), NEW i \in DOMAIN t.stages
      PROVE  <<t.turn, t.stages[i][1]>> \in ids \/ StageStored(kept, summary, t, i)
  <2>1. PICK n \in DOMAIN turns : t = turns[n]
      BY DEF SpanSet
  <2> QED BY <1>6, <1>7, <2>1
<1>8. AllStored(kept, summary, ids, spans)
    BY <1>3, <1>7 DEF AllStored
<1> QED BY <1>8 DEF kept, spans

(* What is true of a run until its link is in the comment: the payload that *)
(* is sent is that of the summary; before the link is asked for all of it   *)
(* is stored; who is told a link has one.                                   *)
WholeStored(st, sent, summary, ids) ==
    st # None /\ st.trace = sent.trace /\ AllStored(st.spans, summary, ids, sent.spans)

LinkInv ==
    /\ pc = "ingest" => HasStages(current) /\ payload = summaryToIngestPayload(current)
    /\ pc = "share" => WholeStored(stored, payload, current, taken)
    /\ shareUrl => /\ pc \in {"compare", "done"}
                   /\ minted /\ WholeStored(stored, payload, current, taken)
    /\ (result # None /\ result.comment # None) => (result.comment.linked => shareUrl)

(* A comment has the link it is given.                                      *)
LEMMA CommentLinked ==
    ASSUME NEW verdict, NEW threshold, NEW linked
    PROVE  renderComment(verdict, threshold, linked).linked = linked
<1> DEFINE percent == IF verdict.delta = None THEN None
                      ELSE fmtDelta(verdict.delta[1], verdict.delta[2])
           limit   == IF threshold = NaN THEN NaN ELSE Percent(threshold, 1000)
           table   == IF Variant(verdict) = "pass" THEN <<0, 0, 0>> ELSE TurnTable(verdict.turns)
<1>1. renderComment(verdict, threshold, linked) =
        [variant |-> Variant(verdict), linked |-> linked, percent |-> percent,
         threshold |-> limit, table |-> table]
    BY Zenon DEF renderComment
<1> HIDE DEF percent, limit, table
<1> QED BY <1>1

(* A run begins without a link.                                             *)
LEMMA LinkInvInit ==
    ASSUME Init
    PROVE  LinkInv
  BY DEF Init, LinkInv

(* The ingest that is answered 202 has stored all the run has.              *)
LEMMA AcceptedIsWhole ==
    ASSUME NoneIsNoRecord, RunInv, LinkInv, IngestAccepted
    PROVE  WholeStored(stored', payload, current, taken)
<1> DEFINE spans == payload.spans
           kept == FirstOfEach(spans, Len(spans), taken)
<1>1. /\ payload = summaryToIngestPayload(current) /\ current \in TraceFiles \ {Unreadable}
      /\ HasStages(current)
    BY DEF IngestAccepted, LinkInv, RunInv, TypeOK
<1>2. stored' = [trace |-> payload.trace, spans |-> kept]
    BY DEF IngestAccepted, Store, FirstOfEach
<1>3. current \in WholeSummary
    BY <1>1, FilesAssumption DEF WholeSummary
<1>4. AllStored(kept, current, taken, spans)
    BY <1>1, <1>3, WholePayloadStored
<1> HIDE DEF kept
<1>5. stored' # None /\ stored'.trace = payload.trace /\ stored'.spans = kept
    BY <1>2 DEF NoneIsNoRecord
<1> QED BY <1>4, <1>5 DEF WholeStored

(* Every step of a run keeps it.                                            *)
LEMMA LinkInvStep ==
    ASSUME NoneIsNoRecord, RunInv, LinkInv, [Next]_vars
    PROVE  LinkInv'
<1> USE DEF LinkInv, backend
<1>1. CASE Main
  <2>1. pc = "main" /\ (result' = [exit |-> 2, comment |-> None] \/ result' = result)
      BY <1>1 DEF Main
  <2>2. result'.comment = None \/ result' = result
      BY <2>1
  <2> QED BY <1>1, <2>2 DEF Main
<1>2. CASE ReadTrace
  <2>1. pc = "trace" /\ (result' = [exit |-> 2, comment |-> None] \/ result' = result)
      BY <1>2 DEF ReadTrace
  <2>2. result'.comment = None \/ result' = result
      BY <2>1
  <2> QED BY <1>2, <2>2 DEF ReadTrace
<1>3. CASE ReadBaseline
    BY <1>3 DEF ReadBaseline
<1>4. CASE IngestAccepted
    BY <1>4, AcceptedIsWhole DEF IngestAccepted
<1>5. CASE IngestFails
    BY <1>5 DEF IngestFails
<1>6. CASE ShareMinted
    BY <1>6 DEF ShareMinted
<1>7. CASE ShareFails
    BY <1>7 DEF ShareFails
<1>8. CASE Compare
  <2> DEFINE verdict == Verdict(current, baseline, opts.threshold)
             e == IF verdict.regression /\ opts.failOnRegression THEN 1 ELSE 0
  <2>1. /\ pc = "compare" /\ pc' = "done"
        /\ result' = [exit |-> e, comment |-> renderComment(verdict, opts.threshold, shareUrl)]
        /\ UNCHANGED <<input, files, opts, current, baseline, payload, shareUrl, backend>>
      BY <1>8 DEF Compare
  <2> HIDE DEF verdict, e
  <2>2. result'.comment = renderComment(verdict, opts.threshold, shareUrl)
      BY <2>1
  <2>3. result'.comment.linked = shareUrl
      BY <2>2, CommentLinked
  <2> QED BY <2>1, <2>3
<1>9. CASE OpenPage
    BY <1>9 DEF OpenPage
<1>10. CASE UNCHANGED vars
    BY <1>10 DEF vars
<1>11. CASE CompareThrows
  <2>1. /\ pc = "compare" /\ pc' = "done" /\ result' = [exit |-> 1, comment |-> None]
        /\ UNCHANGED <<input, files, opts, current, baseline, payload, shareUrl, backend>>
      BY <1>11 DEF CompareThrows
  <2>2. result'.comment = None
      BY <2>1
  <2> QED BY <2>1, <2>2
<1> QED
    BY <1>1, <1>2, <1>3, <1>4, <1>5, <1>6, <1>7, <1>8, <1>9, <1>10, <1>11 DEF Next

(* However the requests of a run fail, a comment with a link means that the *)
(* backend signed it and has stored every stage of every turn of the file   *)
(* under the run's trace, with the duration that a turn of that number has, *)
(* and nothing else; except a stage whose span id another trace's span has, *)
(* for any set of such ids and any files, whole or not (client.ts,          *)
(* entry.ts, pgSpanStore.ts).                                               *)
THEOREM LinkIsForThisRun ==
    ASSUME NoneIsNoRecord
    PROVE  Spec => []LinkMeansStored
<1>1. Init => RunInv /\ LinkInv
    BY RunInvInit, LinkInvInit
<1>2. RunInv /\ LinkInv /\ [Next]_vars => (RunInv /\ LinkInv)'
    BY RunInvStep, LinkInvStep
<1>3. LinkInv => LinkMeansStored
    BY DEF LinkInv, LinkMeansStored, WholeStored, AllStored, StageStored
<1> QED
    BY <1>1, <1>2, <1>3, PTL DEF Spec

-----------------------------------------------------------------------------
(* The command line.  parseArgs reads it from left to right; a table g of   *)
(* what it makes of the words from each place on.                           *)
NextWord(argv, i) == IF i < Len(argv) THEN argv[i + 1] ELSE ""
Word(a, next, later1, later2) ==
    IF a = "--dry-run" THEN Put(later1, "dryRun", "true")
    ELSE IF a \in DOMAIN ValueFlags /\ next # "" THEN Put(later2, ValueFlags[a], next)
    ELSE IF a = "--fail-on-regression" THEN Put(later1, ValueFlags[a], "true")
    ELSE later1
NoOptions == [option \in OptionNames |-> ""]
ParseAt(g, argv, i) ==
    IF i > Len(argv) THEN NoOptions ELSE Word(argv[i], NextWord(argv, i), g[i + 1], g[i + 2])
Parse(g, argv) == g = [i \in 1 .. Len(argv) + 2 |-> ParseAt(g, argv, i)]

(* There is such a table.                                                   *)
LEMMA ParseExists ==
    ASSUME NEW argv, Len(argv) \in Nat
    PROVE  \E g : Parse(g, argv)
<1> DEFINE L == Len(argv) + 2
           From(m) == L - m .. L
           Table(g, m) == g = [i \in From(m) |-> ParseAt(g, argv, i)]
           T == {m \in Nat : m < L => \E g : Table(g, m)}
<1>1. 0 \in T
  <2>1. ASSUME NEW g PROVE ParseAt(g, argv, L) = NoOptions
      BY DEF ParseAt
  <2> DEFINE h == [i \in From(0) |-> NoOptions]
  <2>2. ASSUME NEW i \in From(0) PROVE h[i] = NoOptions /\ ParseAt(h, argv, i) = NoOptions
    <3>1. i = L
        OBVIOUS
    <3> HIDE DEF h
    <3>2. ParseAt(h, argv, i) = NoOptions
        BY <2>1, <3>1
    <3> QED BY <3>2 DEF h
  <2>3. h = [i \in From(0) |-> h[i]]
      OBVIOUS
  <2> HIDE DEF h
  <2>4. Table(h, 0)
      BY <2>2, <2>3
  <2> QED BY <2>4
<1>2. ASSUME NEW m \in Nat, m \in T
      PROVE  m + 1 \in T
  <2> SUFFICES ASSUME m + 1 < L PROVE \E g : Table(g, m + 1)
      OBVIOUS
  <2>1. PICK g : Table(g, m)
      BY <1>2
  <2> DEFINE h == [i \in From(m + 1) |-> ParseAt(g, argv, i)]
  <2> HIDE DEF L
  <2>2. ASSUME NEW i \in From(m)
        PROVE  h[i] = g[i]
    <3>1. i \in From(m + 1)
        BY DEF L
    <3> QED BY <2>1, <3>1
  <2>3. ASSUME NEW i \in From(m + 1)
        PROVE  h[i] = ParseAt(h, argv, i)
    <3>1. h[i] = ParseAt(g, argv, i)
        OBVIOUS
    <3> HIDE DEF h
    <3>2. CASE i > Len(argv)
        BY <3>1, <3>2 DEF ParseAt
    <3>3. CASE ~(i > Len(argv))
      <4>1. i + 1 \in From(m) /\ i + 2 \in From(m)
          BY <3>3 DEF L
      <4>2. h[i + 1] = g[i + 1] /\ h[i + 2] = g[i + 2]
          BY <2>2, <4>1
      <4> QED BY <3>1, <4>2 DEF ParseAt
    <3> QED BY <3>2, <3>3
  <2>4. h = [i \in From(m + 1) |-> h[i]]
      OBVIOUS
  <2> HIDE DEF h
  <2>5. Table(h, m + 1)
      BY <2>3, <2>4
  <2> QED BY <2>5
<1> HIDE DEF T
<1>3. Nat \subseteq T
    BY <1>1, <1>2, NumbersByInduction
<1>4. L - 1 \in T /\ L - 1 < L /\ From(L - 1) = 1 .. L
    BY <1>3
<1>5. PICK g : Table(g, L - 1)
    BY <1>4 DEF T
<1>6. Parse(g, argv)
    BY <1>4, <1>5 DEF Parse
<1> QED BY <1>6

(* What parseArgs returns is the first row of such a table.                 *)
LEMMA ParseArgsParses ==
    ASSUME NEW argv, Len(argv) \in Nat
    PROVE  \E g : Parse(g, argv) /\ parseArgs(argv) = g[1]
<1> DEFINE f == CHOOSE g : Parse(g, argv)
<1>1. Parse(f, argv)
    BY ParseExists
<1>2. parseArgs(argv) = f[1]
    BY Zenon DEF parseArgs, Parse, ParseAt, Word, NextWord, NoOptions
<1> QED BY <1>1, <1>2

(* The words from the third place on are read as if they were alone.        *)
LEMMA ReadAsAlone ==
    ASSUME NEW S, NEW a \in S, NEW b \in S, NEW rest \in Seq(S),
           NEW f, Parse(f, <<a, b>> \o rest), NEW g, Parse(g, rest)
    PROVE  f[3] = g[1]
<1> DEFINE argv == <<a, b>> \o rest
           L == Len(rest) + 2
           T == {m \in Nat : \A i \in 1 .. L : i >= L - m => f[i + 2] = g[i]}
<1>1. /\ Len(rest) \in Nat /\ Len(argv) = L
      /\ \A i \in 1 .. Len(rest) : argv[i + 2] = rest[i]
    OBVIOUS
<1> HIDE DEF argv
<1>2. ASSUME NEW i \in 1 .. L
      PROVE  f[i + 2] = ParseAt(f, argv, i + 2) /\ g[i] = ParseAt(g, rest, i)
  <2>1. f = [j \in 1 .. Len(argv) + 2 |-> ParseAt(f, argv, j)]
      BY DEF Parse, argv
  <2>2. g = [j \in 1 .. L |-> ParseAt(g, rest, j)]
      BY DEF Parse
  <2>3. i + 2 \in 1 .. Len(argv) + 2
      BY <1>1
  <2>4. f[i + 2] = ParseAt(f, argv, i + 2)
      BY Zenon, <2>1, <2>3
  <2>5. g[i] = ParseAt(g, rest, i)
      BY Zenon, <2>2
  <2> QED BY <2>4, <2>5
<1>3. ASSUME NEW i \in 1 .. L, i > Len(rest)
      PROVE  f[i + 2] = g[i]
  <2>1. i + 2 > Len(argv)
      BY <1>1, <1>3
  <2> QED BY <1>2, <1>3, <2>1 DEF ParseAt
<1>4. ASSUME NEW i \in 1 .. Len(rest), f[i + 3] = g[i + 1], f[i + 4] = g[i + 2]
      PROVE  f[i + 2] = g[i]
  <2>1. i \in 1 .. L /\ ~(i + 2 > Len(argv)) /\ ~(i > Len(rest))
        /\ (i + 2) + 1 = i + 3 /\ (i + 2) + 2 = i + 4
      BY <1>1
  <2>2. argv[i + 2] = rest[i]
      BY <1>1
  <2>3. NextWord(argv, i + 2) = NextWord(rest, i)
    <3>1. CASE i < Len(rest)
      <4>1. i + 1 \in 1 .. Len(rest) /\ (i + 1) + 2 = (i + 2) + 1 /\ i + 2 < Len(argv)
          BY <1>1, <3>1
      <4>2. argv[(i + 1) + 2] = rest[i + 1]
          BY <1>1, <4>1
      <4>3. argv[(i + 2) + 1] = rest[i + 1]
          BY <4>1, <4>2
      <4> QED BY Zenon, <3>1, <4>1, <4>3 DEF NextWord
    <3>2. CASE ~(i < Len(rest))
      <4>1. ~(i + 2 < Len(argv))
          BY <1>1, <3>2
      <4> QED BY Zenon, <3>2, <4>1 DEF NextWord
    <3> QED BY <3>1, <3>2
  <2>4. f[i + 2] = Word(argv[i + 2], NextWord(argv, i + 2), f[i + 3], f[i + 4])
      BY <1>2, <2>1 DEF ParseAt
  <2>5. g[i] = Word(rest[i], NextWord(rest, i), g[i + 1], g[i + 2])
      BY <1>2, <2>1 DEF ParseAt
  <2> QED BY Zenon, <1>4, <2>2, <2>3, <2>4, <2>5
<1>5. 0 \in T
    BY <1>1, <1>3
<1>6. ASSUME NEW m \in Nat, m \in T
      PROVE  m + 1 \in T
  <2> SUFFICES ASSUME NEW i \in 1 .. L, i >= L - (m + 1)
               PROVE  f[i + 2] = g[i]
      OBVIOUS
  <2>1. CASE i > Len(rest)
      BY <1>3, <2>1
  <2>2. CASE i <= Len(rest)
    <3>1. i \in 1 .. Len(rest) /\ i + 1 \in 1 .. L /\ i + 1 >= L - m
          /\ i + 2 \in 1 .. L /\ i + 2 >= L - m
          /\ (i + 1) + 2 = i + 3 /\ (i + 2) + 2 = i + 4
        BY <1>1, <2>2
    <3>2. f[i + 3] = g[i + 1] /\ f[i + 4] = g[i + 2]
        BY <1>6, <3>1
    <3> QED BY <1>4, <3>1, <3>2
  <2> QED BY <1>1, <2>1, <2>2
<1> HIDE DEF T
<1>7. Nat \subseteq T
    BY <1>5, <1>6, NumbersByInduction
<1>8. L \in T /\ 1 \in 1 .. L /\ 1 >= L - L
    BY <1>1, <1>7
<1> QED BY <1>8 DEF T

(* What a flag and its word add to what is said after them.                 *)
Given(f, x, later) ==
    IF x # "" THEN Put(later, ValueFlags[f], x)
    ELSE IF f = "--fail-on-regression" THEN Put(later, ValueFlags[f], "true")
    ELSE later

(* The flags, and the options they set.                                     *)
LEMMA Flags ==
    /\ DOMAIN ValueFlags =
         {"--trace", "--baseline", "--threshold", "--fail-on-regression", "--backend-url",
          "--ingest-key", "--dashboard-key", "--version"}
    /\ ValueFlags["--trace"] = "tracePath" /\ ValueFlags["--baseline"] = "baselinePath"
    /\ ValueFlags["--threshold"] = "threshold"
    /\ ValueFlags["--fail-on-regression"] = "failOnRegression"
    /\ ValueFlags["--backend-url"] = "backendUrl" /\ ValueFlags["--ingest-key"] = "ingestKey"
    /\ ValueFlags["--dashboard-key"] = "dashboardKey" /\ ValueFlags["--version"] = "version"
  BY DEF ValueFlags

(* A flag that takes a value, and the word that follows, read as one; a     *)
(* blank word is skipped.                                                   *)
LEMMA ParseGiven ==
    ASSUME NEW S, NEW f \in S, f \in DOMAIN ValueFlags, NEW x \in S, NEW rest \in Seq(S)
    PROVE  parseArgs(<<f, x>> \o rest) = Given(f, x, parseArgs(rest))
<1> DEFINE argv == <<f, x>> \o rest
<1>1. f # "--dry-run" /\ "" \notin DOMAIN ValueFlags
  <2>1. f # "--dry-run"
      BY Flags
  <2>2. "" \notin DOMAIN ValueFlags
      BY Flags
  <2> QED BY <2>1, <2>2
<1>2. Len(rest) \in Nat /\ Len(argv) = Len(rest) + 2 /\ argv[1] = f /\ argv[2] = x
    OBVIOUS
<1>3. PICK t : Parse(t, argv) /\ parseArgs(argv) = t[1]
    BY <1>2, ParseArgsParses
<1>4. PICK g : Parse(g, rest) /\ parseArgs(rest) = g[1]
    BY <1>2, ParseArgsParses
<1>5. t[3] = g[1]
  <2>1. Parse(t, <<f, x>> \o rest) /\ Parse(g, rest)
      BY Zenon, <1>3, <1>4
  <2> HIDE DEF argv
  <2> QED BY <2>1, ReadAsAlone
<1> HIDE DEF argv
<1>6. ASSUME NEW i \in 1 .. 2
      PROVE  t[i] = Word(argv[i], NextWord(argv, i), t[i + 1], t[i + 2])
  <2>1. i \in 1 .. Len(argv) + 2 /\ ~(i > Len(argv))
      BY <1>2
  <2>2. t = [j \in 1 .. Len(argv) + 2 |-> ParseAt(t, argv, j)]
      BY <1>3 DEF Parse
  <2>3. t[i] = ParseAt(t, argv, i)
      BY Zenon, <2>1, <2>2
  <2> QED BY <2>1, <2>3 DEF ParseAt
<1>7. t[1] = Word(f, x, t[2], t[3])
  <2>1. 1 < Len(argv) /\ 1 + 1 = 2
      BY <1>2
  <2>2. NextWord(argv, 1) = x
      BY Zenon, <1>2, <2>1 DEF NextWord
  <2>3. t[1] = Word(argv[1], NextWord(argv, 1), t[1 + 1], t[1 + 2])
      BY <1>6
  <2>4. 1 + 2 = 3
      OBVIOUS
  <2> QED BY Zenon, <1>2, <2>1, <2>2, <2>3, <2>4
<1>8. x = "" => t[2] = t[3]
  <2>1. 2 \in 1 .. 2 /\ 2 + 1 = 3 /\ 2 + 2 = 4
      OBVIOUS
  <2>2. t[2] = Word(argv[2], NextWord(argv, 2), t[2 + 1], t[2 + 2])
      BY Zenon, <1>6, <2>1
  <2>3. t[2] = Word(x, NextWord(argv, 2), t[3], t[4])
      BY Zenon, <1>2, <2>1, <2>2
  <2> QED BY Zenon, <1>1, <2>3 DEF Word
<1>9. CASE x # ""
  <2>1. t[1] = Put(t[3], ValueFlags[f], x)
      BY Zenon, <1>1, <1>7, <1>9 DEF Word
  <2> QED BY Zenon, <1>3, <1>4, <1>5, <1>9, <2>1 DEF Given, argv
<1>10. CASE x = ""
  <2>1. t[1] = IF f = "--fail-on-regression" THEN Put(t[2], ValueFlags[f], "true") ELSE t[2]
      BY Zenon, <1>1, <1>7, <1>10 DEF Word
  <2> QED BY Zenon, <1>3, <1>4, <1>5, <1>8, <1>10, <2>1 DEF Given, argv
<1> QED BY <1>9, <1>10

(* The words of a command line.                                             *)
Words == STRING \cup {"", "true", "--dry-run"} \cup DOMAIN ValueFlags

(* Every option but k is the same, and what an option is.                   *)
SameBut(q, p, k) ==
    q \in [OptionNames -> Words] /\ \A o \in OptionNames \ {k} : q[o] = p[o]
HasWord(q, o, w) == q[o] = w

(* An option that is put where it is not yet has the word; others stay.     *)
LEMMA PutSays ==
    ASSUME NEW p \in [OptionNames -> Words], NEW k \in OptionNames, NEW v \in Words
    PROVE  /\ Put(p, k, v) \in [OptionNames -> Words]
           /\ SameBut(Put(p, k, v), p, k)
           /\ HasWord(p, k, "") => HasWord(Put(p, k, v), k, v)
  BY DEF Put, SameBut, HasWord

(* A flag sets its option where nothing after it does, and no other.        *)
LEMMA GivenStep ==
    ASSUME NEW f \in DOMAIN ValueFlags, NEW x \in Words, NEW p \in [OptionNames -> Words],
           NEW q, q = Given(f, x, p), NEW k, k = ValueFlags[f]
    PROVE  /\ q \in [OptionNames -> Words] /\ SameBut(q, p, k)
           /\ (HasWord(p, k, "") /\ f # "--fail-on-regression") => HasWord(q, k, x)
           /\ (HasWord(p, k, "") /\ f = "--fail-on-regression") =>
                HasWord(q, k, IF x = "" THEN "true" ELSE x)
<1>1. k \in OptionNames
    BY DEF OptionNames
<1>2. CASE x # ""
  <2>1. q = Put(p, k, x)
      BY <1>2 DEF Given
  <2>2. /\ q \in [OptionNames -> Words]
        /\ SameBut(q, p, k) /\ (HasWord(p, k, "") => HasWord(q, k, x))
      BY <1>1, <2>1, PutSays
  <2> QED BY Zenon, <1>2, <2>2
<1>3. CASE x = "" /\ f = "--fail-on-regression"
  <2>1. q = Put(p, k, "true") /\ "true" \in Words
      BY <1>3 DEF Given, Words
  <2>2. /\ q \in [OptionNames -> Words]
        /\ SameBut(q, p, k) /\ (HasWord(p, k, "") => HasWord(q, k, "true"))
      BY <1>1, <2>1, PutSays
  <2> QED BY Zenon, <1>3, <2>2
<1>4. CASE x = "" /\ f # "--fail-on-regression"
  <2>1. q = p
      BY <1>4 DEF Given
  <2> QED BY Zenon, <1>4, <2>1 DEF SameBut, HasWord
<1> QED BY <1>2, <1>3, <1>4

(* Words that are appended in any grouping are in one order.                *)
LEMMA Regrouped ==
    ASSUME NEW S, NEW a \in Seq(S), NEW b \in Seq(S), NEW c \in Seq(S)
    PROVE  (a \o b) \o c = a \o (b \o c)
  OBVIOUS

(* The same, of six pieces.                                                *)
OneOrder(a, b, c, d, e, f) ==
    ((((a \o b) \o c) \o d) \o e) \o f = a \o (b \o (c \o (d \o (e \o f))))

(* Six sequences may be appended in either grouping.                        *)
LEMMA RegroupedAll ==
    ASSUME NEW S, NEW a \in Seq(S), NEW b \in Seq(S), NEW c \in Seq(S), NEW d \in Seq(S),
           NEW e \in Seq(S), NEW f \in Seq(S)
    PROVE  OneOrder(a, b, c, d, e, f)
<1>1. e \o f \in Seq(S) /\ a \o b \in Seq(S)
    OBVIOUS
<1>2. d \o (e \o f) \in Seq(S) /\ (a \o b) \o c \in Seq(S)
    BY <1>1
<1>3. c \o (d \o (e \o f)) \in Seq(S) /\ ((a \o b) \o c) \o d \in Seq(S)
    BY <1>1, <1>2
<1> DEFINE abcd == ((a \o b) \o c) \o d  abc == (a \o b) \o c  ab == a \o b
           ef == e \o f  def == d \o (e \o f)  cdef == c \o (d \o (e \o f))
<1>4. (abcd \o e) \o f = abcd \o ef
  <2>1. abcd \in Seq(S)
      BY <1>3
  <2> HIDE DEF abcd
  <2> QED BY <2>1
<1>5. (abc \o d) \o ef = abc \o (d \o ef)
  <2>1. abc \in Seq(S) /\ ef \in Seq(S)
      BY <1>1, <1>2
  <2> HIDE DEF abc, ef
  <2> QED BY <2>1
<1>6. (ab \o c) \o def = ab \o (c \o def)
  <2>1. ab \in Seq(S) /\ def \in Seq(S)
      BY <1>1, <1>2
  <2> HIDE DEF ab, def
  <2> QED BY <2>1
<1>7. (a \o b) \o cdef = a \o (b \o cdef)
  <2>1. cdef \in Seq(S)
      BY <1>3
  <2> HIDE DEF cdef
  <2> QED BY <2>1
<1> QED BY Zenon, <1>4, <1>5, <1>6, <1>7 DEF OneOrder

(* A flag that action.yml leaves out where its input is blank.              *)
IfGiven(f, x) == IF x # "" THEN <<f, x>> ELSE <<>>

(* Such a flag sets its option unless a later word did, and nothing else.   *)
LEMMA ParseIfGiven ==
    ASSUME NEW S, NEW f \in S, f \in DOMAIN ValueFlags, f # "--fail-on-regression",
           NEW x \in S, NEW rest \in Seq(S)
    PROVE  /\ IfGiven(f, x) \in Seq(S)
           /\ IfGiven(f, x) \o rest \in Seq(S)
           /\ parseArgs(IfGiven(f, x) \o rest) = Given(f, x, parseArgs(rest))
<1>1. CASE x # ""
  <2>1. IfGiven(f, x) = <<f, x>>
      BY <1>1 DEF IfGiven
  <2> QED BY <2>1, ParseGiven
<1>2. CASE x = ""
  <2>1. IfGiven(f, x) = <<>>
      BY <1>2 DEF IfGiven
  <2>3. <<>> \o rest = rest /\ <<>> \in Seq(S)
      OBVIOUS
  <2>2. Given(f, x, parseArgs(rest)) = parseArgs(rest)
      BY <1>2 DEF Given
  <2> QED BY <2>1, <2>2, <2>3
<1> QED BY <1>1, <1>2

(* "--dry-run" sets no option but its own.                                  *)
DryRun(x) == IF x = "true" THEN <<"--dry-run">> ELSE <<>>

(* At the end of the command line it leaves all other options blank.        *)
LEMMA ParseDryRun ==
    ASSUME NEW x
    PROVE  /\ parseArgs(DryRun(x)) \in [OptionNames -> Words]
           /\ \A o \in OptionNames \ {"dryRun"} : parseArgs(DryRun(x))[o] = ""
<1> DEFINE argv == DryRun(x)
<1>1. argv = <<>> \/ argv = <<"--dry-run">>
    BY DEF DryRun
<1> HIDE DEF argv
<1>2. Len(argv) \in Nat /\ Len(argv) \in 0 .. 1
    BY <1>1
<1>3. PICK t : Parse(t, argv) /\ parseArgs(argv) = t[1]
    BY <1>2, ParseArgsParses
<1>4. ASSUME NEW i \in 1 .. Len(argv) + 2
      PROVE  t[i] = ParseAt(t, argv, i)
  <2>1. t = [j \in 1 .. Len(argv) + 2 |-> ParseAt(t, argv, j)]
      BY <1>3 DEF Parse
  <2> QED BY Zenon, <2>1
<1>5. NoOptions \in [OptionNames -> Words] /\ \A o \in OptionNames : NoOptions[o] = ""
    BY DEF NoOptions, Words
<1>6. CASE argv = <<>>
  <2>1. 1 \in 1 .. Len(argv) + 2 /\ 1 > Len(argv)
      BY <1>6
  <2>2. t[1] = NoOptions
      BY <1>4, <2>1 DEF ParseAt
  <2> QED BY <1>3, <1>5, <2>2 DEF argv
<1>7. CASE argv = <<"--dry-run">>
  <2>1. /\ 1 \in 1 .. Len(argv) + 2 /\ ~(1 > Len(argv)) /\ 1 + 1 = 2
        /\ 2 \in 1 .. Len(argv) + 2 /\ 2 > Len(argv) /\ argv[1] = "--dry-run"
      BY <1>7
  <2>2. t[2] = NoOptions
      BY <1>4, <2>1 DEF ParseAt
  <2>3. t[1] = Word(argv[1], NextWord(argv, 1), t[1 + 1], t[1 + 2])
      BY <1>4, <2>1 DEF ParseAt
  <2>4. t[1] = Put(NoOptions, "dryRun", "true")
      BY Zenon, <2>1, <2>2, <2>3 DEF Word
  <2>5. "dryRun" \in OptionNames
      BY DEF OptionNames
  <2>6. "true" \in Words
      BY DEF Words
  <2>7. /\ Put(NoOptions, "dryRun", "true") \in [OptionNames -> Words]
        /\ SameBut(Put(NoOptions, "dryRun", "true"), NoOptions, "dryRun")
    <3>1. NoOptions \in [OptionNames -> Words]
        BY <1>5
    <3> QED BY <2>5, <2>6, <3>1, PutSays
  <2> QED BY <1>3, <1>5, <2>4, <2>7 DEF argv, SameBut
<1> QED BY <1>1, <1>6, <1>7

(* The command line of action.yml, read by parseArgs, says what the inputs  *)
(* say, blank where they are; a blank --fail-on-regression says true.       *)
LEMMA ArgvSays ==
    ASSUME NEW in \in Inputs
    PROVE  LET p == parseArgs(Argv(in))
           IN  /\ p["tracePath"] = in.trace /\ p["baselinePath"] = in.baseline
               /\ p["threshold"] = in.threshold
               /\ p["failOnRegression"] = IF in.fail = "" THEN "true" ELSE in.fail
<1> DEFINE d == DryRun(in.dryRun)
           r5 == IfGiven("--dashboard-key", in.dashboardKey) \o d
           r4 == IfGiven("--ingest-key", in.ingestKey) \o r5
           r3 == IfGiven("--backend-url", in.backend) \o r4
           r2 == IfGiven("--baseline", in.baseline) \o r3
           r1 == <<"--version", in.version>> \o r2
           rF == <<"--fail-on-regression", in.fail>> \o r1
           rH == <<"--threshold", in.threshold>> \o rF
           rT == <<"--trace", in.trace>> \o rH
<1>1. /\ in.trace \in Words /\ in.baseline \in Words /\ in.threshold \in Words
      /\ in.fail \in Words /\ in.version \in Words /\ in.backend \in Words
      /\ in.ingestKey \in Words /\ in.dashboardKey \in Words
    BY InputsAssumption DEF Words
<1>2. /\ DOMAIN ValueFlags \subseteq Words
      /\ "--trace" \in DOMAIN ValueFlags /\ "--threshold" \in DOMAIN ValueFlags
      /\ "--fail-on-regression" \in DOMAIN ValueFlags /\ "--version" \in DOMAIN ValueFlags
      /\ "--baseline" \in DOMAIN ValueFlags /\ "--backend-url" \in DOMAIN ValueFlags
      /\ "--ingest-key" \in DOMAIN ValueFlags /\ "--dashboard-key" \in DOMAIN ValueFlags
    BY Flags DEF Words
<1>3. OptionNames = {"tracePath", "baselinePath", "threshold", "failOnRegression", "backendUrl",
                     "ingestKey", "dashboardKey", "version", "dryRun"}
    BY Flags DEF OptionNames
<1>4. d \in Seq(Words)
  <2>1. "--dry-run" \in Words
      BY DEF Words
  <2> QED BY <2>1 DEF DryRun
<1> HIDE DEF d
<1>5. r5 \in Seq(Words) /\ parseArgs(r5) = Given("--dashboard-key", in.dashboardKey, parseArgs(d))
  <2>1. /\ "--dashboard-key" \in Words /\ "--dashboard-key" \in DOMAIN ValueFlags
        /\ "--dashboard-key" # "--fail-on-regression" /\ in.dashboardKey \in Words
      BY <1>1, <1>2
  <2>2. /\ IfGiven("--dashboard-key", in.dashboardKey) \o d \in Seq(Words)
        /\ parseArgs(IfGiven("--dashboard-key", in.dashboardKey) \o d) =
             Given("--dashboard-key", in.dashboardKey, parseArgs(d))
      BY <1>4, <2>1, ParseIfGiven
  <2> QED BY <2>2
<1> HIDE DEF r5
<1>6. r4 \in Seq(Words) /\ parseArgs(r4) = Given("--ingest-key", in.ingestKey, parseArgs(r5))
  <2>1. /\ "--ingest-key" \in Words /\ "--ingest-key" \in DOMAIN ValueFlags
        /\ "--ingest-key" # "--fail-on-regression" /\ in.ingestKey \in Words
      BY <1>1, <1>2
  <2>2. /\ IfGiven("--ingest-key", in.ingestKey) \o r5 \in Seq(Words)
        /\ parseArgs(IfGiven("--ingest-key", in.ingestKey) \o r5) =
             Given("--ingest-key", in.ingestKey, parseArgs(r5))
      BY <1>5, <2>1, ParseIfGiven
  <2> QED BY <2>2
<1> HIDE DEF r4
<1>7. r3 \in Seq(Words) /\ parseArgs(r3) = Given("--backend-url", in.backend, parseArgs(r4))
  <2>1. /\ "--backend-url" \in Words /\ "--backend-url" \in DOMAIN ValueFlags
        /\ "--backend-url" # "--fail-on-regression" /\ in.backend \in Words
      BY <1>1, <1>2
  <2>2. /\ IfGiven("--backend-url", in.backend) \o r4 \in Seq(Words)
        /\ parseArgs(IfGiven("--backend-url", in.backend) \o r4) =
             Given("--backend-url", in.backend, parseArgs(r4))
      BY <1>6, <2>1, ParseIfGiven
  <2> QED BY <2>2
<1> HIDE DEF r3
<1>8. r2 \in Seq(Words) /\ parseArgs(r2) = Given("--baseline", in.baseline, parseArgs(r3))
  <2>1. /\ "--baseline" \in Words /\ "--baseline" \in DOMAIN ValueFlags
        /\ "--baseline" # "--fail-on-regression" /\ in.baseline \in Words
      BY <1>1, <1>2
  <2>2. /\ IfGiven("--baseline", in.baseline) \o r3 \in Seq(Words)
        /\ parseArgs(IfGiven("--baseline", in.baseline) \o r3) =
             Given("--baseline", in.baseline, parseArgs(r3))
      BY <1>7, <2>1, ParseIfGiven
  <2> QED BY <2>2
<1> HIDE DEF r2
<1>9. r1 \in Seq(Words) /\ parseArgs(r1) = Given("--version", in.version, parseArgs(r2))
    BY <1>1, <1>2, <1>8, ParseGiven
<1> HIDE DEF r1
<1>10. rF \in Seq(Words) /\ parseArgs(rF) = Given("--fail-on-regression", in.fail, parseArgs(r1))
    BY <1>1, <1>2, <1>9, ParseGiven
<1> HIDE DEF rF
<1>11. rH \in Seq(Words) /\ parseArgs(rH) = Given("--threshold", in.threshold, parseArgs(rF))
    BY <1>1, <1>2, <1>10, ParseGiven
<1> HIDE DEF rH
<1>12. rT \in Seq(Words) /\ parseArgs(rT) = Given("--trace", in.trace, parseArgs(rH))
    BY <1>1, <1>2, <1>11, ParseGiven
<1>13. Argv(in) = rT
  <2> DEFINE gB == IfGiven("--baseline", in.baseline)
             gU == IfGiven("--backend-url", in.backend)
             gI == IfGiven("--ingest-key", in.ingestKey)
             gD == IfGiven("--dashboard-key", in.dashboardKey)
             a  == <<"--trace", in.trace, "--threshold", in.threshold,
                     "--fail-on-regression", in.fail, "--version", in.version>>
  <2>1. Argv(in) = ((((a \o gB) \o gU) \o gI) \o gD) \o d
      BY Zenon DEF Argv, IfGiven, DryRun, d
  <2>2. gB \in Seq(Words) /\ gU \in Seq(Words) /\ gI \in Seq(Words) /\ gD \in Seq(Words)
    <3>1. ASSUME NEW f \in Words, NEW x \in Words PROVE IfGiven(f, x) \in Seq(Words)
      <4> HIDE DEF Words
      <4>1. <<f, x>> \in Seq(Words) /\ <<>> \in Seq(Words)
          OBVIOUS
      <4> QED BY Zenon, <4>1 DEF IfGiven
    <3>2. /\ "--baseline" \in Words /\ "--backend-url" \in Words
          /\ "--ingest-key" \in Words /\ "--dashboard-key" \in Words
        BY <1>2
    <3> QED BY Zenon, <1>1, <3>1, <3>2
  <2>3. r2 = gB \o (gU \o (gI \o (gD \o d)))
      BY Zenon DEF r2, r3, r4, r5
  <2>4. a \in Seq(Words)
      BY <1>1, <1>2
  <2> HIDE DEF gB, gU, gI, gD
  <2>5. Argv(in) = a \o r2
    <3> HIDE DEF a
    <3>1. OneOrder(a, gB, gU, gI, gD, d)
        BY <1>4, <2>2, <2>4, RegroupedAll
    <3> QED BY Zenon, <2>1, <2>3, <3>1 DEF OneOrder
  <2>6. a \o r2 = rT
    <3> DEFINE pT == <<"--trace", in.trace>>  pH == <<"--threshold", in.threshold>>
               pF == <<"--fail-on-regression", in.fail>>  pV == <<"--version", in.version>>
    <3>1. pT \in Seq(Words) /\ pH \in Seq(Words) /\ pF \in Seq(Words) /\ pV \in Seq(Words)
        BY <1>1, <1>2
    <3>2. a = (pT \o pH) \o (pF \o pV)
        OBVIOUS
    <3>3. rT = pT \o (pH \o (pF \o (pV \o r2)))
        BY Zenon DEF rT, rH, rF, r1
    <3> HIDE DEF a, pT, pH, pF, pV
    <3>4. ((((pT \o pH) \o pF) \o pV) \o <<>>) \o r2 = pT \o (pH \o (pF \o (pV \o (<<>> \o r2))))
      <4>1. <<>> \in Seq(Words)
          OBVIOUS
      <4>2. OneOrder(pT, pH, pF, pV, <<>>, r2)
          BY <1>8, <3>1, <4>1, RegroupedAll
      <4> QED BY Zenon, <4>2 DEF OneOrder
    <3>5. pT \o pH \in Seq(Words) /\ (pT \o pH) \o pF \in Seq(Words)
          /\ ((pT \o pH) \o pF) \o pV \in Seq(Words)
        BY <3>1
    <3>6. (((pT \o pH) \o pF) \o pV) \o <<>> = ((pT \o pH) \o pF) \o pV /\ <<>> \o r2 = r2
        BY <1>8, <3>5
    <3>7. ((pT \o pH) \o pF) \o pV = a
        BY <3>1, <3>2, <3>5, Regrouped
    <3> QED BY Zenon, <3>3, <3>4, <3>6, <3>7
  <2> QED BY <2>5, <2>6
<1> HIDE DEF rT
<1> DEFINE P == [OptionNames -> Words]
<1>14. parseArgs(d) \in P /\ \A o \in OptionNames \ {"dryRun"} : parseArgs(d)[o] = ""
    BY ParseDryRun DEF d
<1>15. /\ parseArgs(r5) \in P /\ SameBut(parseArgs(r5), parseArgs(d), "dashboardKey")
  <2>1. /\ "--dashboard-key" \in DOMAIN ValueFlags /\ in.dashboardKey \in Words
        /\ "dashboardKey" = ValueFlags["--dashboard-key"]
      BY <1>1, <1>2, Flags
  <2> QED BY Zenon, <1>5, <1>14, <2>1, GivenStep
<1>16. /\ parseArgs(r4) \in P /\ SameBut(parseArgs(r4), parseArgs(r5), "ingestKey")
  <2>1. /\ "--ingest-key" \in DOMAIN ValueFlags /\ in.ingestKey \in Words
        /\ "ingestKey" = ValueFlags["--ingest-key"]
      BY <1>1, <1>2, Flags
  <2> QED BY Zenon, <1>6, <1>15, <2>1, GivenStep
<1>17. /\ parseArgs(r3) \in P /\ SameBut(parseArgs(r3), parseArgs(r4), "backendUrl")
  <2>1. /\ "--backend-url" \in DOMAIN ValueFlags /\ in.backend \in Words
        /\ "backendUrl" = ValueFlags["--backend-url"]
      BY <1>1, <1>2, Flags
  <2> QED BY Zenon, <1>7, <1>16, <2>1, GivenStep
<1>18. \A o \in {"baselinePath", "failOnRegression", "threshold", "tracePath"} :
         HasWord(parseArgs(r3), o, "")
    BY <1>3, <1>14, <1>15, <1>16, <1>17 DEF SameBut, HasWord
<1>19. /\ parseArgs(r2) \in P /\ SameBut(parseArgs(r2), parseArgs(r3), "baselinePath")
       /\ HasWord(parseArgs(r2), "baselinePath", in.baseline)
  <2>1. /\ "--baseline" \in DOMAIN ValueFlags /\ in.baseline \in Words
        /\ "baselinePath" = ValueFlags["--baseline"] /\ "--baseline" # "--fail-on-regression"
      BY <1>1, <1>2, Flags
  <2>2. HasWord(parseArgs(r3), "baselinePath", "")
      BY <1>18
  <2> QED BY Zenon, <1>8, <1>17, <2>1, <2>2, GivenStep
<1>20. /\ parseArgs(r1) \in P /\ SameBut(parseArgs(r1), parseArgs(r2), "version")
  <2>1. /\ "--version" \in DOMAIN ValueFlags /\ in.version \in Words
        /\ "version" = ValueFlags["--version"]
      BY <1>1, <1>2, Flags
  <2> QED BY Zenon, <1>9, <1>19, <2>1, GivenStep
<1>21. /\ HasWord(parseArgs(r1), "baselinePath", in.baseline)
       /\ \A o \in {"failOnRegression", "threshold", "tracePath"} : HasWord(parseArgs(r1), o, "")
    BY <1>3, <1>18, <1>19, <1>20 DEF SameBut, HasWord
<1>22. /\ parseArgs(rF) \in P /\ SameBut(parseArgs(rF), parseArgs(r1), "failOnRegression")
       /\ HasWord(parseArgs(rF), "failOnRegression", IF in.fail = "" THEN "true" ELSE in.fail)
  <2>1. /\ "--fail-on-regression" \in DOMAIN ValueFlags /\ in.fail \in Words
        /\ "failOnRegression" = ValueFlags["--fail-on-regression"]
      BY <1>1, <1>2, Flags
  <2>2. HasWord(parseArgs(r1), "failOnRegression", "")
      BY <1>21
  <2> QED BY Zenon, <1>10, <1>20, <2>1, <2>2, GivenStep
<1>23. /\ parseArgs(rH) \in P /\ SameBut(parseArgs(rH), parseArgs(rF), "threshold")
       /\ HasWord(parseArgs(rH), "threshold", in.threshold)
  <2>1. /\ "--threshold" \in DOMAIN ValueFlags /\ in.threshold \in Words
        /\ "threshold" = ValueFlags["--threshold"] /\ "--threshold" # "--fail-on-regression"
      BY <1>1, <1>2, Flags
  <2>2. HasWord(parseArgs(rF), "threshold", "")
      BY <1>3, <1>21, <1>22 DEF SameBut, HasWord
  <2> QED BY Zenon, <1>11, <1>22, <2>1, <2>2, GivenStep
<1>24. /\ parseArgs(rT) \in P /\ SameBut(parseArgs(rT), parseArgs(rH), "tracePath")
       /\ HasWord(parseArgs(rT), "tracePath", in.trace)
  <2>1. /\ "--trace" \in DOMAIN ValueFlags /\ in.trace \in Words
        /\ "tracePath" = ValueFlags["--trace"] /\ "--trace" # "--fail-on-regression"
      BY <1>1, <1>2, Flags
  <2>2. HasWord(parseArgs(rH), "tracePath", "")
    <3>1. "tracePath" \in OptionNames \ {"failOnRegression", "threshold"}
        BY <1>3
    <3> QED BY <1>21, <1>22, <1>23, <3>1 DEF SameBut, HasWord
  <2> QED BY Zenon, <1>12, <1>23, <2>1, <2>2, GivenStep
<1>25. /\ HasWord(parseArgs(rT), "baselinePath", in.baseline)
       /\ HasWord(parseArgs(rT), "threshold", in.threshold)
       /\ HasWord(parseArgs(rT), "failOnRegression", IF in.fail = "" THEN "true" ELSE in.fail)
  <2>1. /\ "baselinePath" \in OptionNames \ {"failOnRegression", "threshold", "tracePath"}
        /\ "failOnRegression" \in OptionNames \ {"threshold", "tracePath"}
        /\ "threshold" \in OptionNames \ {"tracePath"}
      BY <1>3
  <2>2. HasWord(parseArgs(rT), "baselinePath", in.baseline)
      BY <1>21, <1>22, <1>23, <1>24, <2>1 DEF SameBut, HasWord
  <2>3. HasWord(parseArgs(rT), "threshold", in.threshold)
      BY <1>23, <1>24, <2>1 DEF SameBut, HasWord
  <2>4. HasWord(parseArgs(rT), "failOnRegression", IF in.fail = "" THEN "true" ELSE in.fail)
      BY <1>22, <1>23, <1>24, <2>1 DEF SameBut, HasWord
  <2> QED BY <2>2, <2>3, <2>4
<1> QED BY Zenon, <1>13, <1>24, <1>25 DEF HasWord

(* What the run goes by is what the inputs say: no variable of the          *)
(* environment stands for a file, the threshold or --fail-on-regression.    *)
LEMMA OptionsOfInputs ==
    ASSUME NEW in \in Inputs
    PROVE  LET o == Options(Argv(in))
           IN  /\ o.tracePath = in.trace /\ o.baselinePath = in.baseline
               /\ o.threshold = NumberOf[IF in.threshold = "" THEN "0.15" ELSE in.threshold]
               /\ o.failOnRegression <=> in.fail # "false"
<1> DEFINE parsed == parseArgs(Argv(in))
           opt(o, default) == IF parsed[o] # "" THEN parsed[o]
                              ELSE IF o \in DOMAIN Env THEN Env[o] ELSE default
           share == /\ opt("dryRun", "false") # "true"
                    /\ \A o \in {"backendUrl", "ingestKey", "dashboardKey"} : opt(o, "") # ""
           fail == opt("failOnRegression", "true") # "false"
           number == NumberOf[opt("threshold", "0.15")]
           trace == opt("tracePath", "")
           base == opt("baselinePath", "")
<1>1. /\ parsed["tracePath"] = in.trace /\ parsed["baselinePath"] = in.baseline
      /\ parsed["threshold"] = in.threshold
      /\ parsed["failOnRegression"] = IF in.fail = "" THEN "true" ELSE in.fail
    BY ArgvSays
<1>2. \A o \in {"tracePath", "baselinePath", "threshold", "failOnRegression"} : o \notin DOMAIN Env
    BY InputsAssumption
<1>3. Options(Argv(in)) = [tracePath |-> trace, baselinePath |-> base, threshold |-> number,
                           failOnRegression |-> fail, canShare |-> share]
    BY Zenon DEF Options
<1> HIDE DEF parsed
<1>4. trace = in.trace /\ base = in.baseline
    BY <1>1, <1>2
<1>5. number = NumberOf[IF in.threshold = "" THEN "0.15" ELSE in.threshold]
    BY <1>1, <1>2
<1>6. fail <=> in.fail # "false"
    BY <1>1, <1>2
<1> HIDE DEF share, fail, number, trace, base
<1>7. LET o == Options(Argv(in))
      IN  /\ o.tracePath = trace /\ o.baselinePath = base /\ o.threshold = number
          /\ o.failOnRegression = fail
    BY <1>3
<1> QED BY Zenon, <1>4, <1>5, <1>6, <1>7

-----------------------------------------------------------------------------
(* The comparison.                                                          *)

(* At least the threshold means at least that much of the baseline.         *)
WorseBy(c, b, t) == 1000 * c >= (1000 + t) * b
ShownThreshold(t) == Percent(t, 1000)

(* Whether it is: either way of saying it.                                  *)
LEMMA Worse ==
    ASSUME NEW c \in Nat, NEW b \in Nat, NEW t \in Int
    PROVE  AtLeast(c, b, t) <=> WorseBy(c, b, t)
<1>1. (1000 + t) * b = 1000 * b + t * b /\ t * b \in Int
    OBVIOUS
<1> QED BY <1>1 DEF AtLeast, WorseBy

(* Rounding 100 * x / d to the nearest, in whole numbers.                   *)
LEMMA Nearest ==
    ASSUME NEW x \in Int, NEW d \in Nat \ {0}
    PROVE  LET p == (200 * x + d) \div (2 * d)
           IN  p \in Int /\ 2 * (d * p) <= 200 * x + d /\ 200 * x + d < 2 * (d * p) + 2 * d
<1> DEFINE n == 200 * x + d  e == 2 * d  p == n \div e
<1>1. n \in Int /\ e \in Nat \ {0}
    OBVIOUS
<1>2. p \in Int /\ e * p <= n /\ n < e * p + e
  <2> HIDE DEF n, e
  <2> QED BY <1>1
<1> HIDE DEF p
<1>3. e * p = 2 * (d * p)
    BY <1>2
<1> QED BY <1>2, <1>3 DEF p

(* Multiplying keeps what is less and what is equal.                        *)
LEMMA Scaled ==
    ASSUME NEW x \in Int, NEW y \in Int, NEW z \in Nat \ {0}
    PROVE  (x < y <=> x * z < y * z) /\ (x = y <=> x * z = y * z)
  OBVIOUS

(* The percent shown of a larger proportion is no smaller, however floating *)
(* point takes the halves.                                                  *)
LEMMA ShownInOrder ==
    ASSUME NEW x \in Int, NEW d \in Nat \ {0}, NEW y \in Int, NEW e \in Nat \ {0}, x * e >= y * d
    PROVE  Percent(x, d) >= Percent(y, e)
<1> DEFINE p == (200 * x + d) \div (2 * d)
           q == (200 * y + e) \div (2 * e)
           down(n, m, r) == 2 * m * r = 200 * n + m /\ r \in RoundedDown
           X == x * e  Y == y * d  D == d * e  P == D * p  Q == D * q
<1>1. /\ p \in Int /\ 2 * (d * p) <= 200 * x + d /\ 200 * x + d < 2 * (d * p) + 2 * d
      /\ q \in Int /\ 2 * (e * q) <= 200 * y + e /\ 200 * y + e < 2 * (e * q) + 2 * e
    BY Nearest
<1>2. /\ Percent(x, d) = IF down(x, d, p) THEN p - 1 ELSE p
      /\ Percent(y, e) = IF down(y, e, q) THEN q - 1 ELSE q
    BY Zenon DEF Percent
<1> HIDE DEF p, q
<1>3. /\ X \in Int /\ Y \in Int /\ D \in Nat \ {0} /\ P \in Int /\ Q \in Int
      /\ 2 * P <= 200 * X + D /\ 200 * X + D < 2 * P + 2 * D
      /\ 2 * Q <= 200 * Y + D /\ 200 * Y + D < 2 * Q + 2 * D
  <2>1. D \in Nat \ {0} /\ X \in Int /\ Y \in Int /\ P \in Int /\ Q \in Int
      BY <1>1
  <2>2. /\ (2 * (d * p)) * e = 2 * P /\ (200 * x + d) * e = 200 * X + D
        /\ (2 * (d * p) + 2 * d) * e = 2 * P + 2 * D
      BY <1>1
  <2>3. /\ (2 * (e * q)) * d = 2 * Q /\ (200 * y + e) * d = 200 * Y + D
        /\ (2 * (e * q) + 2 * e) * d = 2 * Q + 2 * D
      BY <1>1
  <2>4. /\ ~((200 * x + d) * e < (2 * (d * p)) * e)
        /\ (200 * x + d) * e < (2 * (d * p) + 2 * d) * e
    <3> DEFINE a == 200 * x + d  b == 2 * (d * p)  c == 2 * (d * p) + 2 * d
    <3>1. a \in Int /\ b \in Int /\ c \in Int /\ ~(a < b) /\ a < c
        BY <1>1
    <3> HIDE DEF a, b, c
    <3>2. ~(a * e < b * e) /\ a * e < c * e
        BY <3>1, Scaled
    <3> QED BY <3>2 DEF a, b, c
  <2>5. /\ ~((200 * y + e) * d < (2 * (e * q)) * d)
        /\ (200 * y + e) * d < (2 * (e * q) + 2 * e) * d
    <3> DEFINE a == 200 * y + e  b == 2 * (e * q)  c == 2 * (e * q) + 2 * e
    <3>1. a \in Int /\ b \in Int /\ c \in Int /\ ~(a < b) /\ a < c
        BY <1>1
    <3> HIDE DEF a, b, c
    <3>2. ~(a * d < b * d) /\ a * d < c * d
        BY <3>1, Scaled
    <3> QED BY <3>2 DEF a, b, c
  <2> HIDE DEF X, Y, D, P, Q
  <2> QED BY <2>1, <2>2, <2>3, <2>4, <2>5
<1>4. p >= q
  <2> SUFFICES ASSUME p < q PROVE FALSE
      BY <1>1
  <2>1. (p + 1) * D = P + D /\ q * D = Q
      BY <1>1, <1>3
  <2>2. (p + 1) * D <= q * D
    <3> DEFINE a == p + 1
    <3>1. a \in Int /\ ~(q < a)
        BY <1>1
    <3> HIDE DEF a, D
    <3>2. ~(q * D < a * D) /\ q * D \in Int /\ a * D \in Int
        BY <1>1, <1>3, <3>1, Scaled
    <3> QED BY <3>2 DEF a
  <2>3. X >= Y
      OBVIOUS
  <2> HIDE DEF X, Y, D, P, Q
  <2> QED BY <1>3, <2>1, <2>2, <2>3
<1>5. CASE p > q
    BY <1>1, <1>2, <1>5
<1>6. CASE p = q
  <2> SUFFICES ASSUME down(x, d, p) PROVE down(y, e, q)
      BY <1>1, <1>2, <1>6
  <2>1. P = Q /\ X >= Y
      BY <1>6
  <2>2. 2 * P = 200 * X + D
    <3>1. 2 * d * p = 200 * x + d
        OBVIOUS
    <3>2. (2 * d * p) * e = 2 * P /\ (200 * x + d) * e = 200 * X + D
        BY <1>1
    <3> QED BY <3>1, <3>2
  <2>3. 2 * Q = 200 * Y + D
    <3> HIDE DEF X, Y, D, P, Q
    <3> QED BY <1>3, <2>1, <2>2
  <2>4. 2 * (e * q) = 200 * y + e
    <3> DEFINE a == 2 * (e * q)  b == 200 * y + e
    <3>1. a \in Int /\ b \in Int /\ a * d = 2 * Q /\ b * d = 200 * Y + D
        BY <1>1
    <3> HIDE DEF a, b, Q, Y, D
    <3>2. a = b
        BY <2>3, <3>1, Scaled
    <3> QED BY <3>2 DEF a, b
  <2>5. 2 * e * q = 2 * (e * q)
      BY <1>1
  <2> QED BY <1>6, <2>4, <2>5
<1> QED BY <1>1, <1>4, <1>5, <1>6

(* So the percent shown is on the side of the threshold shown that the      *)
(* verdict says.                                                            *)
LEMMA Rounded ==
    ASSUME NEW c \in Nat, NEW b \in Nat \ {0}, NEW t \in Int
    PROVE  /\ AtLeast(c, b, t) => fmtDelta(c, b) >= ShownThreshold(t)
           /\ ~AtLeast(c, b, t) => fmtDelta(c, b) <= ShownThreshold(t)
<1> DEFINE x == c - b
<1>1. x \in Int /\ x * 1000 \in Int /\ t * b \in Int /\ 1000 \in Nat \ {0}
    OBVIOUS
<1>2. (AtLeast(c, b, t) <=> x * 1000 >= t * b) /\ fmtDelta(c, b) = Percent(x, b)
    BY DEF AtLeast, fmtDelta
<1>3. Percent(x, b) \in Int /\ Percent(t, 1000) \in Int
  <2>1. \A n \in Int, d \in Nat \ {0} : Percent(n, d) \in Int
      BY Nearest DEF Percent
  <2> QED BY <1>1, <2>1
<1> HIDE DEF x
<1>4. x * 1000 >= t * b => Percent(x, b) >= Percent(t, 1000)
    BY <1>1, ShownInOrder
<1>5. t * b >= x * 1000 => Percent(t, 1000) >= Percent(x, b)
    BY <1>1, ShownInOrder
<1> QED BY <1>1, <1>2, <1>3, <1>4, <1>5 DEF ShownThreshold

(* The delta of a turn against a baseline, as Verdict has it.               *)
Before(b, t) == IF b = None THEN {} ELSE {i \in DOMAIN b.turns : b.turns[i].turn = t.turn}
DeltaOf(b, t) ==
    IF Before(b, t) = {} THEN None
    ELSE LET base == b.turns[Greatest(Before(b, t))].totalMs
         IN  IF base \in {0, None} \/ t.totalMs = None THEN None ELSE <<t.totalMs, base>>

(* What a verdict says, field by field.                                     *)
VerdictSays(v, c, b, threshold) ==
    /\ v.regression <=> HasDelta(b) /\ threshold # NaN
                          /\ AtLeast(c.headlineMs, b.headlineMs, threshold)
    /\ v.delta = IF HasDelta(b) THEN <<c.headlineMs, b.headlineMs>> ELSE None
    /\ DOMAIN v.turns = DOMAIN c.turns
    /\ v.turns = [i \in DOMAIN c.turns |-> v.turns[i]]
    /\ \A i \in DOMAIN c.turns : v.turns[i].delta = DeltaOf(b, c.turns[i])

(* Verdict says it.                                                         *)
LEMMA VerdictFields ==
    ASSUME NEW c, NEW b, NEW threshold
    PROVE  VerdictSays(Verdict(c, b, threshold), c, b, threshold)
<1> DEFINE v == Verdict(c, b, threshold)
           worse == HasDelta(b) /\ threshold # NaN
                      /\ AtLeast(c.headlineMs, b.headlineMs, threshold)
           delta == IF HasDelta(b) THEN <<c.headlineMs, b.headlineMs>> ELSE None
           turns == [i \in DOMAIN c.turns |->
                       [turn |-> c.turns[i].turn, delta |-> DeltaOf(b, c.turns[i])]]
<1>1. v = [regression |-> worse, delta |-> delta, turns |-> turns]
    BY Zenon DEF Verdict, DeltaOf, Before
<1> HIDE DEF v, worse, delta, turns
<1>2. v.regression = worse /\ v.delta = delta /\ v.turns = turns
    BY <1>1
<1>3. /\ DOMAIN turns = DOMAIN c.turns
      /\ turns = [i \in DOMAIN c.turns |-> turns[i]]
      /\ \A i \in DOMAIN c.turns : turns[i].delta = DeltaOf(b, c.turns[i])
    BY DEF turns
<1>4. /\ v.regression <=> worse
      /\ v.delta = delta /\ DOMAIN v.turns = DOMAIN c.turns
      /\ v.turns = [i \in DOMAIN c.turns |-> v.turns[i]]
      /\ \A i \in DOMAIN c.turns : v.turns[i].delta = DeltaOf(b, c.turns[i])
    BY Zenon, <1>2, <1>3
<1> QED BY Zenon, <1>4 DEF v, worse, delta, VerdictSays

(* The last turn of its number in a file.                                   *)
LastOf(b, n, j) ==
    /\ b.turns[j].turn = n
    /\ \A k \in j + 1 .. Len(b.turns) : b.turns[k].turn # n

(* A turn has a delta if the baseline has its number, and the last turn of  *)
(* that number a time other than zero; it is of the two times.              *)
LEMMA DeltaMeans ==
    ASSUME NEW b \in TraceSummary, b # None, NEW t
    PROVE  /\ \A j \in DOMAIN b.turns : LastOf(b, t.turn, j) =>
                DeltaOf(b, t) = IF b.turns[j].totalMs \in {0, None} \/ t.totalMs = None THEN None
                                ELSE <<t.totalMs, b.turns[j].totalMs>>
           /\ DeltaOf(b, t) # None => \E j \in DOMAIN b.turns : LastOf(b, t.turn, j)
<1> DEFINE B == Before(b, t)
           N == Len(b.turns)
<1>1. N \in Nat /\ DOMAIN b.turns = 1 .. N
    BY DEF TraceSummary
<1>2. B = {i \in 1 .. N : b.turns[i].turn = t.turn}
    BY <1>1 DEF Before
<1>3. ASSUME NEW j \in 1 .. N, LastOf(b, t.turn, j)
      PROVE  B # {} /\ Greatest(B) = j
  <2>1. j \in B
      BY <1>2, <1>3 DEF LastOf
  <2>2. ASSUME NEW y \in B PROVE j >= y
    <3>1. y \in 1 .. N /\ b.turns[y].turn = t.turn
        BY <1>2
    <3>2. y \notin j + 1 .. N
        BY <1>3, <3>1 DEF LastOf
    <3> QED BY <1>1, <3>1, <3>2
  <2>3. B \subseteq Int /\ B \in SUBSET (1 .. N) /\ 1 \in Int /\ N \in Int
      BY <1>1, <1>2
  <2> HIDE DEF B, N
  <2>4. IsFiniteSet(B)
      BY <2>3, FS_Interval, FS_Subset
  <2> DEFINE last == Greatest(B)
  <2>5. last \in B /\ last >= j
      BY <2>1, <2>3, <2>4, Extremes
  <2> HIDE DEF last
  <2>6. last \in Int /\ j \in Int /\ j >= last
      BY <2>1, <2>2, <2>3, <2>5
  <2>7. last = j
      BY <2>5, <2>6
  <2> QED BY <2>1, <2>7 DEF last
<1>4. ASSUME B # {}
      PROVE  \E j \in 1 .. N : LastOf(b, t.turn, j)
  <2> DEFINE T == {N - i : i \in B}
  <2>1. T \subseteq Nat /\ T # {}
    <3>1. PICK i \in B : TRUE
        BY <1>4
    <3>2. N - i \in T
        BY <3>1
    <3>3. \A k \in 1 .. N : N - k \in Nat
        BY <1>1
    <3> HIDE DEF N
    <3>4. T \subseteq Nat
        BY <1>2, <3>3
    <3> QED BY <3>2, <3>4
  <2>2. PICK x \in T : \A y \in T : x <= y
      BY <2>1, LeastNumber
  <2>3. PICK j \in B : x = N - j
      OBVIOUS
  <2>4. ASSUME NEW k \in j + 1 .. N, b.turns[k].turn = t.turn PROVE FALSE
    <3>1. j \in 1 .. N
        BY <1>2
    <3>2. k \in 1 .. N
        BY <1>1, <3>1
    <3>3. k \in B
        BY <1>2, <2>4, <3>2
    <3>4. N - j <= N - k
        BY <2>2, <2>3, <3>3
    <3> QED BY <1>1, <3>1, <3>2, <3>4
  <2>5. LastOf(b, t.turn, j) /\ j \in 1 .. N
      BY <1>2, <2>4 DEF LastOf
  <2> QED BY <2>5
<1> HIDE DEF N
<1>5. ASSUME NEW j \in 1 .. N, LastOf(b, t.turn, j)
      PROVE  DeltaOf(b, t) = IF b.turns[j].totalMs \in {0, None} \/ t.totalMs = None THEN None
                             ELSE <<t.totalMs, b.turns[j].totalMs>>
    BY Zenon, <1>3, <1>5 DEF DeltaOf
<1>6. DeltaOf(b, t) # None => B # {}
    BY DEF DeltaOf
<1> QED BY <1>1, <1>4, <1>5, <1>6

(* The table of the comment counts the turns that are slower, and those     *)
(* that are faster, than in the baseline.                                   *)
BothTimed(c, b, i, j) ==
    LastOf(b, c.turns[i].turn, j) /\ c.turns[i].totalMs # None /\ b.turns[j].totalMs \notin {0, None}
SlowerTurns(c, b) ==
    {i \in DOMAIN c.turns : \E j \in DOMAIN b.turns :
       BothTimed(c, b, i, j) /\ c.turns[i].totalMs > b.turns[j].totalMs}
FasterTurns(c, b) ==
    {i \in DOMAIN c.turns : \E j \in DOMAIN b.turns :
       BothTimed(c, b, i, j) /\ c.turns[i].totalMs < b.turns[j].totalMs}

TableIs(c, b, threshold) ==
    TurnTable(Verdict(c, b, threshold).turns) =
      <<Len(c.turns), Cardinality(SlowerTurns(c, b)), Cardinality(FasterTurns(c, b))>>

(* It counts them.                                                          *)
LEMMA TableCounts ==
    ASSUME NoneIsNoRecord, NEW c \in TraceSummary, NEW b \in BaselineFiles \ {Unreadable},
           NEW threshold
    PROVE  TableIs(c, b, threshold)
<1> DEFINE turns == Verdict(c, b, threshold).turns
           compared == {i \in DOMAIN turns : turns[i].delta # None}
<1>1. /\ DOMAIN turns = DOMAIN c.turns
      /\ turns = [i \in DOMAIN c.turns |-> turns[i]]
      /\ \A i \in DOMAIN c.turns : turns[i].delta = DeltaOf(b, c.turns[i])
  <2> DEFINE v == Verdict(c, b, threshold)
  <2>1. /\ DOMAIN v.turns = DOMAIN c.turns
        /\ v.turns = [i \in DOMAIN c.turns |-> v.turns[i]]
        /\ \A i \in DOMAIN c.turns : v.turns[i].delta = DeltaOf(b, c.turns[i])
    <3>1. VerdictSays(v, c, b, threshold)
        BY VerdictFields
    <3> QED BY Zenon, <3>1 DEF VerdictSays
  <2> QED BY Zenon, <2>1
<1> HIDE DEF turns
<1>2. b \in TraceSummary /\ b # None
    BY FilesAssumption
<1>3. ASSUME NEW i \in DOMAIN c.turns
      PROVE  /\ i \in compared /\ turns[i].delta[1] > turns[i].delta[2] <=> i \in SlowerTurns(c, b)
             /\ i \in compared /\ turns[i].delta[1] < turns[i].delta[2] <=> i \in FasterTurns(c, b)
  <2> DEFINE D == DeltaOf(b, c.turns[i])
             x == c.turns[i].totalMs
             Y(j) == b.turns[j].totalMs
             IsLast(j) == LastOf(b, c.turns[i].turn, j)
  <2>1. turns[i].delta = D /\ (i \in compared <=> D # None)
      BY <1>1
  <2>2. /\ \A j \in DOMAIN b.turns : IsLast(j) =>
             D = IF Y(j) \in {0, None} \/ x = None THEN None ELSE <<x, Y(j)>>
        /\ D # None => \E j \in DOMAIN b.turns : IsLast(j)
    <3> HIDE DEF D, x, Y, IsLast
    <3> QED BY Zenon, <1>2, DeltaMeans DEF D, x, Y, IsLast
  <2>3. \A j \in DOMAIN b.turns : BothTimed(c, b, i, j) <=> IsLast(j) /\ x # None /\ Y(j) \notin {0, None}
      BY Zenon DEF BothTimed
  <2> HIDE DEF D, x, Y, IsLast
  <2>4. ASSUME NEW j \in DOMAIN b.turns, BothTimed(c, b, i, j)
        PROVE  D # None /\ D[1] = x /\ D[2] = Y(j)
    <3>1. D = <<x, Y(j)>>
        BY <2>2, <2>3, <2>4
    <3> QED BY <3>1 DEF NoneIsNoRecord
  <2>5. D # None => \E j \in DOMAIN b.turns : BothTimed(c, b, i, j)
    <3> SUFFICES ASSUME D # None PROVE \E j \in DOMAIN b.turns : BothTimed(c, b, i, j)
        OBVIOUS
    <3>1. PICK j \in DOMAIN b.turns : IsLast(j)
        BY <2>2
    <3>2. Y(j) \notin {0, None} /\ x # None
        BY <2>2, <3>1
    <3> QED BY <2>3, <3>1, <3>2
  <2>6. /\ i \in SlowerTurns(c, b) <=>
             \E j \in DOMAIN b.turns : BothTimed(c, b, i, j) /\ x > Y(j)
        /\ i \in FasterTurns(c, b) <=>
             \E j \in DOMAIN b.turns : BothTimed(c, b, i, j) /\ x < Y(j)
      BY DEF SlowerTurns, FasterTurns, x, Y
  <2>7. CASE D = None
      BY <2>1, <2>4, <2>6, <2>7
  <2>8. CASE D # None
    <3>1. PICK j \in DOMAIN b.turns : BothTimed(c, b, i, j)
        BY <2>5, <2>8
    <3>2. D[1] = x /\ D[2] = Y(j)
        BY <2>4, <3>1
    <3>3. \A k \in DOMAIN b.turns : BothTimed(c, b, i, k) => Y(k) = Y(j)
        BY <2>4, <3>2
    <3> QED BY <2>1, <2>6, <2>8, <3>1, <3>2, <3>3
  <2> QED BY <2>7, <2>8
<1>4. /\ {i \in compared : turns[i].delta[1] > turns[i].delta[2]} = SlowerTurns(c, b)
      /\ {i \in compared : turns[i].delta[1] < turns[i].delta[2]} = FasterTurns(c, b)
    BY <1>1, <1>3 DEF SlowerTurns, FasterTurns
<1>5. Len(turns) = Len(c.turns)
  <2>1. DOMAIN c.turns = 1 .. Len(c.turns) /\ Len(c.turns) \in Nat
      BY DEF TraceSummary
  <2> QED BY <1>1, <2>1
<1> QED BY Zenon, <1>4, <1>5 DEF TurnTable, TableIs, turns

(* What VerdictFromFilesOnly says of the end r of a run with the inputs in, *)
(* the trace file c and the baseline file b.                                *)
ThresholdOf(in) == NumberOf[IF in.threshold = "" THEN "0.15" ELSE in.threshold]
HasTrace(in, c) == in.trace # "" /\ c # Unreadable
HasBaseline(in, b) == in.baseline # "" /\ b # Unreadable
CanCompare(in, c, b) == HasTrace(in, c) /\ HasBaseline(in, b) /\ b.headlineMs > 0
IsWorse(in, c, b) ==
    /\ CanCompare(in, c, b) /\ ThresholdOf(in) # NaN
    /\ WorseBy(c.headlineMs, b.headlineMs, ThresholdOf(in))
Broken(in, c, b) ==
    \/ None \in SpanSet(c.turns) \/ (HasBaseline(in, b) /\ None \in SpanSet(b.turns))
    \/ /\ CanCompare(in, c, b) => IsWorse(in, c, b)
       /\ \E i \in DOMAIN c.turns :
            /\ c.turns[i].stages = None
            /\ \A j \in i + 1 .. Len(c.turns) : c.turns[j].turn # c.turns[i].turn
CommentExpected(in, c, b, comment) ==
    /\ comment.variant = IF ~CanCompare(in, c, b) THEN "first run"
                         ELSE IF IsWorse(in, c, b) THEN "regression" ELSE "pass"
    /\ IsWorse(in, c, b) =>
         /\ comment.percent >= comment.threshold
         /\ comment.table = <<Len(c.turns), Cardinality(SlowerTurns(c, b)),
                              Cardinality(FasterTurns(c, b))>>
    /\ (CanCompare(in, c, b) /\ ~IsWorse(in, c, b) /\ ThresholdOf(in) # NaN) =>
         comment.percent <= comment.threshold
EndExpected(in, c, b, r) ==
    /\ r.exit = IF ~HasTrace(in, c) THEN 2
                ELSE IF Broken(in, c, b) \/ (IsWorse(in, c, b) /\ in.fail # "false") THEN 1
                ELSE 0
    /\ r.comment # None <=> HasTrace(in, c) /\ ~Broken(in, c, b)
    /\ r.comment # None => CommentExpected(in, c, b, r.comment)

(* That is the property.                                                    *)
LEMMA EndIsVerdict ==
    ASSUME result # None => EndExpected(input, files.trace, files.baseline, result)
    PROVE  VerdictFromFilesOnly
<1> DEFINE c == files.trace
           b == files.baseline
           Turns(P(_, _)) ==
             {i \in DOMAIN c.turns : \E j \in DOMAIN b.turns :
                /\ b.turns[j].turn = c.turns[i].turn
                /\ \A k \in j + 1 .. Len(b.turns) : b.turns[k].turn # c.turns[i].turn
                /\ c.turns[i].totalMs # None /\ b.turns[j].totalMs \notin {0, None}
                /\ P(c.turns[i].totalMs, b.turns[j].totalMs)}
           Slower(x, y) == x > y
           Faster(x, y) == x < y
<1>1. SlowerTurns(c, b) = Turns(Slower)
    BY DEF SlowerTurns, BothTimed, LastOf
<1>2. FasterTurns(c, b) = Turns(Faster)
    BY DEF FasterTurns, BothTimed, LastOf
<1> QED BY Zenon, <1>1, <1>2 DEF VerdictFromFilesOnly, EndExpected, CommentExpected, IsWorse,
        WorseBy, CanCompare, HasTrace, HasBaseline, ThresholdOf, Broken

(* The comment of a verdict.                                                *)
CommentSays(k, v, threshold, linked) ==
    /\ k # None /\ k.variant = Variant(v) /\ k.linked = linked
    /\ k.percent = IF v.delta = None THEN None ELSE fmtDelta(v.delta[1], v.delta[2])
    /\ k.threshold = IF threshold = NaN THEN NaN ELSE ShownThreshold(threshold)
    /\ k.table = IF Variant(v) = "pass" THEN <<0, 0, 0>> ELSE TurnTable(v.turns)

(* renderComment says it, and a comment is not None.                        *)
LEMMA CommentFields ==
    ASSUME NoneIsNoRecord, NEW v, NEW threshold, NEW linked
    PROVE  CommentSays(renderComment(v, threshold, linked), v, threshold, linked)
<1> DEFINE percent == IF v.delta = None THEN None ELSE fmtDelta(v.delta[1], v.delta[2])
           shown   == IF threshold = NaN THEN NaN ELSE ShownThreshold(threshold)
           table   == IF Variant(v) = "pass" THEN <<0, 0, 0>> ELSE TurnTable(v.turns)
           variant == Variant(v)
           k       == renderComment(v, threshold, linked)
<1>1. k = [variant |-> variant, linked |-> linked, percent |-> percent, threshold |-> shown,
           table |-> table]
    BY Zenon DEF renderComment, ShownThreshold
<1> HIDE DEF percent, shown, table, variant, k
<1>2. k # None
    BY <1>1 DEF NoneIsNoRecord
<1>3. /\ k.variant = variant /\ k.linked = linked /\ k.percent = percent
      /\ k.threshold = shown /\ k.table = table
    BY <1>1
<1> QED BY Zenon, <1>2, <1>3 DEF CommentSays, percent, shown, table, variant, k

(* A readable file has a headline, and is not None.                         *)
LEMMA HeadlineIsNumber ==
    ASSUME NEW f \in TraceFiles \cup BaselineFiles
    PROVE  f # None /\ (f # Unreadable => f \in TraceSummary /\ f.headlineMs \in Nat)
<1>1. f # None /\ (f # Unreadable => f \in TraceSummary)
    BY FilesAssumption
<1>2. f \in TraceSummary => f.headlineMs \in Nat
    BY DEF TraceSummary
<1> QED BY <1>1, <1>2

(* A headline other than zero is above zero.                                *)
LEMMA AboveZero ==
    ASSUME NEW h \in Nat
    PROVE  /\ h # 0 <=> h > 0
           /\ h > 0 => h \in Nat \ {0}
  OBVIOUS

(* The baseline that a run compares with.                                   *)
BaselineOf(in, b) == IF in.baseline # "" /\ Readable(b) THEN b ELSE None

(* A verdict is what the two files and the threshold make it.               *)
LEMMA VerdictMeans ==
    ASSUME NEW in \in Inputs, in.trace # "", NEW c \in TraceFiles \ {Unreadable},
           NEW b \in BaselineFiles, NEW v,
           VerdictSays(v, c, BaselineOf(in, b), ThresholdOf(in))
    PROVE  /\ v.regression <=> IsWorse(in, c, b)
           /\ CanCompare(in, c, b) =>
                BaselineOf(in, b) = b /\ v.delta = <<c.headlineMs, b.headlineMs>>
           /\ ~CanCompare(in, c, b) => v.delta = None
<1> DEFINE base == BaselineOf(in, b)
<1>1. /\ c \in TraceSummary /\ c.headlineMs \in Nat /\ c # Unreadable
      /\ b # Unreadable => b \in TraceSummary /\ b.headlineMs \in Nat
      /\ b # None
    BY HeadlineIsNumber
<1>a. HasTrace(in, c)
    BY <1>1 DEF HasTrace
<1>2. HasDelta(base) <=> CanCompare(in, c, b)
  <2>1. CASE HasBaseline(in, b)
    <3>1. base = b
        BY <2>1 DEF BaselineOf, Readable, HasBaseline
    <3> DEFINE h == b.headlineMs
    <3>a. h \in Nat
        BY Zenon, <1>1, <2>1 DEF HasBaseline
    <3>2. h # 0 <=> h > 0
        BY Zenon, <3>a, AboveZero
    <3> QED BY Zenon, <1>1, <1>a, <2>1, <3>1, <3>2 DEF HasDelta, CanCompare
  <2>2. CASE ~HasBaseline(in, b)
    <3>1. base = None
        BY <2>2 DEF BaselineOf, Readable, HasBaseline
    <3> QED BY Zenon, <2>2, <3>1 DEF HasDelta, CanCompare
  <2> QED BY <2>1, <2>2
<1>3. CanCompare(in, c, b) => base = b /\ b \in TraceSummary /\ b.headlineMs \in Nat
    BY <1>1 DEF CanCompare, BaselineOf, Readable, HasBaseline
<1>4. ThresholdOf(in) # NaN => ThresholdOf(in) \in Int
  <2>1. (IF in.threshold = "" THEN "0.15" ELSE in.threshold) \in DOMAIN NumberOf
      BY InputsAssumption
  <2> QED BY <2>1, InputsAssumption DEF ThresholdOf
<1>5. v.regression <=> IsWorse(in, c, b)
  <2>1. v.regression <=> HasDelta(base) /\ ThresholdOf(in) # NaN
                           /\ AtLeast(c.headlineMs, base.headlineMs, ThresholdOf(in))
      BY Zenon DEF VerdictSays
  <2>2. ASSUME CanCompare(in, c, b), ThresholdOf(in) # NaN
        PROVE  AtLeast(c.headlineMs, b.headlineMs, ThresholdOf(in)) <=>
                 WorseBy(c.headlineMs, b.headlineMs, ThresholdOf(in))
    <3> DEFINE x == c.headlineMs  y == b.headlineMs  t == ThresholdOf(in)
    <3>1. x \in Nat /\ y \in Nat /\ t \in Int
        BY <1>1, <1>3, <1>4, <2>2
    <3> HIDE DEF x, y, t
    <3>2. AtLeast(x, y, t) <=> WorseBy(x, y, t)
        BY <3>1, Worse
    <3> QED BY <3>2 DEF x, y, t
  <2>3. CASE CanCompare(in, c, b) /\ ThresholdOf(in) # NaN
    <3> DEFINE worse == WorseBy(c.headlineMs, b.headlineMs, ThresholdOf(in))
    <3>1. IsWorse(in, c, b) <=> CanCompare(in, c, b) /\ ThresholdOf(in) # NaN /\ worse
        BY DEF IsWorse
    <3>2. AtLeast(c.headlineMs, b.headlineMs, ThresholdOf(in)) <=> worse
        BY <2>2, <2>3
    <3> HIDE DEF worse
    <3> QED BY Zenon, <1>2, <1>3, <2>1, <2>3, <3>1, <3>2
  <2>4. CASE ~(CanCompare(in, c, b) /\ ThresholdOf(in) # NaN)
    <3>1. IsWorse(in, c, b) => CanCompare(in, c, b) /\ ThresholdOf(in) # NaN
        BY DEF IsWorse
    <3> QED BY Zenon, <1>2, <2>1, <2>4, <3>1
  <2> QED BY <2>3, <2>4
<1>6. v.delta = IF HasDelta(base) THEN <<c.headlineMs, base.headlineMs>> ELSE None
    BY Zenon DEF VerdictSays
<1> QED BY Zenon, <1>2, <1>3, <1>5, <1>6

(* So is the variant of the comment.                                        *)
LEMMA VariantMeans ==
    ASSUME NoneIsNoRecord,
           NEW in \in Inputs, in.trace # "", NEW c \in TraceFiles \ {Unreadable},
           NEW b \in BaselineFiles, NEW v,
           VerdictSays(v, c, BaselineOf(in, b), ThresholdOf(in))
    PROVE  /\ Variant(v) = IF ~CanCompare(in, c, b) THEN "first run"
                           ELSE IF IsWorse(in, c, b) THEN "regression" ELSE "pass"
           /\ Variant(v) # "pass" <=> (CanCompare(in, c, b) => IsWorse(in, c, b))
<1>1. /\ v.regression <=> IsWorse(in, c, b)
      /\ CanCompare(in, c, b) => v.delta = <<c.headlineMs, b.headlineMs>>
      /\ ~CanCompare(in, c, b) => v.delta = None
    BY Zenon, VerdictMeans
<1>2. CanCompare(in, c, b) => v.delta # None
    BY <1>1 DEF NoneIsNoRecord
<1>3. Variant(v) = IF ~CanCompare(in, c, b) THEN "first run"
                   ELSE IF IsWorse(in, c, b) THEN "regression" ELSE "pass"
    BY Zenon, <1>1, <1>2 DEF Variant
<1> QED BY <1>3

(* A run that compares throws where the files are broken.                   *)
LEMMA ThrowsIfBroken ==
    ASSUME NoneIsNoRecord,
           NEW in \in Inputs, in.trace # "", NEW c \in TraceFiles \ {Unreadable},
           NEW b \in BaselineFiles
    PROVE  Throws(c, BaselineOf(in, b), ThresholdOf(in)) <=> Broken(in, c, b)
<1> DEFINE base == BaselineOf(in, b)
           v == Verdict(c, base, ThresholdOf(in))
<1>1. Variant(v) # "pass" <=> (CanCompare(in, c, b) => IsWorse(in, c, b))
    BY VerdictFields, VariantMeans
<1>2. HasNull(c) <=> None \in SpanSet(c.turns)
    BY HeadlineIsNumber DEF HasNull
<1>3. HasNull(base) <=> HasBaseline(in, b) /\ None \in SpanSet(b.turns)
    BY HeadlineIsNumber DEF HasNull, BaselineOf, Readable, HasBaseline
<1>4. Throws(c, base, ThresholdOf(in)) <=>
        \/ HasNull(c) \/ HasNull(base)
        \/ ~HasNull(c) /\ ~HasNull(base) /\ RowThrows(c) /\ Variant(v) # "pass"
    BY Zenon DEF Throws
<1>5. Broken(in, c, b) <=>
        \/ None \in SpanSet(c.turns)
        \/ HasBaseline(in, b) /\ None \in SpanSet(b.turns)
        \/ (CanCompare(in, c, b) => IsWorse(in, c, b)) /\ RowThrows(c)
    BY Zenon DEF Broken, RowThrows
<1> HIDE DEF base, v
<1>6. Throws(c, base, ThresholdOf(in)) <=> Broken(in, c, b)
    BY <1>1, <1>2, <1>3, <1>4, <1>5
<1> QED BY <1>6 DEF base

(* So is the comment.                                                       *)
LEMMA CommentIsExpected ==
    ASSUME NoneIsNoRecord,
           NEW in \in Inputs, in.trace # "", NEW c \in TraceFiles \ {Unreadable},
           NEW b \in BaselineFiles, NEW linked, NEW k,
           CommentSays(k, Verdict(c, BaselineOf(in, b), ThresholdOf(in)), ThresholdOf(in), linked)
    PROVE  CommentExpected(in, c, b, k)
<1> DEFINE v == Verdict(c, BaselineOf(in, b), ThresholdOf(in))
           t == ThresholdOf(in)
<1>1. VerdictSays(v, c, BaselineOf(in, b), t)
    BY VerdictFields
<1>2. /\ v.regression <=> IsWorse(in, c, b)
      /\ CanCompare(in, c, b) =>
           BaselineOf(in, b) = b /\ v.delta = <<c.headlineMs, b.headlineMs>>
      /\ ~CanCompare(in, c, b) => v.delta = None
    BY Zenon, <1>1, VerdictMeans
<1>3. /\ k.variant = Variant(v)
      /\ k.percent = IF v.delta = None THEN None ELSE fmtDelta(v.delta[1], v.delta[2])
      /\ k.threshold = IF t = NaN THEN NaN ELSE ShownThreshold(t)
      /\ k.table = IF Variant(v) = "pass" THEN <<0, 0, 0>> ELSE TurnTable(v.turns)
    BY Zenon DEF CommentSays
<1>4. CanCompare(in, c, b) => v.delta # None
    BY <1>2 DEF NoneIsNoRecord
<1>5. Variant(v) = IF ~CanCompare(in, c, b) THEN "first run"
                   ELSE IF IsWorse(in, c, b) THEN "regression" ELSE "pass"
    BY Zenon, <1>1, VariantMeans
<1>6. /\ c \in TraceSummary /\ c.headlineMs \in Nat
      /\ CanCompare(in, c, b) => b.headlineMs \in Nat \ {0}
  <2> DEFINE h == b.headlineMs
  <2>1. /\ c \in TraceSummary /\ c.headlineMs \in Nat
        /\ b # Unreadable => h \in Nat
      BY HeadlineIsNumber
  <2>2. CanCompare(in, c, b) => b # Unreadable /\ h > 0
      BY Zenon DEF CanCompare, HasBaseline
  <2>3. CanCompare(in, c, b) => h \in Nat \ {0}
      BY Zenon, <2>1, <2>2, AboveZero
  <2> QED BY Zenon, <2>1, <2>3
<1>7. t # NaN => t \in Int
  <2>1. (IF in.threshold = "" THEN "0.15" ELSE in.threshold) \in DOMAIN NumberOf
      BY InputsAssumption
  <2> QED BY <2>1, InputsAssumption DEF ThresholdOf
<1>8. CanCompare(in, c, b) => k.percent = fmtDelta(c.headlineMs, b.headlineMs)
  <2>1. ASSUME CanCompare(in, c, b)
        PROVE  v.delta[1] = c.headlineMs /\ v.delta[2] = b.headlineMs
    <3> DEFINE d == v.delta
               x == c.headlineMs
               y == b.headlineMs
    <3>1. d = <<x, y>>
        BY Zenon, <1>2, <2>1
    <3> HIDE DEF d, x, y
    <3>2. d[1] = x /\ d[2] = y
        BY <3>1
    <3> QED BY Zenon, <3>2 DEF d, x, y
  <2> QED BY Zenon, <1>3, <1>4, <2>1
<1>9. ASSUME CanCompare(in, c, b), t # NaN
      PROVE  IsWorse(in, c, b) <=> AtLeast(c.headlineMs, b.headlineMs, t)
  <2>1. AtLeast(c.headlineMs, b.headlineMs, t) <=> WorseBy(c.headlineMs, b.headlineMs, t)
    <3> DEFINE x == c.headlineMs  y == b.headlineMs
    <3>1. x \in Nat /\ y \in Nat /\ t \in Int
        BY <1>6, <1>7, <1>9
    <3> HIDE DEF x, y, t
    <3>2. AtLeast(x, y, t) <=> WorseBy(x, y, t)
        BY <3>1, Worse
    <3> QED BY <3>2 DEF x, y
  <2>2. IsWorse(in, c, b) <=> WorseBy(c.headlineMs, b.headlineMs, t)
      BY <1>9 DEF IsWorse
  <2> QED BY <2>1, <2>2
<1>10. ASSUME CanCompare(in, c, b), t # NaN
       PROVE  /\ IsWorse(in, c, b) => k.percent >= k.threshold
              /\ ~IsWorse(in, c, b) => k.percent <= k.threshold
  <2> DEFINE p == fmtDelta(c.headlineMs, b.headlineMs)
             q == ShownThreshold(t)
             larger == AtLeast(c.headlineMs, b.headlineMs, t)
  <2>1. (larger => p >= q) /\ (~larger => p <= q)
    <3> DEFINE x == c.headlineMs  y == b.headlineMs
    <3>1. x \in Nat /\ y \in Nat \ {0} /\ t \in Int
        BY <1>6, <1>7, <1>10
    <3> HIDE DEF x, y, t
    <3>2. /\ AtLeast(x, y, t) => fmtDelta(x, y) >= ShownThreshold(t)
          /\ ~AtLeast(x, y, t) => fmtDelta(x, y) <= ShownThreshold(t)
        BY <3>1, Rounded
    <3> QED BY <3>2 DEF x, y
  <2>2. k.percent = p /\ k.threshold = q /\ (IsWorse(in, c, b) <=> larger)
      BY Zenon, <1>3, <1>8, <1>9, <1>10
  <2> HIDE DEF p, q, larger
  <2> QED BY <2>1, <2>2
<1>11. ASSUME IsWorse(in, c, b)
       PROVE  k.table = <<Len(c.turns), Cardinality(SlowerTurns(c, b)),
                          Cardinality(FasterTurns(c, b))>>
  <2>1. CanCompare(in, c, b) /\ b \in BaselineFiles \ {Unreadable}
      BY <1>11 DEF IsWorse, CanCompare, HasBaseline
  <2>2. Variant(v) = "regression"
      BY <1>5, <1>11, <2>1
  <2>3. k.table = TurnTable(v.turns)
      BY <1>3, <2>2
  <2>4. v = Verdict(c, b, t)
      BY Zenon, <1>2, <2>1
  <2>5. TableIs(c, b, t)
      BY <1>6, <2>1, TableCounts
  <2> QED BY Zenon, <2>3, <2>4, <2>5 DEF TableIs
<1>12. IsWorse(in, c, b) => CanCompare(in, c, b) /\ t # NaN
    BY DEF IsWorse
<1> QED BY Zenon, <1>3, <1>5, <1>10, <1>11, <1>12 DEF CommentExpected

(* And the end of the run, where nothing throws.                            *)
LEMMA EndIsExpected ==
    ASSUME NoneIsNoRecord,
           NEW in \in Inputs, in.trace # "", NEW c \in TraceFiles \ {Unreadable},
           NEW b \in BaselineFiles, NEW linked, NEW o,
           o = Options(Argv(in)), ~Throws(c, BaselineOf(in, b), o.threshold),
           NEW v, v = Verdict(c, BaselineOf(in, b), o.threshold),
           NEW r, r = [exit |-> IF v.regression /\ o.failOnRegression THEN 1 ELSE 0,
                       comment |-> renderComment(v, o.threshold, linked)]
    PROVE  EndExpected(in, c, b, r)
<1>1. o.threshold = ThresholdOf(in) /\ (o.failOnRegression <=> in.fail # "false")
    BY OptionsOfInputs DEF ThresholdOf
<1>2. VerdictSays(v, c, BaselineOf(in, b), ThresholdOf(in))
    BY <1>1, VerdictFields
<1>3. v.regression <=> IsWorse(in, c, b)
    BY Zenon, <1>2, VerdictMeans
<1>4. CommentSays(renderComment(v, o.threshold, linked), v, o.threshold, linked)
    BY CommentFields
<1> DEFINE e == IF v.regression /\ o.failOnRegression THEN 1 ELSE 0
           k == renderComment(v, o.threshold, linked)
<1>5. CommentExpected(in, c, b, k)
    BY <1>1, <1>4, CommentIsExpected
<1>6. e = IF IsWorse(in, c, b) /\ in.fail # "false" THEN 1 ELSE 0
    BY Zenon, <1>1, <1>3
<1>7. k # None
    BY <1>4 DEF CommentSays
<1>8. HasTrace(in, c) /\ ~Broken(in, c, b)
    BY Zenon, <1>1, ThrowsIfBroken DEF HasTrace
<1> HIDE DEF e, k
<1>9. r.exit = e /\ r.comment = k
    BY DEF e, k
<1> QED BY Zenon, <1>5, <1>6, <1>7, <1>8, <1>9 DEF EndExpected

(* Where something throws, the run ends with 1 and no comment.              *)
LEMMA ThrownEndIsExpected ==
    ASSUME NoneIsNoRecord,
           NEW in \in Inputs, in.trace # "", NEW c \in TraceFiles \ {Unreadable},
           NEW b \in BaselineFiles, NEW o,
           o = Options(Argv(in)), Throws(c, BaselineOf(in, b), o.threshold),
           NEW r, r = [exit |-> 1, comment |-> None]
    PROVE  EndExpected(in, c, b, r)
<1>1. o.threshold = ThresholdOf(in)
    BY OptionsOfInputs DEF ThresholdOf
<1>2. HasTrace(in, c) /\ Broken(in, c, b)
    BY Zenon, <1>1, ThrowsIfBroken DEF HasTrace
<1>3. r.exit = 1 /\ r.comment = None
    OBVIOUS
<1> QED BY Zenon, <1>2, <1>3 DEF EndExpected

-----------------------------------------------------------------------------
(* At each stage of a run: where the options, the summary and the baseline  *)
(* come from; and at its end, what the end is.                              *)
VerdictInv ==
    /\ input \in Inputs
    /\ files \in [trace : TraceFiles, baseline : BaselineFiles]
    /\ pc # "main" => opts = Options(Argv(input))
    /\ pc \notin {"main", "done"} => input.trace # ""
    /\ pc \in {"baseline", "ingest", "share", "compare"} =>
         Readable(files.trace) /\ current = files.trace
    /\ pc \in {"ingest", "share", "compare"} => baseline = BaselineOf(input, files.baseline)
    /\ result # None => EndExpected(input, files.trace, files.baseline, result)

(* A run that stops before it has a summary ends with 2 and no comment.     *)
LEMMA EarlyEndIsExpected ==
    ASSUME NoneIsNoRecord, NEW in, NEW c, NEW b, in.trace = "" \/ c = Unreadable,
           NEW r, r = [exit |-> 2, comment |-> None]
    PROVE  EndExpected(in, c, b, r)
<1>1. r.exit = 2 /\ r.comment = None
    OBVIOUS
<1>2. ~HasTrace(in, c)
    BY DEF HasTrace
<1> QED BY Zenon, <1>1, <1>2 DEF EndExpected

(* A run begins with its inputs and its files.                              *)
LEMMA VerdictInvInit ==
    ASSUME Init
    PROVE  VerdictInv
  BY DEF Init, VerdictInv

(* Every step of a run, and every reader, keeps it.                         *)
LEMMA VerdictInvStep ==
    ASSUME NoneIsNoRecord, TypeOK, VerdictInv, [Next]_vars
    PROVE  VerdictInv'
<1> USE DEF VerdictInv, backend
<1>a. pc # "done" => result = None
    BY DEF TypeOK
<1>1. CASE Main
  <2>1. opts' = Options(Argv(input)) /\ UNCHANGED <<input, files>>
      BY <1>1 DEF Main
  <2>2. opts'.tracePath = input.trace
      BY <2>1, OptionsOfInputs
  <2>3. CASE input.trace = ""
    <3>1. result' = [exit |-> 2, comment |-> None] /\ pc' = "done"
        BY <1>1, <2>2, <2>3 DEF Main
    <3>2. EndExpected(input, files.trace, files.baseline, result')
        BY <2>3, <3>1, EarlyEndIsExpected
    <3> QED BY <2>1, <3>1, <3>2
  <2>4. CASE input.trace # ""
    <3>1. pc' = "trace" /\ UNCHANGED result /\ pc = "main"
        BY <1>1, <2>2, <2>4 DEF Main
    <3> QED BY <1>a, <2>1, <2>4, <3>1
  <2> QED BY <2>3, <2>4
<1>2. CASE ReadTrace
  <2>1. pc = "trace" /\ UNCHANGED <<input, files, opts>>
      BY <1>2 DEF ReadTrace
  <2>2. CASE Readable(files.trace)
    <3>1. current' = files.trace /\ pc' = "baseline" /\ UNCHANGED result
        BY <1>2, <2>2 DEF ReadTrace
    <3> QED BY <1>a, <2>1, <2>2, <3>1
  <2>3. CASE ~Readable(files.trace)
    <3>1. result' = [exit |-> 2, comment |-> None] /\ pc' = "done"
        BY <1>2, <2>3 DEF ReadTrace
    <3>2. EndExpected(input, files.trace, files.baseline, result')
        BY <2>3, <3>1, EarlyEndIsExpected DEF Readable
    <3> QED BY <2>1, <3>1, <3>2
  <2> QED BY <2>2, <2>3
<1>3. CASE ReadBaseline
  <2>1. /\ pc = "baseline" /\ pc' \in {"ingest", "compare"}
        /\ UNCHANGED <<input, files, opts, current, result>>
      BY <1>3 DEF ReadBaseline
  <2>2. opts.baselinePath = input.baseline
      BY <2>1, OptionsOfInputs
  <2>3. baseline' = IF opts.baselinePath # "" /\ Readable(files.baseline) THEN files.baseline
                    ELSE None
      BY <1>3 DEF ReadBaseline
  <2>4. baseline' = BaselineOf(input, files.baseline)
      BY Zenon, <2>2, <2>3 DEF BaselineOf
  <2> QED BY <1>a, <2>1, <2>4
<1>4. CASE IngestAccepted
    BY <1>a, <1>4 DEF IngestAccepted
<1>5. CASE IngestFails
    BY <1>a, <1>5 DEF IngestFails
<1>6. CASE ShareMinted
    BY <1>a, <1>6 DEF ShareMinted
<1>7. CASE ShareFails
    BY <1>a, <1>7 DEF ShareFails
<1>b. ASSUME pc = "compare"
      PROVE  /\ current = files.trace /\ baseline = BaselineOf(input, files.baseline)
             /\ opts = Options(Argv(input)) /\ input.trace # ""
             /\ input \in Inputs
             /\ files.trace \in TraceFiles \ {Unreadable} /\ files.baseline \in BaselineFiles
  <2>1. Readable(files.trace) /\ files \in [trace : TraceFiles, baseline : BaselineFiles]
      BY <1>b
  <2>2. files.trace \in TraceFiles \ {Unreadable} /\ files.baseline \in BaselineFiles
      BY <2>1 DEF Readable
  <2> QED BY <1>b, <2>2
<1>8. CASE Compare
  <2> DEFINE v == Verdict(current, baseline, opts.threshold)
  <2>1. /\ pc = "compare" /\ pc' = "done" /\ ~Throws(current, baseline, opts.threshold)
        /\ result' = [exit |-> IF v.regression /\ opts.failOnRegression THEN 1 ELSE 0,
                      comment |-> renderComment(v, opts.threshold, shareUrl)]
        /\ UNCHANGED <<input, files, opts, current, baseline>>
      BY Zenon, <1>8 DEF Compare
  <2>2. /\ v = Verdict(files.trace, BaselineOf(input, files.baseline), opts.threshold)
        /\ ~Throws(files.trace, BaselineOf(input, files.baseline), opts.threshold)
      BY Zenon, <1>b, <2>1
  <2> HIDE DEF v, VerdictInv
  <2>3. EndExpected(input, files.trace, files.baseline, result')
      BY Zenon, <1>b, <2>1, <2>2, EndIsExpected
  <2> USE DEF VerdictInv
  <2> QED BY <2>1, <2>3
<1>11. CASE CompareThrows
  <2>1. /\ pc = "compare" /\ pc' = "done" /\ Throws(current, baseline, opts.threshold)
        /\ result' = [exit |-> 1, comment |-> None]
        /\ UNCHANGED <<input, files, opts, current, baseline>>
      BY Zenon, <1>11 DEF CompareThrows
  <2>2. Throws(files.trace, BaselineOf(input, files.baseline), opts.threshold)
      BY Zenon, <1>b, <2>1
  <2> HIDE DEF VerdictInv
  <2>3. EndExpected(input, files.trace, files.baseline, result')
      BY Zenon, <1>b, <2>1, <2>2, ThrownEndIsExpected
  <2> USE DEF VerdictInv
  <2> QED BY <2>1, <2>3
<1>9. CASE OpenPage
    BY <1>9 DEF OpenPage
<1>10. CASE UNCHANGED vars
    BY <1>10 DEF vars
<1> QED
    BY <1>1, <1>2, <1>3, <1>4, <1>5, <1>6, <1>7, <1>8, <1>9, <1>10, <1>11 DEF Next

(* The exit code, the variant of the comment and its numbers are those that *)
(* the inputs and the two files call for, whatever the backend answered and *)
(* whoever read the page meanwhile (entry.ts, compare.ts, comment.ts).      *)
THEOREM VerdictIsFromFiles ==
    ASSUME NoneIsNoRecord
    PROVE  Spec => []VerdictFromFilesOnly
<1>1. Init => RunInv /\ VerdictInv
    BY RunInvInit, VerdictInvInit
<1>2. RunInv /\ VerdictInv /\ [Next]_vars => (RunInv /\ VerdictInv)'
    BY RunInvStep, VerdictInvStep DEF RunInv
<1>3. VerdictInv => VerdictFromFilesOnly
    BY EndIsVerdict DEF VerdictInv
<1> QED
    BY <1>1, <1>2, <1>3, PTL DEF Spec

-----------------------------------------------------------------------------
(* The first m sequences of ss.                                             *)
FirstOf(ss, m) == [i \in 1 .. m |-> ss[i]]

(* Tables of two sequences agree where the sequences do.                    *)
LEMMA FlatsAgree ==
    ASSUME NEW ss, NEW m \in Nat, NEW g, Flat(g, ss, m + 1), NEW h, Flat(h, FirstOf(ss, m), m),
           NEW i \in 1 .. m
    PROVE  g[i] = h[i]
<1> DEFINE T == {k \in Nat : k + 1 \in 1 .. m => g[k + 1] = h[k + 1]}
<1>1. ASSUME NEW k \in 1 .. m
      PROVE  /\ g[k] = FlatAt(g, ss, k) /\ h[k] = FlatAt(h, FirstOf(ss, m), k)
             /\ FirstOf(ss, m)[k] = ss[k]
  <2>1. k \in 1 .. m + 1
      OBVIOUS
  <2>2. g[k] = FlatAt(g, ss, k)
      BY Zenon, <2>1 DEF Flat
  <2>3. h[k] = FlatAt(h, FirstOf(ss, m), k)
      BY Zenon DEF Flat
  <2> QED BY <2>2, <2>3 DEF FirstOf
<1>2. 0 \in T
    BY <1>1 DEF FlatAt
<1>3. ASSUME NEW k \in Nat, k \in T
      PROVE  k + 1 \in T
  <2> SUFFICES ASSUME (k + 1) + 1 \in 1 .. m
               PROVE  g[(k + 1) + 1] = h[(k + 1) + 1]
      OBVIOUS
  <2> DEFINE j == (k + 1) + 1
  <2>1. j \in 1 .. m /\ j # 1 /\ j - 1 = k + 1 /\ k + 1 \in 1 .. m
      OBVIOUS
  <2>2. g[k + 1] = h[k + 1]
      BY <1>3, <2>1
  <2> HIDE DEF j
  <2>3. g[j] = g[k + 1] \o ss[j] /\ h[j] = h[k + 1] \o ss[j]
      BY <1>1, <2>1 DEF FlatAt
  <2> QED BY <2>2, <2>3 DEF j
<1> HIDE DEF T
<1>4. Nat \subseteq T
    BY <1>2, <1>3, NumbersByInduction
<1>5. i - 1 \in T /\ (i - 1) + 1 = i
    BY <1>4
<1> QED BY <1>5 DEF T

(* FlattenSeq of one sequence more appends it.                              *)
LEMMA FlattenNext ==
    ASSUME NEW S, NEW ss, NEW m \in Nat, ss[m + 1] \in Seq(S)
    PROVE  /\ FlattenSeq(FirstOf(ss, 0)) = <<>>
           /\ FlattenSeq(FirstOf(ss, m + 1)) = FlattenSeq(FirstOf(ss, m)) \o ss[m + 1]
<1> DEFINE a == FirstOf(ss, m)
           b == FirstOf(ss, m + 1)
<1>0. FlattenSeq(FirstOf(ss, 0)) = <<>>
  <2>1. FirstOf(ss, 0) = <<>>
      BY DEF FirstOf
  <2> QED BY <2>1 DEF FlattenSeq
<1>1. Len(a) = m /\ Len(b) = m + 1 /\ b[m + 1] = ss[m + 1]
    BY DEF FirstOf
<1>2. PICK g : Flat(g, b, m + 1) /\ FlattenSeq(b) = g[m + 1]
    BY <1>1, FlattenIsFlat
<1>3. g[m + 1] = FlatAt(g, b, m + 1)
  <2>1. m + 1 \in 1 .. m + 1
      OBVIOUS
  <2> QED BY Zenon, <1>2, <2>1 DEF Flat
<1>4. CASE m = 0
  <2>1. g[1] = ss[1] /\ ss[1] \in Seq(S)
      BY <1>1, <1>3, <1>4 DEF FlatAt
  <2>2. <<>> \o ss[1] = ss[1]
      BY <2>1
  <2> QED BY <1>0, <1>2, <1>4, <2>1, <2>2
<1>5. CASE m # 0
  <2>1. PICK h : Flat(h, a, m) /\ FlattenSeq(a) = h[m]
      BY <1>1, <1>5, FlattenIsFlat
  <2>2. a = FirstOf(b, m)
      BY DEF FirstOf
  <2>3. g[m] = h[m]
    <3>1. m \in 1 .. m
        BY <1>5
    <3> HIDE DEF a, b
    <3> QED BY <1>2, <2>1, <2>2, <3>1, FlatsAgree
  <2>4. g[m + 1] = g[m] \o ss[m + 1]
    <3>1. m + 1 # 1 /\ (m + 1) - 1 = m
        BY <1>5
    <3> HIDE DEF b
    <3> QED BY <1>1, <1>3, <3>1 DEF FlatAt
  <2> QED BY <1>0, <1>2, <2>1, <2>3, <2>4
<1> QED BY <1>0, <1>4, <1>5

-----------------------------------------------------------------------------
(* What may be the stages of a turn, names that come twice included.        *)
StageSeqs == Seq(STRING \X Nat)

(* A table of the sums of the first stages of s, up to all m of them.       *)
SumAt(g, s, i) == IF i = 0 THEN 0 ELSE g[i - 1] + s[i][2]
SumsTo(g, s, m) == g = [i \in 0 .. m |-> SumAt(g, s, i)]

(* There is one.                                                            *)
LEMMA SumsExist ==
    ASSUME NEW s, NEW n \in Nat
    PROVE  \E g : SumsTo(g, s, n)
<1> DEFINE T == {m \in Nat : \E g : SumsTo(g, s, m)}
<1>1. 0 \in T
  <2> DEFINE g == [i \in 0 .. 0 |-> 0]
  <2>1. SumsTo(g, s, 0)
    <3>1. \A i \in 0 .. 0 : SumAt(g, s, i) = 0
        BY DEF SumAt
    <3> QED BY <3>1 DEF SumsTo
  <2> QED BY <2>1
<1>2. ASSUME NEW m \in Nat, m \in T
      PROVE  m + 1 \in T
  <2>1. PICK g : SumsTo(g, s, m)
      BY <1>2
  <2> DEFINE h == [i \in 0 .. m + 1 |-> SumAt(g, s, i)]
  <2>2. ASSUME NEW i \in 0 .. m + 1, i # 0
        PROVE  h[i - 1] = g[i - 1]
    <3>1. i - 1 \in 0 .. m /\ i - 1 \in 0 .. m + 1
        BY <2>2
    <3> QED BY <2>1, <3>1 DEF SumsTo
  <2>3. ASSUME NEW i \in 0 .. m + 1
        PROVE  h[i] = SumAt(h, s, i)
    <3>1. h[i] = SumAt(g, s, i)
        OBVIOUS
    <3> HIDE DEF h
    <3> QED BY <2>2, <3>1 DEF SumAt
  <2>4. h = [i \in 0 .. m + 1 |-> h[i]]
      OBVIOUS
  <2> HIDE DEF h
  <2>5. SumsTo(h, s, m + 1)
      BY <2>3, <2>4 DEF SumsTo
  <2> QED BY <2>5
<1> HIDE DEF T
<1>3. Nat \subseteq T
    BY <1>1, <1>2, NumbersByInduction
<1> QED BY <1>3 DEF T

(* Its entries are those of one more.                                       *)
LEMMA SumsSay ==
    ASSUME NEW s \in StageSeqs, NEW g, SumsTo(g, s, Len(s))
    PROVE  /\ g[0] = 0
           /\ \A i \in 1 .. Len(s) : g[i] = g[i - 1] + s[i][2] /\ s[i][2] \in Nat
           /\ \A i \in 0 .. Len(s) : g[i] \in Nat
<1>1. ASSUME NEW i \in 0 .. Len(s)
      PROVE  g[i] = SumAt(g, s, i)
    BY Zenon DEF SumsTo
<1>2. Len(s) \in Nat /\ \A i \in 1 .. Len(s) : s[i][2] \in Nat
    BY DEF StageSeqs
<1>3. g[0] = 0 /\ \A i \in 1 .. Len(s) : g[i] = g[i - 1] + s[i][2]
    BY <1>1, <1>2 DEF SumAt
<1> DEFINE T == {m \in Nat : m <= Len(s) => g[m] \in Nat}
<1>4. 0 \in T
    BY <1>3
<1>5. ASSUME NEW m \in Nat, m \in T
      PROVE  m + 1 \in T
  <2> SUFFICES ASSUME m + 1 <= Len(s)
               PROVE  g[m + 1] \in Nat
      OBVIOUS
  <2>1. m + 1 \in 1 .. Len(s) /\ m <= Len(s) /\ (m + 1) - 1 = m
      BY <1>2
  <2>2. g[m] \in Nat
      BY <1>5, <2>1
  <2>3. g[m + 1] = g[m] + s[m + 1][2] /\ s[m + 1][2] \in Nat
      BY <1>2, <1>3, <2>1
  <2> QED BY <2>2, <2>3
<1> HIDE DEF T
<1>6. Nat \subseteq T
    BY <1>4, <1>5, NumbersByInduction
<1>7. \A i \in 0 .. Len(s) : g[i] \in Nat
    BY <1>2, <1>6 DEF T
<1> QED BY <1>2, <1>3, <1>7

(* What SumStages looks up is such a table.                                 *)
LEMMA SumIsLast ==
    ASSUME NEW s \in StageSeqs
    PROVE  \E g : SumsTo(g, s, Len(s)) /\ SumStages(s) = g[Len(s)]
<1> DEFINE f == CHOOSE g : SumsTo(g, s, Len(s))
<1>1. SumsTo(f, s, Len(s))
  <2>1. Len(s) \in Nat
      BY DEF StageSeqs
  <2> QED BY <2>1, SumsExist
<1>2. SumStages(s) = f[Len(s)]
    BY Zenon DEF SumStages, SumsTo, SumAt
<1> QED BY <1>1, <1>2

(* After the first k stages of s come those of t, up to the end-th.         *)
Continues(s, k, t, end) ==
    /\ k \in Nat /\ end = k + Len(t) /\ end <= Len(s)
    /\ \A i \in 1 .. Len(t) : s[k + i] = t[i]

(* Then the sums go on, too.                                                *)
LEMMA SumsGoOn ==
    ASSUME NEW s \in StageSeqs, NEW t \in StageSeqs, NEW k, NEW end, Continues(s, k, t, end),
           NEW g, SumsTo(g, s, Len(s)), NEW h, SumsTo(h, t, Len(t))
    PROVE  g[end] = g[k] + h[Len(t)]
<1> USE DEF Continues
<1> DEFINE T == {m \in Nat : m <= Len(t) => g[k + m] = g[k] + h[m]}
<1>1. Len(s) \in Nat /\ Len(t) \in Nat
    BY DEF StageSeqs
<1>2. /\ \A i \in 1 .. Len(s) : g[i] = g[i - 1] + s[i][2]
      /\ \A i \in 0 .. Len(s) : g[i] \in Nat
    BY SumsSay
<1>3. /\ h[0] = 0
      /\ \A i \in 1 .. Len(t) : h[i] = h[i - 1] + t[i][2] /\ t[i][2] \in Nat
      /\ \A i \in 0 .. Len(t) : h[i] \in Nat
    BY SumsSay
<1>4. 0 \in T
  <2>1. k \in 0 .. Len(s) /\ k + 0 = k
      BY <1>1
  <2>2. g[k] \in Nat
      BY <1>2, <2>1
  <2>3. g[k + 0] = g[k] + h[0]
      BY <1>3, <2>1, <2>2
  <2> QED BY <2>3
<1>5. ASSUME NEW m \in Nat, m \in T
      PROVE  m + 1 \in T
  <2> SUFFICES ASSUME m + 1 <= Len(t)
               PROVE  g[k + (m + 1)] = g[k] + h[m + 1]
      OBVIOUS
  <2>1. /\ m + 1 \in 1 .. Len(t) /\ (m + 1) - 1 = m /\ m <= Len(t) /\ m \in 0 .. Len(t)
        /\ k + (m + 1) \in 1 .. Len(s) /\ (k + (m + 1)) - 1 = k + m /\ k \in 0 .. Len(s)
      BY <1>1
  <2>2. g[k + m] = g[k] + h[m]
      BY <1>5, <2>1
  <2>3. g[k + (m + 1)] = g[k + m] + s[k + (m + 1)][2]
      BY <1>2, <2>1
  <2>4. s[k + (m + 1)] = t[m + 1]
      BY <2>1
  <2>5. h[m + 1] = h[m] + t[m + 1][2] /\ t[m + 1][2] \in Nat /\ h[m] \in Nat /\ g[k] \in Nat
      BY <1>2, <1>3, <2>1
  <2> QED BY <2>2, <2>3, <2>4, <2>5
<1> HIDE DEF T
<1>6. Len(t) \in T
    BY <1>1, <1>4, <1>5, NumbersByInduction
<1>7. g[k + Len(t)] = g[k] + h[Len(t)]
    BY <1>1, <1>6 DEF T
<1> QED BY <1>7

(* The sum of the stages adds what one stage, or one turn, adds.            *)
LEMMA SumOfJoined ==
    ASSUME NEW a \in StageSeqs, NEW b \in StageSeqs
    PROVE  a \o b \in StageSeqs /\ SumStages(a \o b) = SumStages(a) + SumStages(b)
<1>1. a \o b \in StageSeqs /\ Len(a \o b) = Len(a) + Len(b) /\ Len(a) \in Nat /\ Len(b) \in Nat
    BY DEF StageSeqs
<1> DEFINE s == a \o b
<1>2. \A i \in 1 .. Len(a) : s[0 + i] = a[i]
    BY DEF StageSeqs
<1>3. \A i \in 1 .. Len(b) : s[Len(a) + i] = b[i]
    BY DEF StageSeqs
<1> HIDE DEF s
<1>4. /\ s \in StageSeqs
      /\ Continues(s, 0, a, Len(a)) /\ Continues(s, Len(a), b, Len(s))
    BY <1>1, <1>2, <1>3 DEF s, Continues
<1>5. PICK g : SumsTo(g, s, Len(s)) /\ SumStages(s) = g[Len(s)]
    BY <1>4, SumIsLast
<1>6. PICK f : SumsTo(f, a, Len(a)) /\ SumStages(a) = f[Len(a)]
    BY SumIsLast
<1>7. PICK h : SumsTo(h, b, Len(b)) /\ SumStages(b) = h[Len(b)]
    BY SumIsLast
<1>8. g[Len(a)] = g[0] + f[Len(a)]
    BY <1>4, <1>5, <1>6, SumsGoOn
<1>9. g[Len(s)] = g[Len(a)] + h[Len(b)]
    BY <1>4, <1>5, <1>7, SumsGoOn
<1>10. g[0] = 0 /\ f[Len(a)] \in Nat
  <2>1. Len(a) \in 0 .. Len(a)
      BY <1>1
  <2> QED BY <1>4, <1>5, <1>6, <2>1, SumsSay
<1>11. g[Len(a)] = f[Len(a)]
    BY <1>1, <1>8, <1>10
<1>12. SumStages(s) = SumStages(a) + SumStages(b)
    BY <1>4, <1>5, <1>6, <1>7, <1>9, <1>11
<1> QED BY <1>1, <1>12 DEF s

(* A sum is a number; of no stage it is 0, and the first stages and the     *)
(* next one add up.                                                         *)
LEMMA SumOfFirst ==
    ASSUME NEW s \in StageSeqs
    PROVE  /\ SumStages(s) \in Nat /\ SumStages(<<>>) = 0
           /\ \A i \in 1 .. Len(s) :
                SumStages(SubSeq(s, 1, i)) = SumStages(SubSeq(s, 1, i - 1)) + s[i][2]
<1>1. Len(s) \in Nat /\ Len(s) \in 0 .. Len(s)
    BY DEF StageSeqs
<1>2. PICK g : SumsTo(g, s, Len(s)) /\ SumStages(s) = g[Len(s)]
    BY SumIsLast
<1>3. /\ g[0] = 0
      /\ \A i \in 1 .. Len(s) : g[i] = g[i - 1] + s[i][2]
      /\ \A i \in 0 .. Len(s) : g[i] \in Nat
    BY <1>2, SumsSay
<1>4. ASSUME NEW m \in 0 .. Len(s)
      PROVE  SumStages(SubSeq(s, 1, m)) = g[m]
  <2> DEFINE t == SubSeq(s, 1, m)
  <2>1. t \in StageSeqs /\ Len(t) = m /\ \A i \in 1 .. Len(t) : s[0 + i] = t[i]
    <3>1. m \in Nat /\ \A i \in 1 .. m : s[i] \in STRING \X Nat
        BY <1>1 DEF StageSeqs
    <3>2. t = [i \in 1 .. m |-> s[i]]
        BY <1>1, <3>1 DEF StageSeqs
    <3> HIDE DEF t
    <3>3. t \in [1 .. m -> STRING \X Nat]
        BY <3>1, <3>2
    <3>4. t \in StageSeqs /\ Len(t) = m
        BY <3>1, <3>2, <3>3 DEF StageSeqs
    <3>5. \A i \in 1 .. m : 0 + i = i
        OBVIOUS
    <3> QED BY <3>2, <3>4, <3>5
  <2> HIDE DEF t
  <2>2. PICK h : SumsTo(h, t, Len(t)) /\ SumStages(t) = h[Len(t)]
      BY <2>1, SumIsLast
  <2>3. Continues(s, 0, t, m)
      BY <1>1, <2>1 DEF Continues
  <2>4. g[m] = g[0] + h[Len(t)]
      BY <1>2, <2>1, <2>2, <2>3, SumsGoOn
  <2>5. h[Len(t)] \in Nat
    <3>1. Len(t) \in 0 .. Len(t)
        BY <2>1
    <3> QED BY <2>1, <2>2, <3>1, SumsSay
  <2> QED BY <1>3, <2>2, <2>4, <2>5 DEF t
<1>5. ASSUME NEW i \in 1 .. Len(s)
      PROVE  SumStages(SubSeq(s, 1, i)) = SumStages(SubSeq(s, 1, i - 1)) + s[i][2]
  <2>1. i \in 0 .. Len(s) /\ i - 1 \in 0 .. Len(s)
      BY <1>1
  <2> QED BY <1>3, <1>4, <2>1
<1>6. SumStages(<<>>) = 0
  <2>1. <<>> \in StageSeqs /\ Len(<<>>) = 0
      BY DEF StageSeqs
  <2> QED BY <2>1, SumIsLast, SumsSay
<1> QED BY <1>1, <1>2, <1>3, <1>5, <1>6

-----------------------------------------------------------------------------
(* Spans of which each starts where the one before it ends.                 *)
BackToBack(q, from, to) ==
    /\ from \in Int /\ q \in Seq(SpanSet(q))
    /\ \A i \in 1 .. Len(q) :
         /\ q[i].start \in Int /\ q[i].dur \in Nat /\ q[i].end = q[i].start + q[i].dur
         /\ q[i].start = IF i = 1 THEN from ELSE q[i - 1].end
    /\ to = IF Len(q) = 0 THEN from ELSE q[Len(q)].end

(* One such sequence may follow another.                                    *)
LEMMA BackToBackJoined ==
    ASSUME NEW a, NEW b, NEW from, NEW mid, NEW to, BackToBack(a, from, mid), BackToBack(b, mid, to)
    PROVE  BackToBack(a \o b, from, to)
<1> DEFINE S == SpanSet(a) \cup SpanSet(b)
           q == a \o b
           k == Len(a)
           n == Len(b)
<1>1. a \in Seq(S) /\ b \in Seq(S) /\ k \in Nat /\ n \in Nat
  <2>1. a \in Seq(SpanSet(a)) /\ b \in Seq(SpanSet(b))
      BY DEF BackToBack
  <2>2. SpanSet(a) \subseteq S /\ SpanSet(b) \subseteq S
      OBVIOUS
  <2> HIDE DEF S
  <2> QED BY <2>1, <2>2
<1> HIDE DEF S
<1>2. q \in Seq(S) /\ SpanSet(q) = S
    BY <1>1, AppendedHold DEF S
<1>3. /\ Len(q) = k + n
      /\ \A i \in 1 .. k : q[i] = a[i]
      /\ \A i \in 1 .. n : q[k + i] = b[i]
    BY <1>1
<1> HIDE DEF q, k, n
<1>4. mid \in Int /\ (k > 0 => mid = a[k].end) /\ (k = 0 => mid = from)
    BY <1>1 DEF BackToBack, k
<1>5. ASSUME NEW i \in 1 .. k + n
      PROVE  /\ q[i].start \in Int /\ q[i].dur \in Nat /\ q[i].end = q[i].start + q[i].dur
             /\ q[i].start = IF i = 1 THEN from ELSE q[i - 1].end
  <2>1. CASE i <= k
    <3>1. i \in 1 .. k /\ q[i] = a[i] /\ (i # 1 => q[i - 1] = a[i - 1])
        BY <1>1, <1>3, <2>1
    <3>2. /\ a[i].start \in Int /\ a[i].dur \in Nat /\ a[i].end = a[i].start + a[i].dur
          /\ a[i].start = IF i = 1 THEN from ELSE a[i - 1].end
        BY <3>1 DEF BackToBack, k
    <3> QED BY <3>1, <3>2
  <2>2. CASE i > k
    <3> DEFINE j == i - k
    <3>1. j \in 1 .. n /\ q[i] = b[j] /\ (j # 1 => q[i - 1] = b[j - 1])
      <4>1. j \in 1 .. n /\ k + j = i /\ (j # 1 => j - 1 \in 1 .. n /\ k + (j - 1) = i - 1)
          BY <1>1, <2>2
      <4> QED BY <1>3, <4>1
    <3>2. /\ b[j].start \in Int /\ b[j].dur \in Nat /\ b[j].end = b[j].start + b[j].dur
          /\ b[j].start = IF j = 1 THEN mid ELSE b[j - 1].end
        BY <3>1 DEF BackToBack, n
    <3>3. j = 1 /\ i # 1 => k > 0 /\ i - 1 = k /\ q[i - 1] = a[k]
        BY <1>1, <1>3, <2>2
    <3>4. (j = 1 <=> i = k + 1) /\ (i = 1 => k = 0 /\ j = 1)
        BY <1>1, <2>2
    <3> HIDE DEF j
    <3> QED BY <1>4, <3>1, <3>2, <3>3, <3>4
  <2> QED BY <1>1, <2>1, <2>2
<1>6. to = IF k + n = 0 THEN from ELSE q[k + n].end
  <2>1. CASE n = 0
    <3>1. to = mid
        BY <2>1 DEF BackToBack, n
    <3>2. k > 0 => q[k + n] = a[k]
        BY <1>1, <1>3, <2>1
    <3> QED BY <1>1, <1>4, <2>1, <3>1, <3>2
  <2>2. CASE n # 0
    <3>1. to = b[n].end /\ q[k + n] = b[n] /\ k + n # 0
        BY <1>1, <1>3, <2>2 DEF BackToBack, n
    <3> QED BY <3>1
  <2> QED BY <2>1, <2>2
<1>7. from \in Int
    BY DEF BackToBack
<1>8. BackToBack(q, from, to)
    BY <1>2, <1>3, <1>5, <1>6, <1>7 DEF BackToBack
<1> QED BY <1>8 DEF q

(* So are the spans of a turn.                                              *)
LEMMA TurnBackToBack ==
    ASSUME NEW t \in WholeTurn, NEW start \in Int
    PROVE  BackToBack(buildTurnSpans(t, start), start, start + SumStages(t.stages))
<1> DEFINE s == t.stages
           n == Len(s)
           q == buildTurnSpans(t, start)
           At(i) == SumStages(SubSeq(s, 1, i))
<1>1. s \in StageSeqs /\ n \in Nat /\ DOMAIN s = 1 .. n /\ \A i \in 1 .. n : s[i][2] \in Nat
  <2>1. s \in Seq(STRING \X Nat)
      BY TurnShape
  <2> HIDE DEF s
  <2> QED BY <2>1 DEF StageSeqs
<1>2. ASSUME NEW i \in 1 .. n
      PROVE  /\ q[i].start = start + At(i - 1) /\ q[i].dur = s[i][2]
             /\ q[i].end = (start + At(i - 1)) + s[i][2]
    BY <1>1 DEF buildTurnSpans
<1>3. DOMAIN q = 1 .. n /\ q = [i \in 1 .. n |-> q[i]]
    BY <1>1 DEF buildTurnSpans
<1> HIDE DEF q
<1>4. q \in Seq(SpanSet(q)) /\ Len(q) = n
  <2>1. \A i \in 1 .. n : q[i] \in SpanSet(q)
      BY <1>3 DEF SpanSet
  <2> QED BY <1>1, <1>3, <2>1
<1>5. /\ At(0) = 0 /\ At(n) = SumStages(s)
      /\ \A i \in 1 .. n : At(i) = At(i - 1) + s[i][2]
      /\ \A i \in 0 .. n : At(i) \in Nat
  <2>1. \A i \in 0 .. n : SubSeq(s, 1, i) \in StageSeqs
    <3> SUFFICES ASSUME NEW i \in 0 .. n PROVE SubSeq(s, 1, i) \in StageSeqs
        OBVIOUS
    <3> HIDE DEF s
    <3> QED BY <1>1 DEF StageSeqs
  <2>2. SubSeq(s, 1, 0) = <<>> /\ SubSeq(s, 1, n) = s
    <3> HIDE DEF s
    <3> QED BY <1>1 DEF StageSeqs
  <2> HIDE DEF s
  <2>3. \A i \in 0 .. n : At(i) \in Nat
      BY <2>1, SumOfFirst
  <2> QED BY <1>1, <2>2, <2>3, SumOfFirst
<1> HIDE DEF At, s, n
<1>6. ASSUME NEW i \in 1 .. n
      PROVE  /\ q[i].start \in Int /\ q[i].dur \in Nat /\ q[i].end = q[i].start + q[i].dur
             /\ q[i].start = IF i = 1 THEN start ELSE q[i - 1].end
             /\ q[i].end = start + At(i)
  <2>1. At(i - 1) \in Nat /\ s[i][2] \in Nat /\ At(i) = At(i - 1) + s[i][2]
    <3>1. i - 1 \in 0 .. n
        BY <1>1
    <3> QED BY <1>1, <1>5, <3>1
  <2>2. i # 1 => /\ i - 1 \in 1 .. n
                 /\ q[i - 1].end = (start + At((i - 1) - 1)) + s[i - 1][2]
                 /\ At(i - 1) = At((i - 1) - 1) + s[i - 1][2]
                 /\ At((i - 1) - 1) \in Nat /\ s[i - 1][2] \in Nat
    <3>1. i # 1 => i - 1 \in 1 .. n /\ (i - 1) - 1 \in 0 .. n
        BY <1>1
    <3> QED BY <1>1, <1>2, <1>5, <3>1
  <2>3. i = 1 => At(i - 1) = 0
      BY <1>5
  <2> QED BY <1>2, <2>1, <2>2, <2>3
<1>7. start + SumStages(s) = IF n = 0 THEN start ELSE q[n].end
  <2>1. n # 0 => n \in 1 .. n
      BY <1>1
  <2> QED BY <1>5, <1>6, <2>1
<1>8. BackToBack(q, start, start + SumStages(s))
    BY <1>4, <1>6, <1>7 DEF BackToBack
<1> QED BY <1>8 DEF q, s

(* A turn starts where the one before it has played out.                    *)
LEMMA TurnsStart ==
    ASSUME NEW summary \in WholeSummary
    PROVE  /\ TurnStart(summary, 1) = RunStart
           /\ \A n \in DOMAIN summary.turns :
                TurnStart(summary, n + 1)
                  = TurnStart(summary, n) + SumStages(summary.turns[n].stages)
<1> DEFINE turns == summary.turns
           N == Len(turns)
           st == [i \in 1 .. N |-> turns[i].stages]
           Upto(m) == FlattenSeq(FirstOf(st, m))
<1>1. turns \in Seq(WholeTurn) /\ N \in Nat /\ DOMAIN turns = 1 .. N
    BY WholeTurns
<1>2. ASSUME NEW i \in 1 .. N
      PROVE  turns[i].stages \in StageSeqs
  <2>1. turns[i] \in WholeTurn
      BY <1>1
  <2> HIDE DEF turns
  <2> QED BY <2>1, TurnShape DEF StageSeqs
<1>3. ASSUME NEW m \in 0 .. N
      PROVE  /\ TurnStart(summary, m + 1) = RunStart + SumStages(Upto(m))
             /\ Upto(m) \in StageSeqs
  <2>1. FirstOf(st, m) = [i \in 1 .. m |-> turns[i].stages]
      BY <1>1 DEF FirstOf
  <2>2. (m + 1) - 1 = m
      OBVIOUS
  <2>3. TurnStart(summary, m + 1) = RunStart + SumStages(Upto(m))
      BY <2>1, <2>2 DEF TurnStart
  <2>4. FirstOf(st, m) \in Seq(StageSeqs)
    <3>1. \A i \in 1 .. m : turns[i].stages \in StageSeqs
        BY <1>2
    <3> HIDE DEF turns
    <3> QED BY <2>1, <3>1
  <2>5. Upto(m) \in StageSeqs
    <3> HIDE DEF st
    <3> QED BY <2>4, FlattenElements DEF StageSeqs
  <2> QED BY <2>3, <2>5
<1>4. ASSUME NEW n \in 1 .. N
      PROVE  TurnStart(summary, n + 1) = TurnStart(summary, n) + SumStages(turns[n].stages)
  <2> DEFINE m == n - 1
  <2>1. m \in Nat /\ m \in 0 .. N /\ n \in 0 .. N /\ m + 1 = n
      BY <1>1
  <2>2. st[n] = turns[n].stages /\ st[n] \in StageSeqs
      BY <1>2
  <2>3. Upto(n) = Upto(m) \o st[n]
    <3> HIDE DEF st, m
    <3>1. st[m + 1] \in Seq(STRING \X Nat)
        BY <2>1, <2>2 DEF StageSeqs
    <3>2. Upto(m + 1) = Upto(m) \o st[m + 1]
        BY <2>1, <3>1, FlattenNext
    <3> QED BY <2>1, <3>2
  <2> HIDE DEF m
  <2>4. /\ TurnStart(summary, n + 1) = RunStart + SumStages(Upto(n)) /\ Upto(n) \in StageSeqs
        /\ TurnStart(summary, n) = RunStart + SumStages(Upto(m)) /\ Upto(m) \in StageSeqs
      BY <1>3, <2>1
  <2> HIDE DEF Upto, st
  <2>5. /\ SumStages(Upto(n)) = SumStages(Upto(m)) + SumStages(st[n])
        /\ SumStages(Upto(m)) \in Nat /\ SumStages(st[n]) \in Nat
      BY <2>2, <2>3, <2>4, SumOfJoined, SumOfFirst
  <2>6. RunStart \in Int
      BY StoreAssumption
  <2> QED BY <2>2, <2>4, <2>5, <2>6
<1>5. TurnStart(summary, 1) = RunStart
  <2>1. 0 \in 0 .. N /\ 0 + 1 = 1 /\ 1 \in Nat
      BY <1>1
  <2>2. FlattenSeq(FirstOf(st, 0)) = <<>>
    <3>1. FirstOf(st, 0) = <<>>
        BY DEF FirstOf
    <3> QED BY <3>1 DEF FlattenSeq
  <2>3. TurnStart(summary, 1) = RunStart + SumStages(<<>>)
      BY <1>3, <2>1, <2>2
  <2>4. SumStages(<<>>) = 0
    <3>1. <<>> \in StageSeqs
        BY DEF StageSeqs
    <3> QED BY <3>1, SumOfFirst
  <2> QED BY <2>3, <2>4, StoreAssumption
<1> QED BY <1>1, <1>4, <1>5

(* The spans of a payload run back to back from the time it is made.        *)
LEMMA PayloadBackToBack ==
    ASSUME NEW summary \in WholeSummary
    PROVE  \E to : BackToBack(summaryToIngestPayload(summary).spans, RunStart, to)
<1> DEFINE turns == summary.turns
           N == Len(turns)
           Of(n) == buildTurnSpans(turns[n], TurnStart(summary, n))
           ss == [n \in DOMAIN turns |-> Of(n)]
           Upto(m) == FlattenSeq(FirstOf(ss, m))
           T == {m \in Nat : m <= N =>
                   TurnStart(summary, m + 1) \in Int
                     /\ BackToBack(Upto(m), RunStart, TurnStart(summary, m + 1))}
<1>1. turns \in Seq(WholeTurn) /\ N \in Nat /\ DOMAIN turns = 1 .. N
    BY WholeTurns
<1>2. 0 \in T
  <2>1. Upto(0) = <<>>
    <3>1. FirstOf(ss, 0) = <<>>
        BY DEF FirstOf
    <3> QED BY <3>1 DEF FlattenSeq
  <2>2. TurnStart(summary, 0 + 1) = RunStart /\ RunStart \in Int
      BY TurnsStart, StoreAssumption
  <2>3. BackToBack(<<>>, RunStart, RunStart)
      BY <2>2 DEF BackToBack
  <2> QED BY <2>1, <2>2, <2>3
<1>3. ASSUME NEW m \in Nat, m \in T
      PROVE  m + 1 \in T
  <2> SUFFICES ASSUME m + 1 <= N
               PROVE  /\ TurnStart(summary, (m + 1) + 1) \in Int
                      /\ BackToBack(Upto(m + 1), RunStart, TurnStart(summary, (m + 1) + 1))
      OBVIOUS
  <2> DEFINE n == m + 1
             t == turns[n]
             at == TurnStart(summary, n)
  <2>1. n \in DOMAIN turns /\ t \in WholeTurn /\ m <= N
      BY <1>1
  <2>2. at \in Int /\ BackToBack(Upto(m), RunStart, at)
      BY <1>3, <2>1
  <2>3. TurnStart(summary, n + 1) = at + SumStages(t.stages)
      BY <2>1, TurnsStart
  <2>4. ss[n] = buildTurnSpans(t, at)
      BY <2>1
  <2> HIDE DEF t, at, ss
  <2>5. BackToBack(ss[n], at, at + SumStages(t.stages))
      BY <2>1, <2>2, <2>4, TurnBackToBack
  <2>6. SumStages(t.stages) \in Nat
    <3>1. t.stages \in StageSeqs
        BY <2>1, TurnShape DEF StageSeqs
    <3> QED BY <3>1, SumOfFirst
  <2>7. Upto(m + 1) = Upto(m) \o ss[n]
    <3>1. ss[m + 1] \in Seq(SpanSet(ss[m + 1]))
        BY <2>5 DEF BackToBack
    <3> QED BY <3>1, FlattenNext
  <2> HIDE DEF Upto
  <2>8. BackToBack(Upto(m + 1), RunStart, at + SumStages(t.stages))
      BY <2>2, <2>5, <2>7, BackToBackJoined
  <2> QED BY <2>2, <2>3, <2>6, <2>8
<1>4. ss = FirstOf(ss, N)
    BY <1>1 DEF FirstOf
<1>5. summaryToIngestPayload(summary).spans = FlattenSeq(ss)
    BY DEF summaryToIngestPayload
<1> HIDE DEF T
<1>6. Nat \subseteq T
    BY <1>2, <1>3, NumbersByInduction
<1>7. BackToBack(Upto(N), RunStart, TurnStart(summary, N + 1))
    BY <1>1, <1>6 DEF T
<1>8. Upto(N) = summaryToIngestPayload(summary).spans
    BY <1>4, <1>5
<1> QED BY <1>7, <1>8

(* Back to back and with time in each, they start one after the other.      *)
LEMMA StartsRise ==
    ASSUME NEW q, NEW from, NEW to, BackToBack(q, from, to), \A i \in 1 .. Len(q) : q[i].dur > 0
    PROVE  \A i, j \in 1 .. Len(q) : i < j => q[i].start < q[j].start
<1> DEFINE n == Len(q)
           T == {m \in Nat : \A i \in 1 .. n : i < m /\ m <= n => q[i].start < q[m].start}
<1>1. n \in Nat
    BY DEF BackToBack
<1>2. \A i \in 1 .. n : q[i].start \in Int /\ q[i].dur \in Nat /\ q[i].dur > 0
    BY DEF BackToBack
<1>3. ASSUME NEW m \in Nat, m + 1 <= n, m # 0
      PROVE  q[m + 1].start = q[m].start + q[m].dur
  <2>1. m \in 1 .. n /\ m + 1 \in 1 .. n /\ m + 1 # 1 /\ (m + 1) - 1 = m
      BY <1>1, <1>3
  <2>2. q[m + 1].start = q[m].end /\ q[m].end = q[m].start + q[m].dur
      BY <2>1 DEF BackToBack
  <2> QED BY <2>2
<1> HIDE DEF n
<1>4. 0 \in T
    BY <1>1
<1>5. ASSUME NEW m \in Nat, m \in T
      PROVE  m + 1 \in T
  <2> SUFFICES ASSUME NEW i \in 1 .. n, i < m + 1, m + 1 <= n
               PROVE  q[i].start < q[m + 1].start
      OBVIOUS
  <2>1. m \in 1 .. n /\ m # 0 /\ (i = m \/ i < m)
      BY <1>1
  <2>2. q[m + 1].start = q[m].start + q[m].dur
      BY <1>3, <2>1
  <2>3. i < m => q[i].start < q[m].start
      BY <1>1, <1>5, <2>1
  <2>4. q[m].start \in Int /\ q[m].dur \in Nat /\ q[m].dur > 0 /\ q[i].start \in Int
      BY <1>2, <2>1
  <2> QED BY <2>1, <2>2, <2>3, <2>4
<1> HIDE DEF T
<1>6. Nat \subseteq T
    BY <1>4, <1>5, NumbersByInduction
<1>7. \A j \in 1 .. n : j \in T /\ j <= n
    BY <1>1, <1>6
<1>8. \A i, j \in 1 .. n : i < j => q[i].start < q[j].start
    BY <1>7 DEF T
<1> QED BY <1>8 DEF n

(* The rows show the spans of q in their order, each from where the one     *)
(* before it ends.                                                          *)
InRunOrder(rows, q) ==
    /\ \A i \in DOMAIN rows : rows[i].id = q[i].id
    /\ \A i \in DOMAIN rows \ {1} : rows[i].offset = rows[i - 1].offset + 200 * q[i - 1].dur

(* So does the page of a run whose stages all take time.                    *)
LEMMA ShownInRunOrder ==
    ASSUME NEW trace, NEW q, NEW from, NEW to, BackToBack(q, from, to), Storable(trace, SpanSet(q)),
           \A s \in SpanSet(q) : s.dur > 0, NEW rows \in RowOrders(SpanSet(q)),
           PublicPage(trace, rows).status = 200
    PROVE  InRunOrder(PublicPage(trace, rows).waterfall.rows, q)
<1> DEFINE S == SpanSet(q)
           n == Len(q)
           shown == PublicPage(trace, rows)
           t == toPublicTrace(trace)
           r == toPublicSpans(rows)
           P == SpanSet(r)
           p == [i \in 1 .. n |-> toPublicSpan(q[i])]
           w == shown.waterfall
<1>1. n \in Nat /\ DOMAIN q = 1 .. n
    BY DEF BackToBack
<1>2. \A i \in 1 .. n : q[i] \in S /\ q[i].dur > 0
    BY <1>1 DEF SpanSet
<1>3. \A i, j \in 1 .. n : i < j => q[i].start < q[j].start
    BY <1>2, StartsRise
<1>4. \A i \in 1 .. n : SamePlace(p[i], q[i])
    BY PublicSpanSame
<1>5. Projected(P, S)
  <2>1. SpanSet(rows) = S
      BY RowsHoldSpans
  <2> QED BY <2>1 DEF toPublicSpans, SpanSet, Projected
<1>6. Storable(t, P)
    BY <1>5, ProjectedStorable
<1>7. w = computeWaterfall(t, r)
  <2>1. PageSays(shown, trace, rows)
      BY PageFields
  <2>2. shown.status = 200
      OBVIOUS
  <2> HIDE DEF shown
  <2> QED BY <2>1, <2>2 DEF PageSays
<1> HIDE DEF w, shown
<1>8. SpanSet(p) = P /\ p \in [1 .. n -> P]
  <2>1. P = {toPublicSpan(s) : s \in S}
      BY <1>5 DEF Projected
  <2> HIDE DEF P
  <2>2. DOMAIN p = 1 .. n /\ \A i \in 1 .. n : p[i] = toPublicSpan(q[i])
      OBVIOUS
  <2>3. p = [i \in 1 .. n |-> p[i]]
      OBVIOUS
  <2> HIDE DEF p
  <2>4. \A i \in 1 .. n : p[i] \in P
      BY <1>2, <2>1, <2>2
  <2>5. ASSUME NEW x \in P PROVE x \in SpanSet(p)
    <3>1. PICK s \in S : x = toPublicSpan(s)
        BY <2>1
    <3>2. PICK i \in 1 .. n : s = q[i]
        BY <1>1 DEF SpanSet
    <3> QED BY <2>2, <3>1, <3>2 DEF SpanSet
  <2> QED BY <2>2, <2>3, <2>4, <2>5 DEF SpanSet
<1>9. DOMAIN p = 1 .. n
    OBVIOUS
<1> HIDE DEF p, P, S, n
<1>10. n # 0 => P # {}
  <2>1. n # 0 => 1 \in 1 .. n
      BY <1>1
  <2> QED BY <1>8, <2>1
<1>11. Cardinality(P) = n
  <2>1. IsFiniteSet(1 .. n) /\ Cardinality(1 .. n) = n
      BY <1>1, FS_Interval
  <2>2. p \in Injection(1 .. n, P)
    <3>1. ASSUME NEW i \in 1 .. n, NEW j \in 1 .. n, p[i] = p[j]
          PROVE  i = j
      <4>1. q[i].start = q[j].start /\ q[i].start \in Int /\ q[j].start \in Int
          BY <1>4, <3>1 DEF SamePlace, BackToBack, n
      <4> QED BY <1>1, <1>3, <4>1
    <3> QED BY <1>8, <3>1 DEF Injection, IsInjective
  <2>3. p \in Surjection(1 .. n, P)
      BY <1>8, <1>9 DEF Surjection, SpanSet
  <2> QED BY <2>1, <2>2, <2>3, FS_Surjection
<1>12. Ordered(P) = p
  <2>1. ASSUME NEW i \in 1 .. n, NEW j \in 1 .. n, i < j
        PROVE  Earlier(p[i], p[j])
    <3>1. p[i].start < p[j].start
        BY <1>3, <1>4, <2>1 DEF SamePlace
    <3> QED BY <3>1 DEF Earlier
  <2>2. InOrder(p, P)
      BY <1>8, <1>11, <2>1 DEF InOrder
  <2> QED BY <1>6, <2>2, OrderedInOrder, InOrderOnce
<1>13. ASSUME n # 0
       PROVE  WaterfallSays(w, t, P)
  <2>1. r # <<>>
    <3> HIDE DEF r
    <3> QED BY <1>10, <1>13 DEF P, SpanSet
  <2>2. WaterfallSays(computeWaterfall(t, r), t, P)
      BY <1>6, <2>1, WaterfallFields DEF P
  <2> QED BY <1>7, <2>2
<1>14. CASE n = 0
  <2>1. P = {}
    <3>1. SpanSet(p) = {}
        BY <1>9, <1>14 DEF SpanSet
    <3> QED BY <1>8, <3>1
  <2>2. r = <<>>
    <3>1. DOMAIN r = {}
      <4> HIDE DEF r
      <4>1. \A i \in DOMAIN r : r[i] \in P
          BY DEF P, SpanSet
      <4> QED BY <2>1, <4>1
    <3>2. r = [i \in DOMAIN rows |-> toPublicSpan(rows[i])]
        BY DEF toPublicSpans
    <3>3. DOMAIN rows = {}
        BY <3>1, <3>2
    <3> QED BY <3>2, <3>3
  <2>3. w = [rows |-> <<>>, totalMs |-> 0, ticks |-> <<0>>]
      BY <1>7, <2>2 DEF computeWaterfall
  <2>4. w.rows = <<>>
      BY <2>3
  <2>5. DOMAIN w.rows = {}
      BY <2>4
  <2>6. InRunOrder(w.rows, q)
      BY <2>5 DEF InRunOrder
  <2> QED BY <2>6 DEF w, shown
<1>15. CASE n # 0
  <2> DEFINE origin == Origin(t, P)
  <2>1. DOMAIN w.rows = 1 .. n /\ \A i \in 1 .. n : RowSays(w.rows[i], p[i], t, P)
      BY <1>11, <1>12, <1>13, <1>15 DEF WaterfallSays
  <2>2. origin \in Int
      BY <1>6, <1>10, <1>15, AxisHolds
  <2> HIDE DEF origin
  <2>3. ASSUME NEW i \in 1 .. n
        PROVE  w.rows[i].id = q[i].id /\ w.rows[i].offset = 200 * (q[i].start - origin)
    <3>1. w.rows[i].id = p[i].id /\ w.rows[i].offset = 200 * (p[i].start - origin)
        BY Zenon, <2>1 DEF RowSays, origin
    <3>2. p[i].id = q[i].id /\ p[i].start = q[i].start
        BY <1>4 DEF SamePlace
    <3> QED BY <3>1, <3>2
  <2>4. ASSUME NEW i \in 1 .. n, i # 1
        PROVE  w.rows[i].offset = w.rows[i - 1].offset + 200 * q[i - 1].dur
    <3> DEFINE j == i - 1
    <3>1. j \in 1 .. n
        BY <1>1, <2>4
    <3>2. q[i].start = q[j].end /\ q[j].end = q[j].start + q[j].dur
          /\ q[j].start \in Int /\ q[j].dur \in Nat
        BY <2>4, <3>1 DEF BackToBack, n
    <3>3. /\ w.rows[i].offset = 200 * (q[i].start - origin)
          /\ w.rows[j].offset = 200 * (q[j].start - origin)
        BY <2>3, <3>1
    <3> HIDE DEF j
    <3>4. w.rows[i].offset = w.rows[j].offset + 200 * q[j].dur
        BY <2>2, <3>2, <3>3
    <3> QED BY <3>4 DEF j
  <2>5. InRunOrder(w.rows, q)
      BY <2>1, <2>3, <2>4 DEF InRunOrder
  <2> QED BY <2>5 DEF w, shown
<1> QED BY <1>14, <1>15

-----------------------------------------------------------------------------
(* What is true of the store and of a reader's page at any time.            *)
PageOf(p) ==
    /\ Storable(p.of.trace, p.of.spans) /\ p.rows \in RowOrders(p.of.spans)
    /\ p.shown = PublicPage(p.of.trace, p.rows)

PageInv ==
    /\ stored # None => Storable(stored.trace, stored.spans)
    /\ payload # None =>
         \E f \in TraceFiles \ {Unreadable} : HasStages(f) /\ payload = summaryToIngestPayload(f)
    /\ page # None => PageOf(page)

(* What an ingest stores of a payload is as the tables hold it.             *)
LEMMA PayloadStorable ==
    ASSUME NEW summary \in TraceFiles \ {Unreadable},
           HasStages(summary), NEW ids,
           NEW sent, sent = summaryToIngestPayload(summary), NEW n \in 0 .. Len(sent.spans)
    PROVE  Storable(sent.trace, FirstOfEach(sent.spans, n, ids))
<1> DEFINE q == sent.spans
           S == FirstOfEach(q, n, ids)
<1>1. summary \in WholeSummary
    BY FilesAssumption DEF WholeSummary
<1>2. PICK to : BackToBack(q, RunStart, to)
    BY <1>1, PayloadBackToBack
<1>3. sent.trace.start = RunStart
    BY DEF summaryToIngestPayload
<1>4. \A s \in SpanSet(q) : s.id \in DOMAIN IdRank
  <2>1. ASSUME NEW s \in SpanSet(q) PROVE s.id \in DOMAIN IdRank
    <3>1. PICK m \in DOMAIN summary.turns :
            \E i \in DOMAIN summary.turns[m].stages : s = StageSpan(summary, m, i)
        BY <1>1, PayloadHoldsStages
    <3>2. PICK i \in DOMAIN summary.turns[m].stages : s = StageSpan(summary, m, i)
        BY <3>1
    <3>3. s.id = <<summary.turns[m].turn, summary.turns[m].stages[i][1]>>
        BY <3>2 DEF StageSpan, buildTurnSpans
    <3>4. summary.turns[m] \in SpanSet(summary.turns)
        BY DEF SpanSet
    <3> QED BY <3>3, <3>4, StoreAssumption
  <2> QED BY <2>1
<1> HIDE DEF q
<1>5. /\ Len(q) \in Nat /\ DOMAIN q = 1 .. Len(q) /\ n \in 0 .. Len(q)
      /\ q = [i \in 1 .. Len(q) |-> q[i]]
  <2>1. q \in Seq(SpanSet(q))
      BY <1>2 DEF BackToBack
  <2>2. n \in 0 .. Len(q)
      BY DEF q
  <2> QED BY <2>1, <2>2
<1>6. IsFiniteSet(S)
  <2>a. Len(q) \in Int /\ 1 \in Int
      BY <1>5
  <2>1. IsFiniteSet(1 .. Len(q))
      BY <2>a, FS_Interval
  <2>2. IsFiniteSet({q[i] : i \in 1 .. Len(q)})
      BY <1>5, <2>1, ValuesFinite
  <2>3. S \in SUBSET {q[i] : i \in 1 .. Len(q)}
      BY <1>5 DEF FirstOfEach
  <2> HIDE DEF S
  <2> QED BY <2>2, <2>3, FS_Subset
<1>7. ASSUME NEW s \in S
      PROVE  \E i \in 1 .. n : /\ s = q[i] /\ i \in DOMAIN q
                               /\ \A j \in 1 .. i - 1 : q[j].id # q[i].id
    BY <1>5 DEF FirstOfEach
<1>8. ASSUME NEW s \in S
      PROVE  s.id \in DOMAIN IdRank /\ s.start \in Int /\ s.end \in Int /\ s.dur \in Int
  <2>1. PICK i \in DOMAIN q : s = q[i]
      BY <1>7
  <2>2. /\ q[i].start \in Int /\ q[i].dur \in Nat /\ q[i].end = q[i].start + q[i].dur
      BY <1>2, <1>5 DEF BackToBack
  <2>3. s.id \in DOMAIN IdRank
      BY <1>4, <2>1 DEF SpanSet
  <2> QED BY <2>1, <2>2, <2>3
<1>9. ASSUME NEW s \in S, NEW t \in S, s.id = t.id
      PROVE  s = t
  <2>1. PICK i \in 1 .. n : s = q[i] /\ \A j \in 1 .. i - 1 : q[j].id # q[i].id
      BY <1>7
  <2>2. PICK k \in 1 .. n : t = q[k] /\ \A j \in 1 .. k - 1 : q[j].id # q[k].id
      BY <1>7
  <2>3. ~(i < k) /\ ~(k < i)
      BY <1>5, <1>9, <2>1, <2>2
  <2> QED BY <1>5, <2>1, <2>2, <2>3
<1> HIDE DEF S
<1>10. Storable(sent.trace, S)
    BY <1>3, <1>6, <1>8, <1>9, StoreAssumption DEF Storable
<1> QED BY <1>10 DEF S, q

(* The store of another client is as the tables hold it.                    *)
LEMMA PageInvInit ==
    ASSUME Init
    PROVE  PageInv
  BY StoreAssumption DEF Init, PageInv

(* An ingest keeps the store so, whatever part of it arrives.               *)
LEMMA IngestStorable ==
    ASSUME NoneIsNoRecord, RunInv, PageInv, pc = "ingest",
           NEW n \in 0 .. Len(payload.spans), Store(n)
    PROVE  Storable(stored'.trace, stored'.spans)
<1>1. PICK f \in TraceFiles \ {Unreadable} :
          HasStages(f) /\ payload = summaryToIngestPayload(f)
    BY DEF RunInv, TypeOK, PageInv
<1>2. stored' = [trace |-> payload.trace, spans |-> FirstOfEach(payload.spans, n, taken)]
    BY DEF Store, FirstOfEach
<1>3. stored'.trace = payload.trace /\ stored'.spans = FirstOfEach(payload.spans, n, taken)
    BY <1>2
<1> QED BY <1>1, <1>3, PayloadStorable

(* Every step keeps it.                                                     *)
LEMMA PageInvStep ==
    ASSUME NoneIsNoRecord, RunInv, PageInv, [Next]_vars
    PROVE  PageInv'
<1> USE DEF backend
<1>1. CASE \/ Main \/ ReadTrace \/ ShareMinted \/ ShareFails
           \/ Compare \/ CompareThrows \/ UNCHANGED vars
    BY <1>1 DEF Main, ReadTrace, ShareMinted, ShareFails, Compare, CompareThrows, vars, PageInv
<1>2. CASE ReadBaseline
  <2>1. /\ UNCHANGED <<stored, page>>
        /\ \/ HasStages(current) /\ payload' = summaryToIngestPayload(current)
           \/ payload' = payload
      BY <1>2 DEF ReadBaseline
  <2>2. current \in TraceFiles \ {Unreadable}
      BY <1>2 DEF ReadBaseline, RunInv, TypeOK
  <2> QED BY <2>1, <2>2 DEF PageInv
<1>3. CASE IngestAccepted
  <2>1. pc = "ingest" /\ Store(Len(payload.spans)) /\ page' = None /\ payload' = payload
      BY <1>3 DEF IngestAccepted
  <2>2. Len(payload.spans) \in 0 .. Len(payload.spans)
    <3>1. PICK f \in TraceFiles \ {Unreadable} :
          HasStages(f) /\ payload = summaryToIngestPayload(f)
        BY <2>1 DEF RunInv, TypeOK, PageInv
    <3>2. payload.spans \in Seq(SpanSet(payload.spans))
      <4>1. f \in WholeSummary
          BY <3>1, FilesAssumption DEF WholeSummary
      <4> QED BY <3>1, <4>1, PayloadHoldsStages
    <3> QED BY <3>2
  <2>3. Storable(stored'.trace, stored'.spans)
      BY <2>1, <2>2, IngestStorable
  <2> QED BY <2>1, <2>3 DEF PageInv
<1>4. CASE IngestFails
  <2>1. CASE UNCHANGED <<stored, minted, page>>
      BY <1>4, <2>1 DEF IngestFails, PageInv
  <2>2. CASE page' = None /\ \E n \in 0 .. Len(payload.spans) : Store(n)
    <3>1. pc = "ingest" /\ payload' = payload
        BY <1>4 DEF IngestFails
    <3>2. Storable(stored'.trace, stored'.spans)
        BY <2>2, <3>1, IngestStorable
    <3> QED BY <2>2, <3>1, <3>2 DEF PageInv
  <2> QED BY <1>4, <2>1, <2>2 DEF IngestFails
<1>5. CASE OpenPage
  <2>1. PICK rows \in RowOrders(stored.spans) :
          page' = [of |-> stored, rows |-> rows, shown |-> PublicPage(stored.trace, rows)]
      BY <1>5 DEF OpenPage
  <2>2. stored # None /\ UNCHANGED <<stored, payload>>
      BY <1>5 DEF OpenPage
  <2>3. page'.of = stored /\ page'.rows = rows /\ page'.shown = PublicPage(stored.trace, rows)
      BY <2>1
  <2>4. PageOf(page')
      BY <2>2, <2>3 DEF PageInv, PageOf
  <2> QED BY <2>2, <2>4 DEF PageInv
<1> QED
    BY <1>1, <1>2, <1>3, <1>4, <1>5 DEF Next

(* What a reader is shown of any trace is faithful to it, and of a run that *)
(* is stored whole it is every stage from where the one before it ends, in  *)
(* the order the run took: however requests fail, whatever other clients    *)
(* store, and for any files (client.ts, views.ts, metrics.ts, og.ts).       *)
THEOREM PageIsFaithful ==
    ASSUME NoneIsNoRecord
    PROVE  Spec => []PageFaithful
<1>1. Init => RunInv /\ PageInv
    BY RunInvInit, PageInvInit
<1>2. RunInv /\ PageInv /\ [Next]_vars => (RunInv /\ PageInv)'
    BY RunInvStep, PageInvStep
<1>3. PageInv => PageFaithful
  <2> SUFFICES ASSUME PageInv, page # None
               PROVE  /\ Faithful(page.of.trace, page.rows, page.shown)
                      /\ (/\ page.shown.status = 200 /\ payload # None
                          /\ page.of.spans = SpanSet(payload.spans)
                          /\ \A s \in page.of.spans : s.dur > 0)
                         => InRunOrder(page.shown.waterfall.rows, payload.spans)
      BY Zenon DEF PageFaithful, InRunOrder
  <2> DEFINE trace == page.of.trace
             rows == page.rows
             S == page.of.spans
             q == payload.spans
  <2>1. Storable(trace, S) /\ rows \in RowOrders(S) /\ page.shown = PublicPage(trace, rows)
      BY DEF PageInv, PageOf
  <2>2. Faithful(trace, rows, page.shown)
      BY <2>1, EveryPageIsFaithful
  <2>3. ASSUME page.shown.status = 200, payload # None, S = SpanSet(q), \A s \in S : s.dur > 0
        PROVE  InRunOrder(page.shown.waterfall.rows, q)
    <3>1. PICK f \in TraceFiles \ {Unreadable} :
          HasStages(f) /\ payload = summaryToIngestPayload(f)
        BY <2>3 DEF PageInv
    <3>2. PICK to : BackToBack(q, RunStart, to)
      <4>1. f \in WholeSummary
          BY <3>1, FilesAssumption DEF WholeSummary
      <4> QED BY <3>1, <4>1, PayloadBackToBack
    <3> HIDE DEF trace, rows, S, q
    <3>3. InRunOrder(PublicPage(trace, rows).waterfall.rows, q)
        BY <2>1, <2>3, <3>2, ShownInRunOrder
    <3> QED BY <2>1, <3>3
  <2> QED BY <2>2, <2>3
<1> QED
    BY <1>1, <1>2, <1>3, PTL DEF Spec
=============================================================================
