------------------------------ MODULE ActionRun -------------------------------
(***************************************************************************)
(* One run of the GitHub action (src/action): action.yml builds the        *)
(* command line, entry.ts reads it, reads the trace summary and the        *)
(* baseline, sends the trace to the backend and asks for a share link      *)
(* (client.ts), compares (compare.ts), writes the comment (comment.ts) and *)
(* ends with an exit code.  Every read and every request may fail, or be   *)
(* answered with a failure after it took effect.  A reader may open the    *)
(* page of the trace once it is stored (TracePage); the store may hold a   *)
(* trace of the SDK instead.                                               *)
(*                                                                         *)
(* The stages of a turn are the sequence of <<name, ms>> in the order of   *)
(* the file.  Milliseconds are whole, and so are tenths of a percent.      *)
(***************************************************************************)
EXTENDS TracePage

CONSTANTS
    Inputs,       \* the inputs of action.yml: text, "" where left blank
    TraceFiles,   \* what the trace file may hold: summaries, and Unreadable
    BaselineFiles,
    Unreadable,   \* no such file, no JSON, or fields missing
    NaN,
    NumberOf,     \* Number(text), in tenths of a percent, or NaN
    RoundedDown,  \* the percents p that floating point misses by a half: see Percent
    Env,          \* option -> value: the EDGEPROBE_ variables that are set
    RunStart,     \* the time at which the payload is made
    SdkTraces,    \* [trace, spans] as other clients may have stored them
    TakenIds      \* sets of span ids that rows of other traces may have

(* The stages of a turn are the entries of an object: no name comes twice.  *)
Stages ==
    {s \in Seq(STRING \X Nat) : \A i, j \in DOMAIN s : s[i][1] = s[j][1] => i = j}

(* types.ts, as far as isTraceSummary looks: an entry of turns may be null, *)
(* and any part of it may be missing (None).                                *)
TurnEntry ==
    {None} \cup [turn : Int \cup {None}, totalMs : Nat \cup {None}, stages : Stages \cup {None}]
TraceSummary ==
    [headlineMs : Nat, totalMs : Nat, label : STRING, turns : Seq(TurnEntry)]

(* Every turn is an object with stages.                                     *)
HasStages(summary) == \A t \in SpanSet(summary.turns) : t # None /\ t.stages # None

ASSUME FilesAssumption ==
    /\ (TraceFiles \cup BaselineFiles) \ {Unreadable} \subseteq TraceSummary
    /\ None \notin TraceFiles \cup BaselineFiles

ASSUME InputsAssumption ==
    /\ Inputs \subseteq [trace : STRING, baseline : STRING, threshold : STRING, fail : STRING,
                         version : STRING, backend : STRING, ingestKey : STRING,
                         dashboardKey : STRING, dryRun : STRING]
    /\ \A in \in Inputs : in.threshold \in DOMAIN NumberOf \cup {""}
    /\ "0.15" \in DOMAIN NumberOf
    /\ \A text \in DOMAIN NumberOf : NumberOf[text] \in {NaN} \cup Int
    /\ DOMAIN Env \subseteq {"backendUrl", "ingestKey", "dashboardKey"}

(* Rows of other clients are as the tables hold them, and so are the ids of *)
(* the spans this one makes.                                                *)
ASSUME StoreAssumption ==
    /\ RunStart \in Int
    /\ \A r \in SdkTraces : r # None /\ Storable(r.trace, r.spans)
    /\ \A f \in TraceFiles \ {Unreadable} : HasStages(f) =>
         \A t \in SpanSet(f.turns) : \A i \in DOMAIN t.stages :
           <<t.turn, t.stages[i][1]>> \in DOMAIN IdRank

VARIABLES
    input, files,
    pc, opts,
    current, baseline,   \* summaries as read
    payload,             \* the ingest payload
    shareUrl,            \* whether the action was told a link
    result,              \* exit code and comment
    stored,              \* the backend: the stored trace and spans
    taken,               \* the backend: ids that spans of other traces have
    minted,              \* the backend: a link for it was signed
    page                 \* what the last reader was shown

vars == <<input, files, pc, opts, current, baseline, payload, shareUrl, result,
          stored, taken, minted, page>>

-----------------------------------------------------------------------------
(* The command line.                                                        *)

ValueFlags ==
    [f \in {"--trace", "--baseline", "--threshold", "--fail-on-regression", "--backend-url",
            "--ingest-key", "--dashboard-key", "--version"} |->
       CASE f = "--trace" -> "tracePath" [] f = "--baseline" -> "baselinePath"
         [] f = "--threshold" -> "threshold" [] f = "--fail-on-regression" -> "failOnRegression"
         [] f = "--backend-url" -> "backendUrl" [] f = "--ingest-key" -> "ingestKey"
         [] f = "--dashboard-key" -> "dashboardKey" [] f = "--version" -> "version"]

(* action.yml: some flags always, the others where the input is not blank.  *)
Argv(in) ==
    LET given(f, x) == IF x # "" THEN <<f, x>> ELSE <<>>
    IN  <<"--trace", in.trace, "--threshold", in.threshold,
          "--fail-on-regression", in.fail, "--version", in.version>>
          \o given("--baseline", in.baseline) \o given("--backend-url", in.backend)
          \o given("--ingest-key", in.ingestKey) \o given("--dashboard-key", in.dashboardKey)
          \o (IF in.dryRun = "true" THEN <<"--dry-run">> ELSE <<>>)

OptionNames == {ValueFlags[f] : f \in DOMAIN ValueFlags} \cup {"dryRun"}

(* The word given last counts; "" where none was.                           *)
Put(later, option, word) == [later EXCEPT ![option] = IF @ = "" THEN word ELSE @]

(* parseArgs: blank words are skipped, a flag takes the next word unless it *)
(* is blank or missing.                                                     *)
parseArgs(argv) ==
    LET parse[i \in 1 .. Len(argv) + 2] ==
          IF i > Len(argv) THEN [option \in OptionNames |-> ""]
          ELSE LET a == argv[i]
                   next == IF i < Len(argv) THEN argv[i + 1] ELSE ""
               IN  IF a = "--dry-run" THEN Put(parse[i + 1], "dryRun", "true")
                   ELSE IF a \in DOMAIN ValueFlags /\ next # ""
                        THEN Put(parse[i + 2], ValueFlags[a], next)
                   ELSE IF a = "--fail-on-regression" THEN Put(parse[i + 1], ValueFlags[a], "true")
                   ELSE parse[i + 1]
    IN  parse[1]

(* main: what the command line leaves out comes from the environment, then  *)
(* from the defaults.                                                       *)
Options(argv) ==
    LET parsed == parseArgs(argv)
        opt(o, default) == IF parsed[o] # "" THEN parsed[o]
                           ELSE IF o \in DOMAIN Env THEN Env[o] ELSE default
    IN  [tracePath |-> opt("tracePath", ""), baselinePath |-> opt("baselinePath", ""),
         threshold |-> NumberOf[opt("threshold", "0.15")],
         failOnRegression |-> opt("failOnRegression", "true") # "false",
         canShare |-> /\ opt("dryRun", "false") # "true"
                      /\ \A o \in {"backendUrl", "ingestKey", "dashboardKey"} : opt(o, "") # ""]

-----------------------------------------------------------------------------
(* What is sent.                                                            *)

SumStages(stages) ==
    LET sum[i \in 0 .. Len(stages)] == IF i = 0 THEN 0 ELSE sum[i - 1] + stages[i][2]
    IN  sum[Len(stages)]

kindOfStage(stage) == CASE stage = "whisper" -> "asr" [] stage \in {"prefill", "decode"} -> "llm"
                        [] OTHER -> stage

(* One span to a stage, each from where the one before it ends.  The id     *)
(* names the turn, the stage and six hex digits of the trace's id; here the *)
(* former two, and `taken` has the ids that another trace's spans have.     *)
buildTurnSpans(t, turnStart) ==
    [i \in DOMAIN t.stages |->
       LET start == turnStart + SumStages(SubSeq(t.stages, 1, i - 1))
       IN  [id |-> <<t.turn, t.stages[i][1]>>, parent |-> None, name |-> t.stages[i][1],
            kind |-> kindOfStage(t.stages[i][1]), start |-> start, end |-> start + t.stages[i][2],
            dur |-> t.stages[i][2], status |-> "ok", turn |-> t.turn, model |-> None,
            keys |-> {<<"stage">>} \cup IF t.turn = None THEN {} ELSE {<<"turn">>}]]

(* Faulty: every turn starts with the run.                                  *)
TurnStart_Reset(summary, n) == RunStart

(* Turns play back to back.                                                 *)
TurnStart(summary, n) ==
    RunStart + SumStages(FlattenSeq([i \in 1 .. n - 1 |-> summary.turns[i].stages]))

summaryToIngestPayload(summary) ==
    [trace |-> [start |-> RunStart, end |-> RunStart + Greatest({1, summary.totalMs}),
                device |-> <<None, None, summary.label>>, model |-> summary.label,
                keys |-> {<<"gen_ai", "request", "model">>, <<"edgeprobe", "ci">>}],
     spans |-> FlattenSeq([n \in DOMAIN summary.turns |->
                 buildTurnSpans(summary.turns[n], TurnStart(summary, n))])]

-----------------------------------------------------------------------------
(* What is compared, and what is said.                                      *)

(* Faulty: a regression starts above the threshold.                         *)
AtLeast_Above(cur, base, threshold) == (cur - base) * 1000 > threshold * base

(* proportionalDelta(cur, base) >= threshold.                               *)
AtLeast(cur, base, threshold) == (cur - base) * 1000 >= threshold * base

HasDelta(b) == b # None /\ b.headlineMs # 0

(* Math.round(100 * (num / den)): a half goes up, except where the product  *)
(* in floating point falls short of it, as 100 * 0.145 does.                *)
Percent(num, den) ==
    LET p == (200 * num + den) \div (2 * den)
    IN  IF 2 * den * p = 200 * num + den /\ p \in RoundedDown THEN p - 1 ELSE p

fmtDelta(cur, base) == Percent(cur - base, base)

(* compareAgainstBaseline                                                   *)
Verdict(c, b, threshold) ==
    LET before(t) == IF b = None THEN {} ELSE {i \in DOMAIN b.turns : b.turns[i].turn = t.turn}
        TurnDelta(t) == IF before(t) = {} THEN None
                        ELSE LET base == b.turns[Greatest(before(t))].totalMs
                             IN  IF base \in {0, None} \/ t.totalMs = None THEN None
                                 ELSE <<t.totalMs, base>>
    IN  [regression |-> HasDelta(b) /\ threshold # NaN
                          /\ AtLeast(c.headlineMs, b.headlineMs, threshold),
         delta |-> IF HasDelta(b) THEN <<c.headlineMs, b.headlineMs>> ELSE None,
         turns |-> [i \in DOMAIN c.turns |->
                      [turn |-> c.turns[i].turn, delta |-> TurnDelta(c.turns[i])]]]

(* renderTurnTable and summariseTurnCount: the rows, and how many of them   *)
(* slowed down or sped up against the baseline.                             *)
TurnTable(turns) ==
    LET compared == {i \in DOMAIN turns : turns[i].delta # None}
    IN  <<Len(turns),
          Cardinality({i \in compared : turns[i].delta[1] > turns[i].delta[2]}),
          Cardinality({i \in compared : turns[i].delta[1] < turns[i].delta[2]})>>

Variant(verdict) == IF verdict.delta = None THEN "first run"
                    ELSE IF ~verdict.regression THEN "pass" ELSE "regression"

(* renderComment and its three variants; the pass variant has no table and  *)
(* no line about the missing link.                                          *)
renderComment(verdict, threshold, linked) ==
    [variant |-> Variant(verdict), linked |-> linked,
     percent |-> IF verdict.delta = None THEN None
                 ELSE fmtDelta(verdict.delta[1], verdict.delta[2]),
     threshold |-> IF threshold = NaN THEN NaN ELSE Percent(threshold, 1000),
     table |-> IF Variant(verdict) = "pass" THEN <<0, 0, 0>> ELSE TurnTable(verdict.turns)]

(* A comparison throws at a turn that is null, of either file; a table does *)
(* at a row where the turn of its number, the last of them, has no stages.  *)
HasNull(summary) == summary # None /\ None \in SpanSet(summary.turns)
RowThrows(c) ==
    \E i \in DOMAIN c.turns :
      /\ c.turns[i].stages = None
      /\ \A j \in i + 1 .. Len(c.turns) : c.turns[j].turn # c.turns[i].turn
Throws(c, b, threshold) ==
    \/ HasNull(c) \/ HasNull(b)
    \/ /\ ~HasNull(c) /\ ~HasNull(b) /\ RowThrows(c)
       /\ Variant(Verdict(c, b, threshold)) # "pass"

-----------------------------------------------------------------------------
(* The run.                                                                 *)

Init ==
    /\ input \in Inputs
    /\ files \in [trace : TraceFiles, baseline : BaselineFiles]
    /\ pc = "main" /\ opts = None
    /\ current = None /\ baseline = None /\ payload = None
    /\ shareUrl = FALSE /\ result = None
    /\ stored \in {None} \cup SdkTraces /\ taken \in TakenIds
    /\ minted = FALSE /\ page = None

backend == <<stored, taken, minted, page>>

(* parseSummary, isTraceSummary: valid JSON with the fields of a summary,   *)
(* whatever the entries of turns are.                                       *)
Readable(file) == file # Unreadable

Main ==
    /\ pc = "main"
    /\ opts' = Options(Argv(input))
    /\ IF opts'.tracePath = "" THEN pc' = "done" /\ result' = [exit |-> 2, comment |-> None]
       ELSE pc' = "trace" /\ UNCHANGED result
    /\ UNCHANGED <<input, files, current, baseline, payload, shareUrl, backend>>

(* Faulty: the fields of the trace are not checked.                         *)
ReadTrace_AnyObject ==
    /\ pc = "trace"
    /\ current' = files.trace /\ pc' = "baseline"
    /\ UNCHANGED <<input, files, opts, baseline, payload, shareUrl, result, backend>>

(* An unreadable trace ends the run: no comment is written.                 *)
ReadTrace ==
    /\ pc = "trace"
    /\ IF Readable(files.trace)
       THEN current' = files.trace /\ pc' = "baseline" /\ UNCHANGED result
       ELSE /\ pc' = "done" /\ result' = [exit |-> 2, comment |-> None]
            /\ UNCHANGED current
    /\ UNCHANGED <<input, files, opts, baseline, payload, shareUrl, backend>>

(* An unreadable baseline is none.  Where a turn has no stages, making the  *)
(* payload throws, which is caught like a failed request.                   *)
ReadBaseline ==
    /\ pc = "baseline"
    /\ baseline' = IF opts.baselinePath # "" /\ Readable(files.baseline) THEN files.baseline
                   ELSE None
    /\ IF opts.canShare /\ HasStages(current)
       THEN pc' = "ingest" /\ payload' = summaryToIngestPayload(current)
       ELSE pc' = "compare" /\ UNCHANGED payload
    /\ UNCHANGED <<input, files, opts, current, shareUrl, result, backend>>

(* The backend stores the first n spans of the payload under its trace,     *)
(* none over another of the same id, whichever trace that belongs to.       *)
Store(n) ==
    stored' = [trace |-> payload.trace,
               spans |-> {payload.spans[i] : i \in {i \in 1 .. n :
                            /\ payload.spans[i].id \notin taken
                            /\ \A j \in 1 .. i - 1 : payload.spans[j].id # payload.spans[i].id}}]

(* POST /ingest is answered 202.                                            *)
IngestAccepted ==
    /\ pc = "ingest"
    /\ Store(Len(payload.spans))
    /\ minted' = FALSE /\ page' = None
    /\ pc' = "share"
    /\ UNCHANGED <<input, files, opts, current, baseline, payload, shareUrl, result, taken>>

(* Faulty: the answer's status is not looked at.                            *)
IngestFails_GoesOn ==
    /\ pc = "ingest"
    /\ \/ UNCHANGED <<stored, minted, page>>
       \/ /\ \E n \in 0 .. Len(payload.spans) : Store(n)
          /\ minted' = FALSE /\ page' = None
    /\ pc' = "share"
    /\ UNCHANGED <<input, files, opts, current, baseline, payload, shareUrl, result, taken>>

(* It fails, with nothing, part or all of the trace stored.                 *)
IngestFails ==
    /\ pc = "ingest"
    /\ \/ UNCHANGED <<stored, minted, page>>
       \/ /\ \E n \in 0 .. Len(payload.spans) : Store(n)
          /\ minted' = FALSE /\ page' = None
    /\ pc' = "compare"
    /\ UNCHANGED <<input, files, opts, current, baseline, payload, shareUrl, result, taken>>

(* The sharing request is answered 201 with the link.                       *)
ShareMinted ==
    /\ pc = "share"
    /\ minted' = TRUE /\ shareUrl' = TRUE
    /\ pc' = "compare"
    /\ UNCHANGED <<input, files, opts, current, baseline, payload, result, stored, taken, page>>

(* It fails, or its answer is lost.                                         *)
ShareFails ==
    /\ pc = "share"
    /\ minted' \in BOOLEAN
    /\ pc' = "compare"
    /\ UNCHANGED <<input, files, opts, current, baseline, payload, shareUrl, result, stored, taken,
                   page>>

Compare ==
    LET verdict == Verdict(current, baseline, opts.threshold)
    IN  /\ pc = "compare" /\ ~Throws(current, baseline, opts.threshold)
        /\ result' = [exit |-> IF verdict.regression /\ opts.failOnRegression THEN 1 ELSE 0,
                      comment |-> renderComment(verdict, opts.threshold, shareUrl)]
        /\ pc' = "done"
        /\ UNCHANGED <<input, files, opts, current, baseline, payload, shareUrl, backend>>

(* Nothing catches what is thrown: the process ends with 1, no comment.     *)
CompareThrows ==
    /\ pc = "compare" /\ Throws(current, baseline, opts.threshold)
    /\ result' = [exit |-> 1, comment |-> None]
    /\ pc' = "done"
    /\ UNCHANGED <<input, files, opts, current, baseline, payload, shareUrl, backend>>

(* Someone opens the page of the stored trace.                              *)
OpenPage ==
    /\ stored # None /\ page = None
    /\ \E rows \in RowOrders(stored.spans) :
         page' = [of |-> stored, rows |-> rows, shown |-> PublicPage(stored.trace, rows)]
    /\ UNCHANGED <<input, files, pc, opts, current, baseline, payload, shareUrl, result,
                   stored, taken, minted>>

Next ==
    \/ Main \/ ReadTrace \/ ReadBaseline
    \/ IngestAccepted \/ IngestFails \/ ShareMinted \/ ShareFails
    \/ Compare \/ CompareThrows \/ OpenPage

Spec == Init /\ [][Next]_vars

-----------------------------------------------------------------------------
(* Properties.                                                              *)

(* Types, and what each stage of the run has at hand (entry.ts).            *)
TypeOK ==
    /\ pc \in {"main", "trace", "baseline", "ingest", "share", "compare", "done"}
    /\ current # None => current \in TraceFiles \ {Unreadable}
    /\ baseline # None => current # None /\ baseline \in BaselineFiles \ {Unreadable}
    /\ pc \notin {"main", "done"} => opts.tracePath # ""
    /\ pc \in {"ingest", "share"} => payload # None
    /\ pc = "done" <=> result # None
    /\ result # None => result.exit \in 0 .. 2
    /\ page # None => page.of = stored

(* The exit code, the variant of the comment and its numbers follow from    *)
(* the inputs and the two files alone, whatever the backend answered:       *)
(* 2 without a readable trace; a regression where a readable baseline has a *)
(* headline above zero and the run is worse by at least the threshold, and  *)
(* 1 for it unless the input says "false".  The percent that is shown of a  *)
(* regression does not lie below the threshold that is shown, nor above it  *)
(* otherwise.  A trace with turns that are not whole, or a baseline with a  *)
(* turn that is null, may end the run with 1 and no comment; nothing else   *)
(* does (entry.ts, compare.ts, comment.ts).                                 *)
VerdictFromFilesOnly ==
    result # None =>
      LET c == files.trace
          b == files.baseline
          readable  == input.trace # "" /\ c # Unreadable
          used      == input.baseline # "" /\ b # Unreadable
          compared  == readable /\ used /\ b.headlineMs > 0
          threshold == NumberOf[IF input.threshold = "" THEN "0.15" ELSE input.threshold]
          worse     == /\ compared /\ threshold # NaN
                       /\ 1000 * c.headlineMs >= (1000 + threshold) * b.headlineMs
          broken    ==
            \/ None \in SpanSet(c.turns) \/ (used /\ None \in SpanSet(b.turns))
            \/ /\ compared => worse
               /\ \E i \in DOMAIN c.turns :
                    /\ c.turns[i].stages = None
                    /\ \A j \in i + 1 .. Len(c.turns) : c.turns[j].turn # c.turns[i].turn
          Turns(P(_, _)) ==
            {i \in DOMAIN c.turns : \E j \in DOMAIN b.turns :
               /\ b.turns[j].turn = c.turns[i].turn
               /\ \A k \in j + 1 .. Len(b.turns) : b.turns[k].turn # c.turns[i].turn
               /\ c.turns[i].totalMs # None /\ b.turns[j].totalMs \notin {0, None}
               /\ P(c.turns[i].totalMs, b.turns[j].totalMs)}
          Slower(x, y) == x > y
          Faster(x, y) == x < y
      IN  /\ result.exit = IF ~readable THEN 2
                           ELSE IF broken \/ (worse /\ input.fail # "false") THEN 1 ELSE 0
          /\ result.comment # None <=> readable /\ ~broken
          /\ result.comment # None =>
               /\ result.comment.variant = IF ~compared THEN "first run"
                                           ELSE IF worse THEN "regression" ELSE "pass"
               /\ worse => /\ result.comment.percent >= result.comment.threshold
                           /\ result.comment.table = <<Len(c.turns), Cardinality(Turns(Slower)),
                                                        Cardinality(Turns(Faster))>>
               /\ (compared /\ ~worse /\ threshold # NaN) =>
                    result.comment.percent <= result.comment.threshold

(* A comment carries a link only if the backend signed it for this run's    *)
(* trace and has stored every stage of every turn under that trace, as a    *)
(* turn of that number has it, and nothing else; a failure before that      *)
(* leaves the comment without one.  The one exception is a stage whose span *)
(* has the id of a span of another trace (client.ts, entry.ts).             *)
LinkMeansStored ==
    (shareUrl \/ (result # None /\ result.comment # None /\ result.comment.linked)) =>
      /\ minted /\ shareUrl /\ stored # None
      /\ stored.trace = payload.trace /\ stored.spans \subseteq SpanSet(payload.spans)
      /\ \A t \in SpanSet(current.turns) : \A i \in DOMAIN t.stages :
           \/ <<t.turn, t.stages[i][1]>> \in taken
           \/ \E s \in stored.spans, u \in SpanSet(current.turns) :
                /\ s.turn = t.turn /\ s.name = t.stages[i][1]
                /\ u.turn = t.turn /\ <<s.name, s.dur>> \in SpanSet(u.stages)

(* The page of a trace shows it: see Faithful.  Of a run whose stages all   *)
(* take time it shows every stage from where the one before it ends, in the *)
(* order the run took (client.ts, metrics.ts).                              *)
PageFaithful ==
    page # None =>
      /\ Faithful(page.of.trace, page.rows, page.shown)
      /\ (/\ page.shown.status = 200 /\ payload # None /\ page.of.trace = payload.trace
          /\ page.of.spans = SpanSet(payload.spans)
          /\ \A s \in page.of.spans : s.dur > 0)
         => LET rows == page.shown.waterfall.rows
            IN  /\ \A i \in DOMAIN rows : rows[i].id = payload.spans[i].id
                /\ \A i \in DOMAIN rows \ {1} :
                     rows[i].offset = rows[i - 1].offset + 200 * payload.spans[i - 1].dur

(* No attribute of the public page names content, at any depth of its key,  *)
(* and the second check never has to refuse a page (views.ts).              *)
PublicAttributesClean == page # None => Clean(page.shown)
=============================================================================
