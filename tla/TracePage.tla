------------------------------ MODULE TracePage -------------------------------
(***************************************************************************)
(* How a stored trace becomes a page: the public projection that strips    *)
(* content attributes (backend/src/views.ts), the summary numbers and the  *)
(* waterfall of the web server (web/src/lib/metrics.ts), and the numbers   *)
(* of the OG card (backend/src/og.ts).  Pure functions of the trace row    *)
(* and the sequence of its span rows.                                      *)
(*                                                                         *)
(* Times are milliseconds.  An attribute key is the sequence of its        *)
(* dot-separated segments, in lower case (strip and tripwire both ignore   *)
(* case).  A trace is [start, end, device, model, keys], a span            *)
(* [id, parent, name, kind, start, end, dur, status, turn, model, keys],   *)
(* with None for what is absent; turn and model are the values of the      *)
(* attributes turn and gen_ai.request.model.                               *)
(***************************************************************************)
EXTENDS Integers, Sequences, FiniteSets, SequencesExt

CONSTANTS
    None,
    IdRank   \* span id -> its place in the order of strings

ASSUME RankAssumption ==
    /\ None \notin DOMAIN IdRank
    /\ \A i, j \in DOMAIN IdRank : IdRank[i] \in Int /\ (IdRank[i] = IdRank[j] => i = j)

(* The spans a sequence of rows holds.                                      *)
SpanSet(rows) == {rows[i] : i \in DOMAIN rows}
Least(S)    == CHOOSE x \in S : \A y \in S : x <= y
Greatest(S) == CHOOSE x \in S : \A y \in S : x >= y

(* What the tables hold: times are whole, and ids are keys of span rows.    *)
Storable(trace, S) ==
    /\ trace.start \in Int /\ IsFiniteSet(S)
    /\ \A s \in S : s.id \in DOMAIN IdRank /\ s.start \in Int /\ s.end \in Int /\ s.dur \in Int
    /\ \A s, t \in S : s.id = t.id => s = t

(* getSpansForTrace: ORDER BY started_at, equal times in any order.         *)
RowOrders(S) ==
    {rows \in [1 .. Cardinality(S) -> S] :
       \A i, j \in DOMAIN rows : i < j => rows[i] # rows[j] /\ rows[i].start <= rows[j].start}

-----------------------------------------------------------------------------
(* The public projection.                                                   *)

ContentAttrDenylist ==
    {<<"content", "prompt">>, <<"content", "completion">>, <<"content", "transcript">>,
     <<"gen_ai", "prompt">>, <<"gen_ai", "completion">>, <<"gen_ai", "messages">>,
     <<"gen_ai", "response", "messages">>, <<"gen_ai", "response", "text">>,
     <<"llm", "prompt">>, <<"llm", "completion">>, <<"llm", "messages">>,
     <<"user", "input">>, <<"user", "output">>}

ContentSegmentWords ==
    {"prompt", "completion", "transcript", "message", "messages",
     "generated_text", "response_text", "input_text", "output_text"}

(* Faulty: only the last segment is looked up.                              *)
keyLooksLikeContent_LastSegment(key) ==
    \/ key \in ContentAttrDenylist
    \/ Len(key) > 1 /\ key[1] = "content"
    \/ key[Len(key)] \in ContentSegmentWords

keyLooksLikeContent(key) ==
    \/ key \in ContentAttrDenylist
    \/ Len(key) > 1 /\ key[1] = "content"
    \/ \E i \in DOMAIN key : key[i] \in ContentSegmentWords

stripContentAttributes(keys) == {key \in keys : ~keyLooksLikeContent(key)}

(* CONTENT_TRIPWIRE_RE: a whole segment is one of the words, messages?      *)
(* standing for two.                                                        *)
Tripped(keys) ==
    \E key \in keys : \E i \in DOMAIN key :
      key[i] \in {"prompt", "completion", "transcript", "message", "messages",
                  "generated_text", "response_text", "input_text", "output_text"}

toPublicSpan(s) ==
    [id |-> s.id, parent |-> s.parent, name |-> s.name, kind |-> s.kind, start |-> s.start,
     end |-> s.end, dur |-> s.dur, status |-> s.status, turn |-> s.turn, model |-> s.model,
     keys |-> stripContentAttributes(s.keys)]

toPublicSpans(rows) == [i \in DOMAIN rows |-> toPublicSpan(rows[i])]

toPublicTrace(t) ==
    [start |-> t.start, end |-> t.end, device |-> t.device, model |-> t.model,
     keys |-> stripContentAttributes(t.keys)]

(* ContentProjectionError: the endpoint answers 404 instead.                *)
ProjectionRefused(trace, rows) ==
    Tripped(toPublicTrace(trace).keys) \/ \E i \in DOMAIN rows : Tripped(toPublicSpans(rows)[i].keys)

-----------------------------------------------------------------------------
(* The numbers at the top of the page, and of the card.                     *)

(* The sum of the durations of the spans of one kind.                       *)
SumOf(rows, kind) ==
    LET sum[i \in 0 .. Len(rows)] ==
          IF i = 0 THEN 0
          ELSE sum[i - 1] + IF rows[i].kind = kind THEN rows[i].dur ELSE 0
    IN  sum[Len(rows)]

maxEndMs(rows, fallback) == Greatest({fallback} \cup {s.end : s \in SpanSet(rows)})

TotalMs(trace, rows) ==
    LET end == IF trace.end # None THEN trace.end ELSE maxEndMs(rows, trace.start)
    IN  Greatest({0, end - trace.start})

StatusOf(rows) == IF \E s \in SpanSet(rows) : s.status = "error" THEN "error" ELSE "ok"

(* The model of the first llm span that names one.                          *)
SpanModel(rows) ==
    LET named == {i \in DOMAIN rows : rows[i].kind = "llm" /\ rows[i].model # None}
    IN  IF named = {} THEN None ELSE rows[Least(named)].model

(* The page falls back to the trace's model and tries three device fields.  *)
computeMetrics(trace, rows) ==
    [totalMs |-> TotalMs(trace, rows), llmMs |-> SumOf(rows, "llm"), asrMs |-> SumOf(rows, "asr"),
     spanCount |-> Len(rows), status |-> StatusOf(rows),
     modelName |-> IF SpanModel(rows) # None THEN SpanModel(rows) ELSE trace.model,
     deviceModel |-> LET given == {i \in 1 .. 3 : trace.device[i] # None}  \* model, name, label
                     IN  IF given = {} THEN None ELSE trace.device[Least(given)]]

(* deriveCardMetrics: the card has no such fallbacks.                       *)
deriveCardMetrics(trace, rows) ==
    [totalMs |-> TotalMs(trace, rows), spanCount |-> Len(rows), status |-> StatusOf(rows),
     modelName |-> SpanModel(rows), deviceModel |-> trace.device[1]]

(* composeVerdict, the page's title, as the parts it joins.                 *)
composeVerdict(m, d) ==
    IF m # None /\ d # None /\ m # d THEN <<m, d>>
    ELSE IF m # None THEN <<m>> ELSE IF d # None THEN <<d>> ELSE <<>>

-----------------------------------------------------------------------------
(* The waterfall.                                                           *)

Cyclic == -1

(* depthByParent: a span without parent and an id that is not in the trace  *)
(* have depth 0.  The code recurses along the parents without a check for   *)
(* cycles; a walk longer than the trace has spans never ends.               *)
depthByParent(S) ==
    LET span(id) == CHOOSE s \in S : s.id = id
        ids == {s.id : s \in S}
        walk[n \in 0 .. Cardinality(S)] == [id \in ids \cup {s.parent : s \in S} |->
          IF id \notin ids THEN 0
          ELSE IF span(id).parent = None THEN 0
          ELSE IF n = 0 THEN Cyclic
          ELSE LET d == walk[n - 1][span(id).parent] IN IF d = Cyclic THEN Cyclic ELSE d + 1]
    IN  [id \in ids |-> walk[Cardinality(S)][id]]

(* chooseTicks: the first of the steps that makes at most six, and the end. *)
TickSteps == {50, 100, 200, 250, 500, 1000, 2000, 5000, 10000}
chooseTicks(total) ==
    LET fit  == {c \in TickSteps : total <= 6 * c}
        step == IF fit = {} THEN 10000 ELSE Least(fit)
        ticks == [i \in 1 .. (total \div step) + 1 |-> (i - 1) * step]
    IN  IF ticks[Len(ticks)] = total THEN ticks ELSE Append(ticks, total)

Earlier(a, b) == a.start < b.start \/ (a.start = b.start /\ IdRank[a.id] < IdRank[b.id])
Ordered(S) ==
    CHOOSE q \in [1 .. Cardinality(S) -> S] : \A i, j \in DOMAIN q : i < j => Earlier(q[i], q[j])

(* computeWaterfall.  Offsets and widths are kept in units of total / 200   *)
(* (half a percent, the least width).                                       *)
computeWaterfall(trace, rows) ==
    LET S      == SpanSet(rows)
        origin == Least({trace.start} \cup {s.start : s \in S})
        total  == Greatest({1, Greatest({s.end : s \in S}) - origin})
        depth  == depthByParent(S)
        Named(s) == {t \in S : t.name = s.name}
        Row(s) == [id |-> s.id, name |-> s.name, depth |-> depth[s.id],
                   turn |-> IF Cardinality(Named(s)) > 1 THEN s.turn ELSE None,
                   offset |-> 200 * (s.start - origin),
                   width |-> Greatest({total, 200 * s.dur})]
        sorted == Ordered(S)
    IN  IF rows = <<>> THEN [rows |-> <<>>, totalMs |-> 0, ticks |-> <<0>>]
        ELSE [rows |-> [i \in DOMAIN sorted |-> Row(sorted[i])],
              totalMs |-> total, ticks |-> chooseTicks(total)]

(* The page of a trace, or a status without one.                            *)
PublicPage(trace, rows) ==
    IF ProjectionRefused(trace, rows) THEN [status |-> 404]
    ELSE IF \E s \in SpanSet(rows) : depthByParent(SpanSet(rows))[s.id] = Cyclic
    THEN [status |-> 500]
    ELSE LET t == toPublicTrace(trace)
             r == toPublicSpans(rows)
             hero == computeMetrics(t, r)
         IN  [status |-> 200, hero |-> hero, card |-> deriveCardMetrics(t, r),
              title |-> composeVerdict(hero.modelName, hero.deviceModel),
              waterfall |-> computeWaterfall(t, r),
              keys |-> t.keys \cup UNION {s.keys : s \in SpanSet(r)}]

-----------------------------------------------------------------------------
(* What a page promises, against definitions of its own.                    *)

(* Spans that name each other as parents in a circle.                      *)
HasCycle(S) ==
    \E C \in SUBSET S : C # {} /\ \A s \in C : \E t \in C : s.parent = t.id

(* The spans above s that are in the trace.                                 *)
Ancestors(S, s) ==
    {a \in S : \E n \in 1 .. Cardinality(S) : \E chain \in [1 .. n + 1 -> S] :
       chain[1] = s /\ chain[n + 1] = a /\ \A i \in 1 .. n : chain[i].parent = chain[i + 1].id}

(* The longest axis on which ticks have to be few.                          *)
Minute == 60000

(* The waterfall holds each span once, in the order of time, indented by    *)
(* the spans above it (one more where the topmost names a parent that is    *)
(* not there), inside an axis whose ticks rise from 0 to its end (unless a  *)
(* clock was set back while it ran); rows of one name show their turns; the *)
(* card agrees with the page on time, spans and status; and only a cycle of *)
(* parents keeps a page from being made.                                    *)
Faithful(trace, rows, page) ==
    LET S == SpanSet(rows)
        w == page.waterfall
        of(i) == CHOOSE s \in S : s.id = w.rows[i].id
        top(s) == CHOOSE a \in Ancestors(S, s) \cup {s} : ~\E b \in S : a.parent = b.id
    IN  IF page.status # 200 THEN page.status = 500 => HasCycle(S)
        ELSE /\ ~HasCycle(S)
             /\ Len(w.rows) = Len(rows) /\ {w.rows[i].id : i \in DOMAIN w.rows} = {s.id : s \in S}
             /\ \A i, j \in DOMAIN w.rows : i < j => of(i).start <= of(j).start
             /\ \A i, j \in DOMAIN w.rows :
                  i # j /\ w.rows[i].name = w.rows[j].name => w.rows[i].turn = of(i).turn
             /\ \A i \in DOMAIN w.rows : LET s == of(i) IN
                  /\ w.rows[i].depth = Cardinality(Ancestors(S, s))
                                         + IF top(s).parent = None THEN 0 ELSE 1
                  /\ w.rows[i].offset >= 0
                  /\ s.dur <= s.end - s.start =>
                       \/ w.rows[i].offset + w.rows[i].width <= 200 * w.totalMs
                       \/ w.rows[i].width = w.totalMs
             /\ w.ticks[1] = 0 /\ w.ticks[Len(w.ticks)] = w.totalMs
             /\ \A i \in 1 .. Len(w.ticks) - 1 : w.ticks[i] < w.ticks[i + 1]
             /\ w.totalMs <= Minute => Len(w.ticks) <= 8
             /\ page.card.totalMs = page.hero.totalMs
             /\ page.card.spanCount = page.hero.spanCount /\ page.card.status = page.hero.status

(* Strip and tripwire agree: the projection is never refused, and what it   *)
(* keeps names no content.                                                  *)
Clean(page) ==
    /\ page.status # 404
    /\ page.status = 200 => \A key \in page.keys :
         /\ \A i \in DOMAIN key : key[i] \notin ContentSegmentWords
         /\ ~(key[1] = "content" /\ Len(key) > 1)
         /\ key \notin ContentAttrDenylist
=============================================================================
