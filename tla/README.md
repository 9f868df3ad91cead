# EdgeProbe: a TLA+ model

This directory holds TLA+ models of the EdgeProbe repository (`src/`): its iOS
SDK, its backend from ingest to the pages it serves, its GitHub action and the
voice turn of its demo app; the TLC configurations that check them; and TLAPS
proofs about them. Paths below are
relative to `src/`. `PROJECT.json` maps each definition to the lines it models.

## 1. The system

| Component | State | Operations | Talks to |
|---|---|---|---|
| SDK tracing API (`ios/Sources/EdgeProbe/EdgeProbe.swift`, `TraceHandle.swift`, `SpanData.swift`) | the singleton's configuration and exporter; per handle `ended`, `spans` | `start`, `beginTrace`, `trace`, `span`, the reporter, `end`, `deinit` | hands one payload per trace to the export pipeline |
| SDK export pipeline (`RingBuffer`, `BatchSpanProcessor`, `SpanExporter`, `LifecycleObserver`) | ring buffer and drop counter under one lock, two serial queues, requests in flight | `push`, timer, `drainAndSend`, `sendNow`, `flushNow`, `waitUntilIdle`, `flushForBackground` | POSTs to the backend; called back by UIKit |
| Rate limiter (`backend/src/rateLimit.ts`) | per organisation a token bucket and a 24 h byte window, in the replica's memory | `check`, `reset` | called by POST /ingest |
| Ingest, dedup, retention (`server.ts`, `pgSpanStore.ts`, `ingestHash.ts`) | tables `traces`, `spans`, `ingest_dedup` | POST /ingest, the hourly sweep | Postgres, shared by all replicas |
| Boot and migrations (`migrate.ts`, `makeDefaultDeps` in `server.ts`) | table `_migrations` | `runMigrations`, `seed` | Postgres |
| API keys (`pgApiKeyStore.ts`, `apiKeys.ts`, `/app/keys` in `server.ts`) | table `api_keys` | seed, mint, list, verify, revoke | every authenticated route |
| Share tokens, public view, projection (`shareToken.ts`, `auth.ts`, `views.ts`) | none: a token is signed, a cache may keep a card | `/app/trace/:id/share`, `/r/:token`, `/og/:token.png` | reads traces and spans, statement by statement |
| Dashboard reads (`server.ts`, `pgSpanStore.ts`) | none | `/app/projects`, `/app/projects/:id/traces`, `/app/trace/:id` | reads traces and spans |
| OG images, metrics (`og.ts`, `metrics.ts`) | an in-process counter map | render, `/metrics` | |
| In-memory stores (`views.ts`, `inMemoryApiKeyStore.ts`) | maps | the store interfaces | tests |
| Web dashboard (`web/src`) | none | the same pages over the backend's answers; summary, waterfall | GETs from the backend |
| GitHub action (`action/src`, `action/action.yml`) | the locals of one run | read, ingest, share, compare, comment, exit | files, backend |
| Harness (`harness/Sources`) | none | run, diff | files |
| Demo app: voice turn (`ios/DemoApp/Sources`: `ContentView`, `VoiceTurnController`, `ASRService`, `LLMService`, `TTSService`) | one continuation per service, the recognition task and request | press, release, the stages of a turn | the SDK, the speech frameworks, llama.cpp |
| Demo app: model loading, Llama runtime | session, KV cache | load, generate | llama.cpp |

What is hard in it, and hardly reachable by a unit test: the gaps between two
lock acquisitions of the SDK's flush; a wait with a time-out on the main thread
against a queue that is still working; `end()` racing spans and `deinit`; a
handler's awaits, between which other replicas, the sweep and a crash may come;
a boot whose SELECTs and INSERTs interleave with another replica's; the argon2
comparison between reading a key and acting on it; a view that reads a trace in
three statements while ingest writes and the sweep deletes; a run of the action
whose requests fail after they took effect; rows of any client, ties and cycles
of parents included, that become a page; services with one continuation used by
turns that overlap. `PROJECT.json` "hazards" lists each at
its line with the properties that would notice it going wrong.

## 2. Modules and their correspondence to the code

### SdkExport
One process at a time. `buffer` and `droppedCount` are the fields of
`RingBuffer`; an action that touches them is one critical section of its lock.
`flushQueue` is the serial queue of the processor, whose tasks are the timer's,
`flushNow`'s and the signal block of `waitUntilIdle`. The body of
`drainAndSend` is three actions, `Drain`, `ConsumeDroppedCount` and one
`SendNext` per payload, because the lock is released between the first two and
the export queue may run between sends. `exportQueue` and `inFlight` are
`HTTPSpanExporter`'s queue and URLSession's tasks. `app` is the process's life:
off, active, in `flushForBackground` (flushing, waiting), background with the
background task ended, suspended. `Kill` ends it anywhere and keeps nothing.
History variables record the fate of each payload and where each counted drop
went.

### DropOldestQueue
What the pipeline promises whoever records payloads: they wait, make room by
giving up the oldest, are taken together, leave in order and meet one fate.
`SdkExport` implements it (`QueueSpec`): `waiting` is the buffer, `leaving` the
batches and sends that wait in the two queues, `flying` the requests; the
flushes, the counter, the barriers and the life of the app are stutters.

### SdkTrace
`EdgeProbe`'s statics under `startLock`; per handle the `ended` flag and the
`spans` array under its lock. `end` is its critical section and `Export` the
call it makes after releasing the lock. `recordSpan` freezes a span's record
when its block returns. `sent` is what reaches an exporter, where `SdkExport`
begins. The clock counts milliseconds with `Second` of them to a second, so
that `durationMs` can be modelled by what it computes.

### RateLimit
`check` is synchronous and hence one action, split by outcome (`DenySpans`,
`DenyBytes`, `Admit`) over what the refill and the window roll left
(`Refilled`, `RefilledAt`, `BytesUsed`, `WindowStart`), all of which a denial
stores too. The bucket counts 1/`Second` of a span, so one clock tick refills a
whole number and no rounding is hidden. The clock moves both ways
(`ClockMoves`), since `Date.now` may. `LevelAt` is what a call at a given time
would find in the bucket. `reset` empties the map.

### Ingest
A handler is at `record`, `trace` or `span`: the await it is about to make.
`tryRecordContentHash`, `insertTrace`, `insertSpan` are one statement each, with
its ON CONFLICT clause and the foreign key. Bodies stand for their bytes, and
their spans (`Entries`) for what the client wrote, with an id and a trace id of
their own: the row and its foreign key go by the latter, whatever trace the body
is about.
`PurgeTraces` and `PurgeDedup` are the two statements of `purgeExpired`, with
the cascade. `StatementFails` and `Crash` stop a handler anywhere and keep what
it committed. Time is in minutes, the grain of `minuteBucket`.

### Boot and ApiKeys
`boot[r]` is a replica's place: looking up a migration, applying it (one
transaction), looking up or inserting a bootstrap key, serving. `Proceed` is what
a running boot does next, `Start` what the platform may do, `Fail` what ends a
process anywhere. `applied` and `apiKeys` are the tables. `ApiKeys` EXTENDS `Boot` and composes with it: the
replicas of `Boot` serve the requests of `ApiKeys`, both write `apiKeys`, and a
replica that ends takes its requests with it. `verify` is `Select`, argon2,
`Compare`; the row read by `Select` decides although another request may have
revoked it by then, as in the code.

### Reads
EXTENDS `Ingest` and composes with it: `WriteStep` is any step of `Ingest`,
`ReadStep` one statement of a read. `rd` is the request in progress, its locals
and its answer. A request arrives through a bearer (`authenticateDashboard`,
`resolveOrg` of the web server) or a signed link (`verify`), and then reads the
trace (`GetTrace`), signs (`Sign`), reads it again and its spans (`ReadView`,
`ReadSpans`), counts (`listProjects`), or reads a page and then the spans of
each of its rows (`listTraces`, `SummariseRow`); `NextPage` goes on from the
cursor. `WebStatus` turns the backend's status into that of the web page. Times
are microseconds in the table and milliseconds in a cursor (`Iso`), since that
is what a page edge tells apart. `cache` holds the cards a public `max-age` lets
a cache keep. One read is in progress at a time: reads meet only in the table.

### TracePage and ActionRun
`TracePage` has the functions from a trace row and its span rows to the page:
the projection of `views.ts` with its strip rule and its tripwire, the summary,
`depthByParent`, `chooseTicks` and `computeWaterfall` of `metrics.ts`, the card
of `og.ts`. Keys are sequences of segments, so both rules of the projection are
stated as the code applies them. Offsets are whole: units of 1/200 of the total.

`ActionRun` EXTENDS it with one run of the GitHub action: `Argv` is what
`action.yml` passes, `parseArgs` and `Options` what `entry.ts` makes of it and
of the environment, and each read, request and the comparison is an action with
its failures. A failing ingest may have stored none, part or all of the payload,
a failing share may have signed the link. A file is `Readable` if it passes
`isTraceSummary`, which looks at no turn: a `TurnEntry` may be null or lack any
part. Such turns make the payload throw, which is caught like a failed request
(`HasStages`), or the comparison or the comment, which nothing catches (`Throws`,
`CompareThrows`). `taken` has the span ids that rows of other traces have, over
which ON CONFLICT stores nothing. Thresholds are tenths of a percent and
`Percent` rounds as `Math.round` does over a floating-point product. `OpenPage` shows the stored trace,
which may be that of another client, in any row order the query allows.

### VoiceTurn
Everything runs on the main actor, so an action is what a turn does between two
awaits. Each service's single continuation, and `ASRService`'s task and request,
are variables that any turn may overwrite. Frameworks call back by a hop
(`hops`, `finishHops`) that the main actor runs later. `disturbed` is a history
flag: something happened that turns one after another, with the button held
until recording has begun and recognition that fails only after release, do not
show; the properties about undisturbed turns use it, `NeverResumedTwice` does
not.

## 3. What is checked

Numbers are distinct states.

| Run | Bounds | Shows |
|---|---|---|
| `sdk_export` (121 k) | capacity 2, 3 payloads, 2 backgrounds, 1 kill, fairness | implements `DropOldestQueue`; nothing lost or doubled inside the pipeline; each drop counted in one place and never stranded; `waitUntilIdle` is a barrier; every payload reaches a fate while the app runs |
| `sdk_drop_count_failure` | capacity 1 | violated: a failed POST uses up the drop count it carries |
| `sdk_trace` (1.2 M) | 2 handles, 2 spans, 2 configurations, 1 tick | one payload per trace, dropped handles included, with the spans finished by its end, under the first configuration; content only by opt-in |
| `sdk_duration` | clock to 3, a second of 2 | violated: whole seconds are missing from durations |
| `rate_limit` (307 k) | clock 0..4 with a second of 2 and a day of 3 ticks | conformance of the bucket over every interval, daily volume, what is gone of either budget was admitted; Retry-After suffices once the clock is back at the last refill |
| `ingest` (1.6 M) | 2 handlers on 2 replicas, 3 bodies of which two share all ids and the third one span id, its other span naming the first's trace, 3 requests, 1 fault, minutes 0..2, retention 1 | at most one novel answer per body and minute; 202 means stored, each span under the trace it names; rows are never rewritten |
| `ingest_deduped_stored` | the same, minutes 0..1 | violated: "deduped" without a stored trace |
| `boot` (12.6 k) | 3 replicas, 2 migrations, 2 keys, 2 failures, fairness | each migration once and in order, ready before serving; racing replicas come to serve for good or are left down, and without a failure one serves |
| `api_keys` (2.0 M) | 2 replicas, 2 connections, 3 ids, 2 orgs, 1 failure, no migration | one 204 per key; keys confined to their org; who passes the gate held a live key of the right type; revoked for ever |
| `reads` (5.8 M) | 3 traces of one org, two begun in one millisecond, one sensitive, whose span names the first, and a second org with a key; 1 handler, 3 ingests, no fault, minutes 0..1, a default page of 1 and a cap of 2 (limits -1, 0 for none, and 4 asked), 1 link, cards kept 1 minute past a link's 0 | answers show what was accepted before they were asked; a walk over the pages is complete; links die in time, and the cards cached through them |
| `action_page` (1.02 M) | 8 command lines, 9 trace files, 4 baselines (turns null, without stages, of one number among them), no id or one taken, every failure; 130 traces of other clients: all 125 ways three spans name each other, none or a stranger as parent, and 5 with ties, errors, open ends and content-shaped keys | exit code, variant and numbers depend on the files alone; a link means every stage stored whose span id is free; the page is the trace; no content on it |
| `voice_turn` (322 k) | 3 turns, fairness | no continuation resumed twice; own words and an end for undisturbed turns |

Why these bounds are enough to be interesting: capacity 2 with 3 payloads lets a
push evict in every gap of a drain, and a count be consumed one batch early;
two handlers and two replicas are what a race on one row needs, and the third
request is the client's retry; retention of one minute in three lets the sweep
run before, between and after a request's statements; a day of 3 ticks in a
clock of 5 positions lets windows roll twice and the clock step back across the
edge; three replicas let one die while two race; three traces with pages of one and
two put an edge between two that began together and let a sweep or an ingest run
before, between and after the pages; three spans have cycles of every length up
to the whole trace, with and without spans that hang below them; three turns let a turn's stale
callback meet a later one while a third holds the button. A cfg with
CHECK_DEADLOCK FALSE belongs to a system that may stop: all replicas serve, all
spans are closed, all turns are over, the run has its exit code.

### Fairness
`sdk_export`: dispatch queues run their tasks and the repeating timer
fires; URLSession ends every request (it has a time-out). Nothing is assumed of
the user: recording, backgrounding, returning. A suspended process owes nothing,
and the property allows for it. `boot`: `Proceed` of each replica, weakly: a
process that runs goes on with its boot, and Postgres answers. No start is owed:
`backend/fly.toml` stops idle machines, asks for none to run and states no
restart policy, so `RacesEnd` allows a replica to be left down, and says that one
which is started again and again comes to serve for good; failures are bounded. `voice_turn`: the main actor runs
its tasks; the recogniser reports a task whose audio ended or that was
cancelled; the synthesiser finishes an utterance; the user lets go of a held
button in the end. A recogniser that still listens owes nothing.

### Where the code and its words differ
Three are shown by the violation runs (`PROJECT.json` "findings"). Met while
modelling, and not given a run of their own:

- An outage fills memory outside the ring buffer: drained payloads wait in the
  export queue and URLSession (`SpanExporter.swift:41`), where
  `docs/TEST-PLAN.md:58` expects the bound of the buffer.
- `docs/TEST-PLAN.md:42` expects of an app killed in mid-export that its "buffer
  persists across launches". The SDK keeps nothing on disk: a new process starts
  with an empty `RingBuffer` (`RingBuffer.swift:22`). `Kill` models that, and
  `NoLossNoDuplication` counts what was in the process as met by the fate
  "killed"; it does not say that such payloads arrive.
- The main thread waits up to 3 s in the background flush
  (`LifecycleObserver.swift:87`), and ends its background task when payloads
  were handed to URLSession, not when they arrived (line 89).
- A 24 h "rolling" window (`rateLimit.ts:30`) is a fixed one (line 101):
  the daily part of `AdmittedWithinLimits` states twice the budget for a stretch
  of a day, which is what holds. A batch larger than the bucket is told a Retry-After that never helps
  (line 109); `RetryAfterSuffices` is about batches that fit. After the clock is
  set back, a client that waits its Retry-After is still refused by the spans
  limit: the refill counts from the last one and takes a negative time for none
  (line 92), and the Retry-After does not count in how far the clock is behind.
  `RetryAfterSuffices` counts the wait from when it has caught up.
- A span is stored under the `traceId` that it names itself (`pgSpanStore.ts:72`),
  which POST /ingest never compares with the trace of the body
  (`server.ts:279`): a 202 may leave spans under another stored trace, one of
  another organisation included, and where the trace it names is not stored the
  foreign key fails and the request is answered 500 after part of it is stored.
  The SDK and the action write one id in both places. `AcceptedIsStored` and
  `AnswersSeeAcceptedWrites` speak of the trace that a span names.
- The action forms span ids from the last six characters of the trace id
  (`action/src/client.ts:119`), so two runs may share one; the row of the first
  stays (`pgSpanStore.ts:60`), the answer and the ingested counter count both
  (`server.ts:282`), and if the first trace is purged the span goes with it. So a
  link does not mean that the whole run is behind it: `LinkMeansStored` excepts
  the stages whose ids are `taken`, and `Stored` allows for that too. The ids
  also hold the turn's number, so of two turns with one number in a file the
  second's stages of the same names are not stored; the property asks for a
  stage of that name and number.
- Malformed turns pass `isTraceSummary`, which checks `Array.isArray(turns)` only
  (`entry.ts:180`): a null turn throws in `compare.ts:24,36,37`, one without stages in
  the table of `comment.ts:151`, and nothing catches either. The process ends
  with 1 and no comment, a malformed baseline included, where `entry.ts:18` and
  `action/README.md:102` give 1 to a regression and 2 to an internal error.
  `VerdictFromFilesOnly` states what happens. Parts of a turn that are there but
  of another type are not modelled.
- `action/README.md:103` says of an internal error "The comment still renders
  with an error notice". `fatal` (`entry.ts:153`) makes such a body, but
  `runAction` returns it (line 91) without `writeOutput`, so no comment is written.
- `action/src/entry.ts:20` gives exit code 2 to a run that failed to ingest or
  share; line 127 catches that failure and the run goes on with its verdict.
  `VerdictFromFilesOnly` states the latter.
- A threshold that is no number becomes NaN (`entry.ts:225`), and nothing
  compares as a regression any more. `action/src/types.ts:64` says a regression
  "exceeds" the threshold, `compare.ts` and the property say it reaches it. Both
  percents of a comment are rounded (`comment.ts:178,200`), halves as the
  floating-point product falls (0.145 * 100 gives 14), so a pass may show the
  same percent as the threshold, and a regression at 15.2% shows 15% against 15%.
  The model has whole milliseconds and thresholds in tenths of a percent.
- A trace that a sweep takes between the reads of a view is answered 200 without
  spans, not 404 (`views.ts:434`); `?limit=0.5` becomes 0 and an empty page
  (`pgSpanStore.ts:255`, fractions are not in the model); a `before` that is no
  time makes the statement fail and is answered 500 (`server.ts:495`; in
  `AskPage`), while times other than a page's own cursor are not asked for;
  equal start times across a page's edge are skipped
  (line 169), which `PageWalkComplete` excepts.
- `server.ts:394` calls a link's picture "effectively frozen", but spans may be
  added and the trace purged while a cache keeps it. The card mirrors the page's
  summary (`og.ts:46`) except for the trace's own model and two of three names
  of the device: `Faithful` compares the rest.
- `web/src/server.tsx:108` promises a stub with 404 where the backend is away and
  answers 502; `lib/backend.ts:92` shows an empty list for a failed answer, but a
  fetch that throws ends in 500.
- A cycle of parents makes `depthByParent` recurse until the stack ends and the
  page answer 500; the SDK never sends a parent, other clients may.
- `LLMService.swift:802` trusts the user interface to keep calls of `generate`
  serial; a press during a turn starts another turn. Line 226 trusts a rolling
  context window, where `LlamaRuntime.swift:466` reports a full one as a failure.
- Two replicas that seed the same key race to its INSERT; the loser's boot fails
  (`apiKeys.ts:59` calls seeding idempotent). `RacesEnd` shows that a restart, if
  there is one, mends it.
- A key revoked during the argon2 comparison is still admitted, as the comment
  at the DELETE route says; `AdmittedByLiveKey` states exactly what holds.
- Spans that close after `end()` are dropped (documented, `TraceHandle.swift:85`).
- A recogniser that fails while the button is held leaves `stop()` waiting for
  ever (`ASRService.swift:168,185`), and a tap released before recording began
  is lost (`ContentView.swift:271`); both set `disturbed`.

## 4. What is proved

TLAPS proves what follows for every value of the constants that satisfies the
modules' ASSUMEs; each proof module EXTENDS the module it is about. All safety
properties of the passing runs are theorems. An invariant of section 3 is rarely
inductive; what had to be added, and why, is the substance of each proof.

**`SdkExportProofs`** (any capacity from 1, any number of payloads, backgrounds
and kills).
`TypeCorrect`. `DropsAccounted` (`DropCountKept`): outside the window between
drain and consumption a positive counter comes with a buffered payload, because
only a push at capacity raises it and leaves the pushed payload behind.
`NothingLostOrDoubled` (`NoLossNoDuplication`) from `LineUp`: the payloads in
flight, queued, in the batch and buffered are increasing sequences one before
the other, and these are the payloads without a fate. `BarrierHolds`
(`BackgroundFlushBarrier`) from `BarrierInv`: while the main thread waits, its
drain is done or still ahead of its signal in the serial queue.
`PipelineIsDropOldestQueue` (`QueueSpec`): under the mapping of section 2 each
of the steps is one of `DropOldestQueue` or a stutter.

**`SdkTraceProofs`** (any handles, spans, configurations, closing threads).
`TraceTypeCorrect`, `OnePayload`, `PayloadsAreSnapshots`, `ContentNeedsOptIn`
from `TraceInv`: per handle, what was sent and what is between `end`'s critical
section and its export are one payload together, from the moment `ended` is set,
with the spans closed before it; and every stored text was recorded under an
opt-in.

**`RateLimitProofs`** (any limits, clock and number of requests).
`TypeCorrect`; `Conservation`: spent and level together are bounded by the refill
since the entry was made, since the cap can only lose. `RetryAfterIsHonest`.
That the last (`RetryAfterSuffices`) holds with the clock set back as well is why it
counts from the later of now and the last refill: the level then is the level
stored and the whole wait's refill.
`LimitsHold` (`AdmittedWithinLimits`) sums over any stretch of the history:
`Limits` says that from each admitted request on, what was spent and what is
left now fit one bucket plus the refill since, that windows are a day apart, and
that the bytes counted are those admitted in the window. That a denial takes
nothing is `SpansAccounted`: a bucket that is not full lacks exactly what a
stretch of admitted requests up to the last took, less the refill since the
first of them; a refill that meets the cap starts the stretch anew. The lemmas about
`SumFunctionOnSet` come from the induction below.

**`IngestProofs`** (about `Ingest`, any handlers, replicas, bodies, retention;
then about `Reads` over it, any organisations, keys, links, page sizes).
`NovelOnce`: a key answered novel has its dedup row, or is so old that no handler
still carries it, because `Tick` keeps retention longer than any request.
`AcceptedStored`: a handler at its `next`-th span finds its trace, unless a sweep
took it, and the ids of the spans before it `Kept` (`Progress`): the row of such
an id is of a span that has it (`OwnRows`), under the trace which that span
names, until a sweep takes that trace. Nothing ties those traces to the body's.
`FirstWriterWins` (`RowsNeverRewritten`) from
`NoOrphanSpan`: a cascade takes a span only with its trace.
`ReadsTypeCorrect` and `LinksDie` come from `ReadsInv`, which says of each place a
read can be at what it has passed: a token that was signed, an expiry checked.
`AnswersComplete` (`AnswersSeeAcceptedWrites`) from `ShownInv`: what the
statements so far returned covers every body that was accepted when the read was
asked and whose trace no sweep has taken, and of their spans those that name it
and share no id with a span of another trace; a sweep in between takes the body off
what is owed, and whatever it leaves is whole. The attempt to prove the page
clause for bodies that repeat a span id failed, rightly: a list counts rows, so
the property counts ids. `PagesMeetEveryTrace` (`PageWalkComplete`) from
`WalkInv`: the list falls in time, and of the traces that stay those not met
begin before the cursor or in a millisecond that is listed. It has a hypothesis,
`OneStartPerTrace`: bodies of one trace agree on when it started, as those of
the SDK and of the action do; a trace that was swept and sent again with
another start may be met twice.

**`ApiKeysProofs`** (about `Boot`: any replicas, files, keys, failures; then about
`ApiKeys` over it: any connections, ids, organisations). `TypeCorrect`,
`OnceInOrder`, `ReadyWhenServing`: the invariant says what a replica has passed
by the place it is at: the files and keys before it are in the tables, whoever
put them there. It survives the steps of others because the tables only grow
(`Grows`), and `OneMoves` reduces every step to the one replica it moves.
`KeysTypeCorrect`, `RevokedByOne`, `ConfinedToOrg`, `GateAdmitsLiveKeys`,
`RevocationIsFinal` from `KeyInv`: what a request holds in its locals is about
the row as it was read, of which all but the `revoked` column is still so, and a
request past its SELECT came while its key was live. The boot's invariant is
part of it, since replicas boot while keys are made and revoked.

**`VoiceTurnProofs`** (any finite set of turns). `TurnTypeCorrect`;
`ResumedOnce` (`NeverResumedTwice`) with no condition on what the user does, as
every resumption takes the continuation out of its variable first and the
synthesiser never has more callbacks coming than turns have spoken
(`EachSpeaksOnce`); `OwnWords`
(`OwnTranscript`) from `InTurn`: undisturbed turns are strictly one after
another, so what listens, hops and waits belongs to the one turn that is under
way.

**`TracePageProofs`** (any trace, any finite set of spans the tables can hold, in
any order the query allows). No steps, only what the functions compute.
`CyclesOnly`: `depthByParent` comes to an end for every span exactly where no
parents form a cycle. A walk is a table of which the next row is made from the
one before; without a cycle, a chain of parents visits no span twice
(`ChainRises`), so it has reached a top before the table ends, and a span's depth
is its parent's and one; with a cycle, all its spans stay cyclic in every row.
`EveryPageIsFaithful`, the whole of `Faithful`: the ancestors of a span are its
parent and the ancestors of that, so counting them gives the depth
(`DepthsCount`); start and rank of the id order spans of unique ids, so there is
one sequence in order and it holds each span once (`OrderedInOrder`,
`InOrderOnce`); every start is on the axis and every end within it
(`AxisHolds`); the multiples of the step that is chosen rise to the last below
the total and are at most seven up to a minute (`EveryAxisRises`); and the
projection changes none of this, as it keeps place, name and turn of a span.
The attempt corrected the property: a row ends inside the axis if its duration
is at most the time between its start and its end. The SDK takes the first from
a monotonic clock and the other two from the wall clock, and the backend stores
all three unchecked; a trace of the run has such a span since.

**`ActionRunProofs`** (any inputs, files of any length, environment and traces of
other clients). `PagesClean` (`PublicAttributesClean`): a key the strip rule
leaves has no segment the tripwire looks for, so no projection is refused.
`PageIsFaithful` (`PageFaithful`) from `PageInv`: what is stored is as the tables
hold it, part of a payload included (`PayloadStorable`), and a page is that of
its trace. That a run's page shows its stages back to back needs more:
`SumStages` of appended stages adds up (`SumOfJoined`), so each turn starts where
the one before has played out (`TurnsStart`), so the payload is `BackToBack`, so
with time in each stage the starts rise, and the payload's own order is the one
order of the waterfall (`ShownInRunOrder`).
`RunTypeCorrect`. `LinkIsForThisRun` (`LinkMeansStored`): the spans of the
payload are `FlattenSeq` of one sequence per turn, so each stage is among them
(`StageStored`); of the spans with its id the first is stored unless the id is
taken, and it has the stage's name and the number of its turn, whatever other turns
have that number (`AllStored`).
`VerdictIsFromFiles` (`VerdictFromFilesOnly`) follows the command line through
`parseArgs` (`ArgvSays`, `OptionsOfInputs`: whichever inputs are blank, each
option is the input's word), the comparison and the rounding of both percents,
which is monotone (`Rounded`, `ShownInOrder`), to the comment, or to the throw
instead of it (`ThrowsIfBroken`); its invariant `VerdictInv` says at each stage
which file and which options the locals are.

The one hypothesis of these theorems is `NoneIsNoRecord`: None is none of the
records the run makes. It quantifies over everything, so it cannot be an ASSUME
that TLC evaluates.

What the ASSUMEs ask of the constants: `CapacityAssumption` is the
precondition in `RingBuffer.init`; `LimitsAssumption`, `ClockAssumption`,
`BootAssumption`, `ShapeAssumption` and `TokenAssumption` are types and positive units; `TurnsAssumption`
has finitely many turns; `ReadsAssumption` adds that the default page size is
positive and within the cap, that the default time to live is within its cap
(`shareToken.ts`), and that the microseconds of a start refine its minutes;
`FilesAssumption` is the type of `types.ts` as far as `isTraceSummary` looks, so
that a turn may be null or lack parts, with durations that are whole and not
negative; `InputsAssumption` that each input is text, that a threshold's text is
one `Number` is given for, and which variables the environment can set;
`RankAssumption` that the order of strings tells ids apart (and None is no id);
`StoreAssumption` that rows of other clients are as the tables hold them
(`Storable`: a key of its own for each span, times that are NOT NULL,
`001_init.sql`), and that ids of the action are among the ids.

**Induction over data.** The library's induction theorems cannot be instantiated
here, but an induction can be stated of a set: a non-empty set of numbers has a
least one (`WFMin` with `NatLessThanWellFounded`), so a set that holds 0 and with
n also n + 1 holds all (`NumbersByInduction`). With it come the existence and the
equations of the recursive functions inside `SumFunctionOnSet`, `FlattenSeq`,
`SumStages`, `parseArgs` and `depthByParent`.

Only model-checked: liveness (`EventuallySettles`, `RacesEnd`,
`UndisturbedTurnsEnd`) and ENABLED, which TLAPS does not reach.

## 5. Not modelled, and the plan

Left out for good, because nothing is decided there or the code is elsewhere:
rendering, encoding, logging, headers, the drawing of cards; metrics; the
in-memory stores, which only tests run; the harness, a one-shot command over a
mock model; scripts, CI and styles; the inside of llama.cpp (with its context
and a second `load`), Postgres, URLSession and the speech frameworks, which are
actions marked external in the map.

What was planned is done. Where more could be worth it: the validation of bodies
in ingest, which is abstracted to acceptance; `load` and the context window of
`generate`, with a model of what llama.cpp does when it is full; and the in-memory
stores, if a deployment came to run them.
