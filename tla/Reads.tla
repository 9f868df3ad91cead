-------------------------------- MODULE Reads ---------------------------------
(***************************************************************************)
(* The read side of the backend over the store that Ingest writes: share   *)
(* links (shareToken.ts), the public page and its OG card, the dashboard's *)
(* projects, trace lists and trace view (server.ts, views.ts,              *)
(* pgSpanStore.ts), and the web server in front of them (web/src).  Every  *)
(* handler reads in several statements, one step each, so that ingest and  *)
(* the retention sweep run in between.                                     *)
(*                                                                         *)
(* One read is in progress at a time: a read changes nothing another read  *)
(* sees but the links it signs and the cards it lets a cache keep.  Trace  *)
(* ids are the clients' and random: an id belongs to one organisation.     *)
(***************************************************************************)
EXTENDS Ingest

CONSTANTS
    Orgs, NoOrg, Projects,
    OrgOf, ProjectOf,      \* of each trace id
    SensitiveTraces,       \* trace.sensitive
    StartUs,               \* body.trace.startedAt in microseconds
    PerMs,                 \* microseconds to the millisecond
    DashboardKeys,         \* bearer -> org: parseDashboardKeys, live priv keys
    OrgBearers,            \* org -> bearer, parseOrgBearerMap
    AskedTtls,             \* expiresInSeconds, in minutes; 0 where absent
    DefaultTtl, MaxTtl, CardMaxAge,
    AskedLimits,           \* ?limit=; 0 where absent, below where no number
    DefaultLimit, MaxLimit,
    MaxLinks               \* bound: links signed

ASSUME ReadsAssumption ==
    /\ OrgOf \in [Traces -> Orgs] /\ ProjectOf \in [Traces -> Projects]
    /\ NoOrg \notin Orgs /\ SensitiveTraces \subseteq Traces
    /\ StartUs \in [Bodies -> Nat] /\ PerMs \in Nat \ {0}
    /\ \A a, b \in Bodies : StartedAt[a] < StartedAt[b] => StartUs[a] < StartUs[b]
    /\ \A k \in DOMAIN DashboardKeys : DashboardKeys[k] \in Orgs
    /\ AskedTtls \subseteq Nat /\ AskedLimits \subseteq Int
    /\ {DefaultTtl, MaxTtl, CardMaxAge, MaxLinks} \subseteq Nat /\ DefaultTtl <= MaxTtl
    /\ DefaultLimit \in 1 .. MaxLimit /\ MaxLimit \in Nat /\ Absent \notin Traces

VARIABLES
    rd,       \* the read in progress and its answer
    tokens,   \* the links signed so far
    cache,    \* cards some cache may serve: the token and until when
    steady    \* history: the traces stored at every moment since the read began

readVars == <<rd, tokens, cache, steady>>

Iso(us) == us - (us % PerMs)                \* toIso: a Date holds milliseconds
StoredTraces == {t \in Traces : traces[t] # Absent}
Start(t) == StartUs[traces[t]]
SpansUnder(t) == {s \in Spans : spans[s] # Absent /\ SpanTraceId[spans[s]] = t}

LinkOps == {"public", "card"}   \* GET /r/:token, GET /og/:token.png
ListOps == {"projects", "page"} \* GET /app/projects, GET /app/projects/:id/traces
IdOps   == {"share", "detail"}  \* POST /app/trace/:id/share, GET /app/trace/:id

Idle == [op |-> "none", step |-> "idle", failed |-> FALSE,
         asked |-> 0, must |-> {}, org |-> NoOrg, trace |-> Absent,
         project |-> Absent, token |-> <<>>, limit |-> 0, before |-> {},
         todo |-> <<>>, page |-> 0, listed |-> <<>>, counts |-> <<>>,
         spans |-> {}, status |-> 0]

ReadsInit == /\ Init
             /\ rd = Idle /\ tokens = {} /\ cache = {} /\ steady = {}

Answer(r, code) == [r EXCEPT !.step = "answered", !.status = code]
Refuse(r, code) == Answer([Idle EXCEPT !.op = r.op], code)

-----------------------------------------------------------------------------
(* The request.                                                             *)

(* A request arrives; the bodies accepted before it are what it must see.   *)
Begin(r) ==
    /\ rd.step = "idle"
    /\ rd' = [r EXCEPT !.asked = minute, !.must = accepted]
    /\ UNCHANGED <<tokens, cache>>

(* authenticateDashboard: a dashboard key or a priv API key has its org     *)
(* (how an API key is verified is in module ApiKeys), another bearer none.  *)
authenticateDashboard(key) ==
    IF key \in DOMAIN DashboardKeys THEN DashboardKeys[key] ELSE NoOrg

(* resolveOrg of the web server: the bearer for ?org=, or for the only org; *)
(* without one it answers 401 itself.                                       *)
resolveOrg(q) ==
    LET org == IF q # NoOrg THEN q
               ELSE IF Cardinality(DOMAIN OrgBearers) = 1
                    THEN CHOOSE o \in DOMAIN OrgBearers : TRUE ELSE NoOrg
    IN  IF org \in DOMAIN OrgBearers THEN OrgBearers[org] ELSE NoOrg

(* The bearers that reach the backend, straight or through the web server.  *)
Bearers == DOMAIN DashboardKeys \cup {NoOrg} \cup {resolveOrg(q) : q \in Orgs \cup {NoOrg}}

Authenticated(r, key, step) ==
    LET org == authenticateDashboard(key)
    IN  IF org = NoOrg THEN Refuse(r, 401)
        ELSE [r EXCEPT !.org = org, !.step = step]

AskById(op, key, t) ==
    /\ op = "share" => Cardinality(tokens) < MaxLinks
    /\ Begin(Authenticated([Idle EXCEPT !.op = op, !.trace = t], key, "trace"))

AskProjects(key) == Begin(Authenticated([Idle EXCEPT !.op = "projects"], key, "rows"))

(* Faulty: no cap.                                                          *)
clampLimit_Uncapped(n) == IF n = 0 THEN DefaultLimit ELSE n

(* clampLimit, of a whole number (a fraction below 1 gives an empty page).  *)
clampLimit(n) == IF n = 0 THEN DefaultLimit ELSE IF n < MaxLimit THEN n ELSE MaxLimit

(* A walk begins without a cursor; where the request has one that is no     *)
(* time, the cast in the SELECT fails.                                      *)
AskPage(key, p, n, isTime) ==
    LET r == [Idle EXCEPT !.op = "page", !.project = p, !.limit = clampLimit(n)]
        a == Authenticated(r, key, "rows")
    IN  Begin(CASE a.step = "rows" /\ n < 0 -> Refuse(r, 400)
                [] a.step = "rows" /\ n >= 0 /\ ~isTime -> Refuse(r, 500)
                [] OTHER -> a)

(* HmacShareTokenSigner.verify of a token the backend signed.               *)
verify(tok) == ~(tok.expiresAt < minute)

AskByLink(op, tok) ==
    LET r == [Idle EXCEPT !.op = op, !.token = tok, !.trace = tok.trace, !.org = tok.org]
    IN  Begin(IF verify(tok) THEN [r EXCEPT !.step = "trace"] ELSE Answer(r, 404))

-----------------------------------------------------------------------------
(* The statements of the handlers.                                          *)

(* store.getTrace and the checks after it.                                  *)
GetTrace ==
    LET t == rd.trace
    IN  /\ rd.step = "trace"
        /\ rd' = IF traces[t] = Absent THEN Answer(rd, 404)
                 ELSE IF OrgOf[t] # rd.org
                      THEN Refuse(rd, IF rd.op \in IdOps THEN 403 ELSE 404)
                 ELSE IF rd.op \in LinkOps /\ t \in SensitiveTraces THEN Answer(rd, 404)
                 ELSE [rd EXCEPT !.step = IF rd.op = "share" THEN "sign" ELSE "view"]
        /\ UNCHANGED <<tokens, cache>>

LinkTtl(ttl) == IF ttl = 0 THEN DefaultTtl ELSE IF ttl < MaxTtl THEN ttl ELSE MaxTtl

(* The body is read, and the link signed with the clock of that moment.     *)
Sign(ttl) ==
    /\ rd.step = "sign"
    /\ tokens' = tokens \cup {[trace |-> rd.trace, org |-> rd.org, signed |-> minute,
                               expiresAt |-> minute + LinkTtl(ttl)]}
    /\ rd' = Answer(rd, 201)
    /\ UNCHANGED cache

(* Faulty: a stale card may be served for another max-age meanwhile it is   *)
(* revalidated.                                                             *)
CardKept_Revalidated ==
    IF rd.op = "card" THEN cache \cup {<<rd.token, minute + 2 * CardMaxAge>>} ELSE cache

(* A card goes out with Cache-Control: public, max-age; a cache drops it    *)
(* when that is over.                                                       *)
CardKept == IF rd.op = "card" THEN cache \cup {<<rd.token, minute + CardMaxAge>>} ELSE cache

(* SpanViews reads the trace again: where a sweep took it meanwhile, the    *)
(* answer is 200 without spans.                                             *)
ReadView ==
    /\ rd.step = "view"
    /\ IF traces[rd.trace] = Absent
       THEN rd' = Answer(rd, 200) /\ cache' = CardKept
       ELSE rd' = [rd EXCEPT !.step = "spans"] /\ UNCHANGED cache
    /\ UNCHANGED tokens

(* getSpansForTrace                                                         *)
ReadSpans ==
    /\ rd.step = "spans"
    /\ rd' = [Answer(rd, 200) EXCEPT !.spans = SpansUnder(rd.trace)]
    /\ cache' = CardKept
    /\ UNCHANGED tokens

(* listProjects: the traces of each project are counted in one statement.   *)
listProjects ==
    /\ rd.step = "rows" /\ rd.op = "projects"
    /\ rd' = [Answer(rd, 200) EXCEPT !.counts =
                [p \in Projects |->
                   Cardinality({t \in StoredTraces : OrgOf[t] = rd.org /\ ProjectOf[t] = p})]]
    /\ UNCHANGED <<tokens, cache>>

(* Faulty: the cursor's own row is selected again.                          *)
Before_Inclusive(t) == \A cursor \in rd.before : Start(t) <= cursor

Before(t) == \A cursor \in rd.before : Start(t) < cursor

(* ORDER BY started_at DESC LIMIT n; equal times come in any order.         *)
Pages(C, n) ==
    LET size == IF Cardinality(C) < n THEN Cardinality(C) ELSE n
    IN  {s \in [1 .. size -> C] :
           /\ \A i, j \in 1 .. size : i < j => s[i] # s[j] /\ Start(s[i]) >= Start(s[j])
           /\ \A i \in 1 .. size, t \in C \ Elements(s) : Start(s[i]) >= Start(t)}

(* listTraces, the page's rows, ...                                         *)
listTraces ==
    /\ rd.step = "rows" /\ rd.op = "page"
    /\ \E s \in Pages({t \in StoredTraces : /\ OrgOf[t] = rd.org /\ ProjectOf[t] = rd.project
                                            /\ Before(t)}, rd.limit) :
         LET rows == [i \in 1 .. Len(s) |-> [id |-> s[i], startedAt |-> Iso(Start(s[i]))]]
             r    == [rd EXCEPT !.todo = rows, !.page = Len(rows)]
         IN  rd' = IF rows = <<>> THEN Answer(r, 200) ELSE [r EXCEPT !.step = "summaries"]
    /\ UNCHANGED <<tokens, cache>>

(* ... and for each row one more statement that counts its spans.           *)
SummariseRow ==
    LET row == Head(rd.todo)
        r   == [rd EXCEPT !.todo = Tail(@),
                          !.listed = Append(@, [id |-> row.id, startedAt |-> row.startedAt,
                                                spanCount |-> Cardinality(SpansUnder(row.id))])]
    IN  /\ rd.step = "summaries"
        /\ rd' = IF Tail(rd.todo) = <<>> THEN Answer(r, 200) ELSE r
        /\ UNCHANGED <<tokens, cache>>

(* A statement fails, or the backend cannot be reached: 500.                *)
ReadFails ==
    /\ rd.step \in {"trace", "view", "spans", "rows", "summaries"}
    /\ rd' = [Refuse(rd, 500) EXCEPT !.failed = TRUE]
    /\ UNCHANGED <<tokens, cache>>

-----------------------------------------------------------------------------
(* The answer.                                                              *)

(* A page that came full is followed by the next, before its last row.      *)
NextPage ==
    /\ rd.step = "answered" /\ rd.op = "page" /\ rd.status = 200 /\ rd.page = rd.limit
    /\ rd' = [rd EXCEPT !.step = "rows", !.before = {rd.listed[Len(rd.listed)].startedAt}]
    /\ UNCHANGED <<tokens, cache>>

(* The web server's answers for the backend's, each 500 where the backend   *)
(* cannot be reached and fetch throws: a link that fails in any way is not  *)
(* found; ...                                                               *)
PublicPage(r) == {IF r.status = 200 THEN 200 ELSE 404} \cup IF r.failed THEN {500} ELSE {}

(* ... a list that fails otherwise than by its bearer is shown empty; ...   *)
ListPage(r) ==
    {IF r.status \in {401, 403} THEN r.status ELSE 200} \cup IF r.failed THEN {500} ELSE {}

(* ... a card goes through, but 502 where the backend cannot be reached ... *)
CardProxy(r) == {r.status} \cup IF r.failed THEN {502} ELSE {}

(* ... and so does the status of a trace.                                   *)
WebStatus(r) ==
    CASE r.op = "public" -> PublicPage(r)
      [] r.op \in ListOps -> ListPage(r)
      [] r.op = "card" -> CardProxy(r)
      [] OTHER -> {r.status}

Done ==
    /\ rd.step = "answered"
    /\ rd' = Idle
    /\ UNCHANGED <<tokens, cache>>

ReadStep ==
    \/ \E key \in Bearers : \/ \E op \in IdOps, t \in Traces : AskById(op, key, t)
                            \/ AskProjects(key)
                            \/ \E p \in Projects, n \in AskedLimits, isTime \in BOOLEAN :
                                 AskPage(key, p, n, isTime)
    \/ \E op \in LinkOps, tok \in tokens : AskByLink(op, tok)
    \/ GetTrace \/ (\E ttl \in AskedTtls : Sign(ttl))
    \/ ReadView \/ ReadSpans \/ listProjects \/ listTraces \/ SummariseRow \/ ReadFails
    \/ NextPage \/ Done

(* The writers run meanwhile.  No read goes on for more than a minute.      *)
WriteStep ==
    /\ Next
    /\ minute' # minute /\ rd.step # "idle" => minute <= rd.asked
    /\ UNCHANGED <<rd, tokens>>
    /\ cache' = {c \in cache : c[2] >= minute'}

ReadsNext ==
    /\ \/ ReadStep /\ UNCHANGED vars
       \/ WriteStep
    /\ steady' = IF rd'.op # "page" THEN {}
                 ELSE IF rd.op = "page" THEN steady \cap StoredTraces' ELSE StoredTraces'

ReadsSpec == ReadsInit /\ [][ReadsNext]_<<vars, readVars>>

-----------------------------------------------------------------------------
(* Properties.                                                              *)

(* Every variable has its type.                                             *)
ReadsTypeOK ==
    /\ TypeOK
    /\ rd.op \in {"none"} \cup LinkOps \cup ListOps \cup IdOps
    /\ rd.step \in {"idle", "trace", "sign", "view", "spans", "rows", "summaries",
                    "answered"}
    /\ rd.op = "page" /\ rd.step \in {"rows", "summaries"} => rd.limit \in 1 .. MaxLimit
    /\ rd.status \in {0, 200, 201, 400, 401, 403, 404, 500}
    /\ rd.org \in Orgs \cup {NoOrg} /\ rd.must \subseteq Bodies /\ rd.spans \subseteq Spans
    /\ \A i \in DOMAIN rd.listed : rd.listed[i].id \in Traces
    /\ \A tok \in tokens : tok.trace \in Traces /\ tok.org \in Orgs
    /\ \A c \in cache : c[1] \in tokens
    /\ steady \subseteq Traces

Ended == rd.step = "answered"

(* The status a caller sees: of the backend, and of the web server's page.  *)
Codes == {rd.status} \cup IF rd.op = "share" THEN {} ELSE WebStatus(rd)

(* The bodies the read has to show: accepted before it was asked, with no   *)
(* sweep of their trace since.                                              *)
Due == {b \in rd.must : TraceOf[b] \notin purged}

(* The spans it has to show under trace t, whichever bodies brought them:   *)
(* the ids that no span sent for another trace has.  An id that one has is  *)
(* the first writer's, and may be stored under that other trace.            *)
Owed(t) ==
    IF t \in purged THEN {}
    ELSE {SpanId[e] : e \in {e \in UNION {Elements(SpansOf[b]) : b \in rd.must} :
            \A f \in Entries : SpanId[f] = SpanId[e] => SpanTraceId[f] = t}}

(* What ingest answered 202 to before a read is asked is in the answer,     *)
(* whole, however requests and sweeps interleave with the read's            *)
(* statements, on the backend and on the web pages: a trace or link shows   *)
(* every span that names the trace, a list row counts them all (an id       *)
(* stored once, however often a body repeats it), a project every trace.    *)
(* Only traces a sweep took, reads with a failed statement, and ids that    *)
(* spans of two traces share are exempt.                                    *)
AnswersSeeAcceptedWrites ==
    Ended /\ ~rd.failed /\ rd.org # NoOrg =>
        /\ \A b \in Due : TraceOf[b] = rd.trace /\ OrgOf[rd.trace] = rd.org =>
             /\ rd.op = "detail" => Codes = {200}
             /\ rd.op = "share" => Codes = {201}
             /\ rd.op \in LinkOps /\ rd.asked <= rd.token.expiresAt
                  => Codes = {IF rd.trace \in SensitiveTraces THEN 404 ELSE 200}
        /\ rd.op \in LinkOps \cup {"detail"} /\ 200 \in Codes => Owed(rd.trace) \subseteq rd.spans
        /\ rd.op = "projects" => \A p \in Projects :
             rd.counts[p] >= Cardinality({TraceOf[b] : b \in
                               {d \in Due : OrgOf[TraceOf[d]] = rd.org /\ ProjectOf[TraceOf[d]] = p}})
        /\ rd.op = "page" => \A i \in DOMAIN rd.listed :
             rd.listed[i].spanCount >= Cardinality(Owed(rd.listed[i].id))

(* SpanStore.listTraces: "cursor-based on startedAt so new writes don't     *)
(* disturb existing pages".  Someone who reads page after page to the last  *)
(* meets no trace twice and every trace stored all the while, except those  *)
(* that began in the same millisecond as one listed.                        *)
PageWalkComplete ==
    LET walked == {rd.listed[i].id : i \in DOMAIN rd.listed}
        times  == {rd.listed[i].startedAt : i \in DOMAIN rd.listed}
    IN  Ended /\ rd.op = "page" /\ rd.status = 200 /\ ~rd.failed =>
            /\ Cardinality(walked) = Len(rd.listed)
            /\ rd.page < rd.limit =>
                 \A t \in steady : OrgOf[t] = rd.org /\ ProjectOf[t] = rd.project =>
                     t \in walked \/ Iso(Start(t)) \in times

(* A link dies: nothing is shown through it to a request made after its     *)
(* expiry, which is no later than the cap; a cache may show its card for    *)
(* its max-age longer (and the minute the request was in progress), to the  *)
(* last moment it is fresh.                                                 *)
LinksExpire ==
    /\ Ended /\ rd.op \in LinkOps /\ 200 \in Codes =>
         rd.asked <= rd.token.expiresAt /\ rd.asked <= rd.token.signed + MaxTtl
    /\ \A c \in cache : minute <= c[2] /\ c[2] <= c[1].signed + MaxTtl + CardMaxAge + 1
=============================================================================
