# Qeet Logs: a TLA+ verification project

Qeet Logs is a multi-tenant log, metric and trace store. A Rust ingest plane
(`ingest/`) accepts telemetry, a NATS JetStream work queue buffers it, a Rust
writer puts it into ClickHouse, and a Go plane (`platform/`, `domains/`, `cmd/`)
queries it, administers tenants and raises incidents. This directory models the
parts of it in which processes, stores and messages interact.

Paths below are relative to the repository's root. `PROJECT.json` maps every
definition to the lines it models.

## The system

| Component | State it keeps | Operations | Hard parts |
|---|---|---|---|
| Ingest gateway (`ingest/gateway`) | per-replica authorisation cache; nothing else | authorize, rate-limit, parse, mask, sample, publish | partial acceptance, lost acks, stale cache, replicas |
| QEET_LOGS stream (JetStream) | messages and their delivery state | publish, deliver, redeliver after `ack_wait`, drop after `max_age` | duplicates, regrouping, who provisions it |
| Writer (`ingest/writer`) | one batch in memory | pull, group by table, insert with a token, tail, ack | failures between any two systems, competing consumers |
| Rate limiters (gateway and `platform/api/middleware/ratelimit.go`) | one Redis counter per tenant and window | read clock, INCR, EXPIRE, decide | three round trips, many replicas, key expiry |
| Alerter (`domains/alerting`, `cmd/alerter`) | `alert_rules`, `alert_state`, `incidents` in Postgres | evaluate, correlate, page, resolve, sweep anomalies | one SQL statement at a time, crashes, overlapping pods |
| API keys, retention, transforms (handlers) | Postgres rows read by the gateway's cache | create, revoke, update | staleness of the cached copy |
| Dead-letter queue (`dlq.go`) | `dlq_events` | list, replay, drop | replay twice; nothing fills it |
| Erasure (`erasure.go`) | `erasure_requests` | register, submit mutations, record | records still in the stream |
| War room (`warroom.go`) | sessions, roles, entries | declare, assign, add, hand off | read-then-write races |
| Webhooks (`domains/webhook`) | endpoints | dispatch with retries | retry of a delivered event, redirects, shared deadline |
| Lifecycle mover (`cmd/lifecycle`) | none (reads parts and tiers) | plan, move | stale plan |
| Authentication (`platform/api/middleware`) | JWKS cache | verify | concurrent refresh, rotation |
| AI gateway, copilot (`domains/aigateway`, `copilot*.go`) | flags, conversations, decision log | gate, mask, call, audit, store turns | interleaved conversations, flags changed meanwhile |
| Postmortems (`postmortem.go`) | postmortems, commitments, verdicts | create, publish, export | republishing, an incident that changes after publication |
| Query language (`domains/query`) | none | lex, parse, compile, match | two evaluators of one predicate, the tenant guard, aliases |
| Loki and Prometheus surfaces (`grafana.go`, `promql.go`) | none | translate, run, shape | window edges, escaping twice, merging series |
| Topology, timeline, routing simulation | none | derive, merge, simulate | cycles, limits before and after a merge |

The remaining parts (ChatOps, forecasts, billing, dashboards, decoding of wire formats,
metrics, the console, the command-line tools) are read-only
calculations, single-statement CRUD or I/O; `PROJECT.json` lists each with the
reason it is left out or the plan for it.

How they interact: a client's request passes `authorize` and `rate_limit`, is
published to `qeet-logs.{tenant}.{signal}`, is pulled by some writer, inserted,
tailed to Redis and acknowledged. The alerter reads ClickHouse, keeps incidents
in Postgres and notifies through channels and webhooks. The query API shares
Redis with the gateway, Postgres with everybody, and provisions the stream too.

What makes each part correct: nothing acknowledged is lost and nothing is tailed that is
not stored (writer); what the client was told is accepted is durable (gateway); a cached
authorisation is used for a bounded time (cache); the cap holds across replicas
(limiter); one open incident per fingerprint, paged above the gate, announced once,
paged again only for a lost record (alerter). A query returns rows of its own tenant
only and what its text says, on every surface; a stale key set or a revoked key is
honoured for a bounded time; consent is never implied; a completed erasure erased; a
resolved war room stays resolved; a webhook is repeated only for a lost answer, a server
error or a redirect.

## Modules

```
AtLeastOnce        abstract store: take, store, settle, drop
Writer             JetStream + writers + ClickHouse   (implements AtLeastOnce)
  MCWriter           instances for TLC
  WriterProofs       theorems
  Ingest             gateways and stream provisioning composed with Writer
    MCIngest           who provisions the stream
    IngestProofs       theorems, from WriterProofs
AuthCache          the gateway's authorisation cache, with time
  AuthCacheProofs    theorems
RateLimit          the fixed-window limiter, with time
  RateLimitProofs    theorems
  MCGateway          the gateway: RateLimit, AuthCache and Ingest
Alerter            the alerting engine
  MCAlerter
  AlerterProofs      theorems
Compiler           one node of a LogQL++ condition, the tenant's guard, aliases, ClickHouse's reading
  LogQL              LogQL++: lexer, parser, compiler, matcher
    Loki               Grafana's Loki data source, over LogQL
    RoutingSim         routing simulation, and the alert's query it simulates
ReadSide           a request of the read side and its answer
  PromQL             the Prometheus surface
  ServiceGraph       topology and blast radius
  Timeline           the incident timeline
  MCReadSide         all of the above over bounded inputs
  ReadSideProofs     theorems on ServiceGraph, Timeline, PromQL, Compiler
Access             OIDC key-set cache and API keys
  AccessProofs       theorems
Copilot            AI flags, governance, conversations
DeadLetters        replay and drop
Erasure            requests, mutations, receipts
  MCErasure          an erasure by user key
IncidentRoom       war room and postmortem
Webhooks           registration and delivery
  MCControlPlane     the six above
  HandlerProofs      theorems on all of these but Access
Lifecycle          the cold-tier mover
  MCLifecycle
```

### Writer and AtLeastOnce

`Writer` follows `ingest/writer/src/main.rs`. `state` is JetStream's view of each
message, `pc`, `batch`, `todo`, `allOk` are a worker's locals (`msgs`, the groups
not inserted yet, `all_ok`), `copies` and `window` are the rows and the
deduplication window of each table, `tailed` what went out on the live tail.
`Fetch` pulls and groups a batch; `InsertOk` and `InsertErr` insert one group
each, in any order (the code iterates over a `HashMap`); `StartAck`/`Abandon` test
`all_ok`; `Ack` acknowledges one message and may be lost; `Crash` loses the
worker's memory. `InsertErr` covers both a refused block and one whose response
is lost. A record is its signal, whether it parses, and its ULID; a group's token
is the multiset of its ids, which is what the hash of the sorted ids tells apart.
JetStream and ClickHouse are external: `AckWait` may fire while a worker still
holds the message, `Expire` models `max_age`, and `Commit` discards a block whose
token the table remembers.

`AtLeastOnce` is the promise: a message is taken, stored any number of times
while taken, and settled only if a row with its record exists, or dropped.
`ImplementsAtLeastOnce` maps the writer to it.

### Ingest

`Ingest` adds the gateways' request loop (`Receive`, `SkipInput`, `PublishOk`,
`PublishErr`, `Respond`) and the three programs that provision QEET_LOGS
(`StartGateway` and `StartWriter` get or create it, `EnsureStreams` of the query
API creates or updates it). Every attempt to publish an input is another message,
because every record is built with a fresh ULID; a client may send again whatever
no response has confirmed. `reported` collects what responses counted as
accepted. The log, metric and trace endpoints differ only in whether an input can
be dropped by the PII gate, be unusable, or be sampled out; wire formats, masking
and remap programs are abstracted to that.

### AuthCache

Time is counted in ticks. A request that misses the cache becomes a `lookup`,
then a `store`; the row it read is a version of the tenant's configuration.
`RevokeAPIKey` and `UpdateRetention` stand for the administrative handlers
(transforms included). `MaxLookup` bounds the time between a miss and the
insertion, the one assumption the bound on staleness rests on.

### RateLimit

`ReadClock`, `Incr`, `ExpireKey` and the decision are separate steps of each
replica's request. `Tick` advances the clock and lets Redis drop keys whose TTL has
run out. `MaxDelay`, less than a window, is how late after reading the clock an
INCR may reach Redis.
The Go and the Rust limiter are the same algorithm; Retry-After is the gateway's.

### Alerter

`eng[e]` holds an engine's locals: the rules and outlier services of the cycle
still to do, the detector at hand, the fingerprint chosen, the merged confidence,
`newly` and `due`. Every SQL statement and notification is one action. A
fingerprint, a hash of tenant and service, is the service; severities are 0..3;
confidences are percentages, after calibration. An anomaly is correlated as a
detector without channels, as `sweepAnomalies` does. `Fault` bounds crashes and
failed statements. A statement that takes effect although its response is lost
is a failure at the next `pc`. The webhook dispatch is counted when it is started.
The histories `sent` and `lost` count, for each incident and engine, the pages sent to a
channel and those whose record was lost: the UPDATE failed, or the engine died before it
(`LoseRecord`).

### The read side: Compiler, LogQL, Loki, PromQL, ServiceGraph, Timeline, RoutingSim

These are pure algorithms, written as operators with the source's names. `lex` works on
characters, `Parse` on tokens, as the code does; `Compile` yields a predicate tree (the
SQL text is left out, quoting excepted: `quote` is checked against how ClickHouse reads
a literal), `Match` evaluates the syntax tree on a record. `Compiler` holds what is not
recursive: what a node compiles to, given what its operands compile to (`compileNode`),
the guard (`guarded`), and how ClickHouse takes a condition apart by one level
(`MeansOf`); `LogQL` adds the two recursions (`compileExpr`, `Means`). `ReadSide` is the
request: a kind of input (`what`), an input, and one step (`Submit`) that makes the
answer due. `MCReadSide` enumerates the inputs within its bounds; `ServiceGraph`,
`Timeline` and `PromQL` state their own specification over all inputs (`TopologySpec`,
`TimelineSpec`, `PromSpec`: any finite set of rows), about which the theorems are. Each
invariant compares the operators' result with a reference: the grammar of conditions by
the definition of AND and OR (`WhereIsGrammar`), reachability for the blast radius, "the
latest n of all" for the timeline, the latest sample of the lookback for an instant
query, and for the routing simulation the truth of the whole condition as LogQL++ reads
it and as the alert counts it. `Loki` hands its tokens to `LogQL`'s parser and compiler,
so `LokiWindowKept` and `LokiPathsAgree` are about the composition. Time there is in
ticks finer than a second, and ClickHouse evaluates `now()` some ticks after the handler
read its clock. In `PromQL` an expression is a record of its parts; `toStartOfInterval`
(external) counts intervals from the epoch; `checkCardinality` refuses a metric with too
many series before it is queried, unless they could not be counted.

`lex`, the helpers that quote and escape and `stripOuterParens` are what goes down to
characters: `TextIsKept` is about quoting, escaping and tokenising, which cannot be told
from a token. The properties of the other
surfaces start from tokens or records.

*Names in WHERE.* `compileSelect` writes every item of the SELECT list as `expr AS alias`
(the last part of the field unless an alias is given), and ClickHouse resolves a name in
WHERE to such an alias before a column of the table. `namedItem` and `chNames` model this,
one level deep; an alias of an aggregate makes ClickHouse refuse the query (`chRefuses`).
So `SELECT body.tenant_id FROM logs` compares the tenant with what the record's body says.
`QueryIsConfined` and `TailAgreesWithQuery` are about the SELECT lists that leave the names
they use to the columns (`Unshadowed`), MCReadSideForced shows what the others do.

*Routing.* `matchRule` is the simulation, `buildQuery` (`evaluator.go:46`) what the alert
counts: its condition goes into SQL as it is written, so that `level >= 'warn'` is a
comparison of texts there and one of ranks in the simulation and in LogQL++.
`SimulationIsConservative` compares the simulation with LogQL++ for every condition, and
with the alert for those that do not order levels.

### The control plane: Access, Copilot, DeadLetters, Erasure, IncidentRoom, Webhooks

One action per SQL statement, external call or lock operation of a handler; every
statement may fail, and each error path is the code's, an ignored error included.
`Access`: `jwks` and `jwksLock` are the cached key set and its mutex; the read under
RLock and the fetch under Lock are separate steps, the condition is not read again
in between, and a provider's error page that decodes is cached as an empty set.
`Copilot`: `ask[q]` holds a question's locals from the gate to the stored answer;
`put[a]` a partial PUT of the flags. `DeadLetters`: read, publish and mark of a replay.
`Erasure`: a request names a user, a time from, a time to, or several of them;
`mutations` are submitted to ClickHouse and applied later, one whose answer is lost
included (`took`), and `streamed` records are stored at any time. `IncidentRoom`: the
handoff's three reads and its resolving UPDATE; the report is derived, when it is exported,
from an incident whose severity the engine goes on writing (`UpdateSeverity`).
`Webhooks`: `dispatch[v]` is the goroutine of an event, `Attempt` one POST, the redirects
`http.Client` follows (a 307 or 308 sends the POST again, `redirected`), its outcome and
the time all that took, `Pause` the backoff. Loading the endpoints, every attempt, whatever
its outcome, and every pause take from the thirty seconds all endpoints share (`elapsed`);
`http.Client` cuts an attempt off after ten.

The components share no state, so `MCControlPlane` picks one (`focus`) at the start
and lets only it move: the runs of all of them for the sum, not the product, of
their states.

### Lifecycle

A cycle loads the tiers, snapshots the parts and moves the planned ones. The number
of FORMAT clauses of the snapshot's text is computed from the two functions that
write it (`formatClauses`); ClickHouse takes one.

## Runs

Passing runs:

| Run | Instance | Shows |
|---|---|---|
| MCWriterCompeting | 2 workers, a log record and its replay, batches of 2 | `AckedIsStored`, `TailedIsStored`, `DuplicateNeedsRegrouping`, `ImplementsAtLeastOnce` |
| MCWriterLive | 1 worker, a log, a poisoned span, a stray subject, window 1 | `OfferedIsStored` under fairness, `TypeOK` |
| MCAlerterOneEngine | 1 engine, 2 rules of a service, its anomalies and a neighbour's, 1 fault | `PagedAtMostOnce`, `ResolvedIsFinal` |
| MCAlerterOverlap | 2 engines, 1 rule that names no service, 2 scores, 2 faults | `OneOpenPerFingerprint`, `PagedAboveGate`, `SeverityNeverOverstates`, `OpenedAnnouncedOnce`, `PagedAtMostOnce` |
| MCGateway | limiter: 2 replicas, limit 1, windows of 2 ticks, INCR up to 1 tick late; cache: 2 replicas, 2 requests, TTL 2, lookups of 1 tick; publishing: 1 gateway, 1 writer, a retried log line and a dropped one | `CapPerWindow`, `StragglersBounded`, `RetryAfterReachesNextWindow`; `RevocationBounded`, `ConfigStalenessBounded`; `AcceptedIsDurable`, `LogsCaptured` |
| MCReadSide | all texts of 4 characters, conditions of 6 and clauses of 5 tokens, selectors and windows, 3 samples, rows and spans, conditions of 5 lexemes | `TextIsKept`, `ParserIsGrammar`, `QueryIsConfined`, `TailAgreesWithQuery`; `GrafanaKeepsRows`; `PromAnswersSamples`; `BlastRadiusIsCallers`, `TimelineIsLatest`, `SimulationIsConservative` |
| MCControlPlane | 2 requests against a rotating key, 2 askers and 2 administrators, 3 operators, 4 records, 2 handoffs over 2 sessions, 2 endpoints with 2 attempts and a redirect each | `AccessCurrent`, `EveryRequestAnswered`; `CopilotGoverned`, `OwnQuestionOnce`; `ExtraCopyNeedsRace`, `ReplayedWasPublished`; `ErasureExact`; `RoomConsistent`, `SettledIsFinal`; `DeliveryOwed`, `DispatchEnds` |

The components of MCGateway, like those of MCControlPlane, share no state that is modelled;
a behaviour exercises one of them (`focus`).

The properties of the last two runs are conjunctions, one per component, of parts with
names of their own, each stated where it is defined: `TextIsKept` is that lexing is
stable, that ClickHouse reads back a quoted literal, that the probes of a SEARCH are its
words and that a selector's value survives three rounds of escaping; `ParserIsGrammar`
that conditions group as the grammar says and that no sequence of clauses is read past
its end; `QueryIsConfined` the tenant, aliases called tenant_id apart, and the row cap;
`GrafanaKeepsRows` Loki's window, the agreement of its two paths and its streams, and
the order of a Prometheus matrix, one point per time unless the store has two series
that show the same labels (`labelsOf` leaves out empty attributes and lets an attribute
`service` or `environment` replace the column, which the SQL groups by);
`PromAnswersSamples` the parentheses and the latest sample; `AccessCurrent` the bounds
on retired keys, on good tokens refused and on revoked API keys; `CopilotGoverned`
opt-in, consent, masking and audit; `ErasureExact` that a completed request erased all
it asked for and nothing else; `RoomConsistent` one open session and handoffs without
gaps; `SettledIsFinal` resolved sessions, and the hours and resolution of published
reports (their type follows the incident's severity); `DeliveryOwed` repeats, omissions
and deleted endpoints. A type invariant is checked for Writer; those of the other
modules are parts of their proofs or stated for reference.

Violation runs, each refuting a sentence of the repository (quoted in
`PROJECT.json`, "findings"):

| Run | Refutes | Scenario |
|---|---|---|
| MCIngestSubjects | `>` captures every signal subject | the query API, started before the gateway, creates the stream for logs alone; started after it, it narrows the gateway's |
| MCReadSideForced | tenant filters are forced to the authenticated tenant | an item of the SELECT list called tenant_id stands in the guard for the column |
| MCReadSideRouting | an unknown selector never silently fires a channel | `level != 'info' OR ...`: the rest is the value, which differs |
| MCErasureByKey | erasure by `user_linkage_key` across logs, metrics and traces | the predicate names a column that logs and traces lack |
| MCLifecycleMoves | a cycle moves each aged partition | the snapshot's text carries two FORMAT clauses |

Other disagreements between text and code met on the way, without a run in the
suite. TLC shows those of the first two items when the named property is added
to the named cfg:

- `writer/src/main.rs:5` and `deploy/runbooks/scaling.md:39` call inserts idempotent;
  a redelivery that is batched with other records has another token and stores a
  record twice (`AtMostOneRow`, MCWriterCompeting).
- `incident.go:16` says repeated firings dedup; a rule that recovers resolves the
  service's incident while a sibling rule fires on, which then opens another
  (`RepeatedFiringDedups`, MCAlerterOneEngine with MaxFaults = 0 and Adjacent = {};
  with them, a failed upsert or a missed neighbour breaks it in fewer steps).
- `incident.go:31` says an incident pages exactly once; a crash or failed UPDATE
  between the page and `paged = true` pages again, and so does a second engine
  whose upsert came before the first one's mark. `PagedAtMostOnce` is what
  holds: an engine pages an incident once, and once more for each record of a page
  it lost. An anomaly, which has no channels, uses the page up without telling
  anybody.
- `copilot.go:252` says that flags omitted from a PUT keep their value; the read of
  the current ones ignores its error and is not in a transaction with the write, so
  a concurrent PUT or a failed read turns them back. It can only lose an opt-in or
  repeat an old one: `ConsentWasAsked` holds.
- `dlq.go:115` says a dropped event is not retried; a replay under way overwrites
  the status with replayed.
- `SECURITY.md:60` says every copilot call is audited; the INSERT is best effort
  (`AttemptAudited` excepts its failure), and `nl_query.go` calls the model without
  the gateway.
- `promql.go:123` says one bucket spans an instant query's lookback; buckets are
  aligned to the epoch, so a series may have two points, of which the last is the
  latest (`InstantEndsWithLatest`). `rate()` divides by the expression's range
  whatever the bucket holds, matchers that do not parse are dropped silently
  (`loki.go` refuses them), and `seriesKey` joins with `;` and `=`, so label values
  that contain them can merge two series.
- `evaluator.go:59` puts the condition into SQL as it is, there "validated at rule
  creation time", which nothing does. `routingsim.go:26` says the simulation mirrors the
  query compiler's order of levels; the alert it simulates does not use the compiler, so
  `level >= 'warn'` selects warn alone there (as text, error and fatal come before it),
  and warn, error and fatal in the simulation.
- `postmortem.go` calls a report published; its incident type is read from the
  incident at each export, so it changes with the severity after publication.
- The live tail and the query differ on `==` (an operator of the matcher only),
  levels in capitals, missing JSON paths and non-ASCII search words;
  `TailAgreesWithQuery` is about the inputs without these.
- `resource.*` fields compile on change_events, which has no such column.
- `SECURITY.md:48` calls revocation immediate; the gateway honours a cached key
  for up to `AUTH_CACHE_TTL` (and a lookup's length), which is what
  `RevocationBounded` states.
- `ratelimit.go:58` says the key self-expires; EXPIRE is a second round trip whose
  result is ignored, so a crash or error in between leaves the key for ever
  (`ExpireKey(r, FALSE)`, `Forget`). It admits no extra request: `CapPerWindow`.
- `main.rs:535` says the cap holds across replicas; stragglers can double it
  (`StragglersBounded`).
- `main.rs:443` says a trace is never partially sampled; `keep_span` keeps its
  error and slow spans alone.
- `incident-response.md:38` says failed batches land in `dlq_events`; nothing
  inserts into that table, and a record ClickHouse keeps refusing is redelivered
  until `max_age` drops it.

**Bounds.** Two or three messages are enough for a group of two, for the same
record in two groups, and for two tables of which one fails. `copies` saturates
at two, the properties ask for none, one or more. Two incidents are enough for
one to be closed and reopened while an engine holds the first; one fault is
enough to fall between any two statements. `MaxTime` lets a cache entry be
written, used, go stale and be replaced, and lets two rate-limit windows be
entered (`MaxInstant` is the cache's clock). Three requests per window against a limit of
one are enough for one on time, one straggler and one too many, and two replicas for two
of them at once. `MaxIncidents`, `MaxFaults`, `MaxTime`, `MaxInstant`, `MaxVersions` and
`MaxRequests` are bounds of the model, everything else a parameter of the code.
In MCReadSide `CardinalityWindow` and `maxLabelCardinality` (1) are the code's hour and
50 000, scaled down, so that `now` (6 or 12) puts the samples inside or outside the count.
There the alphabets hold one member of each class the code tells apart
(a quote, a backslash, a digit, a unit letter, another letter, a blank), and the
lengths are the shortest at which every production, nested once, and every mutant
shows. In MCControlPlane two callers are enough for every read-then-write race and
three operators for a replay between two others; one entry is enough for what
`RoomConsistent` says of each entry, since no step on one depends on another. A webhook
needs one failed attempt and one more, and an endpoint left when three units of time
are gone; a unit is longer than a backoff, which takes one or none of them, and a third of
the shared deadline, as is the client's timeout. `AccessTime`, `MaxFetch`, `RoomTime`,
`MaxSession`, `MaxVersion` and `MaxEntry` are bounds of the model; `JwksTTL`, `maxAttempts`
(3), `ClientTimeout` (10 s), `Deadline` (30 s) and `MaxRedirects` (net/http's 9 in one
attempt) are the code's, scaled down; `LinkageKey`, `From` and `Until` are the values a
request may name.

**Deadlock** is not checked: the bounded system may stop, with
every message acknowledged or expired (Writer, Ingest), the clock at its bound
(RateLimit, AuthCache), no further incident allowed (Alerter), every input looked at
(MCReadSide), every request answered (MCControlPlane).

**Fairness.** In MCControlPlane: a handler that has begun goes on, and a fetch of the
key set ends, by an answer, an error or the request's context; Go's RWMutex does not
starve a writer; so weak fairness of the steps of each request. The goroutine of a
dispatch goes on and every attempt and pause ends: weak fairness of `Deliver`.
Nobody is obliged to send a request, rotate a key or answer well.
In Writer: JetStream
redelivers an unacknowledged message after `ack_wait`: weak fairness of `AckWait`.
It passes no message over for ever, and ClickHouse accepts a block it does not
refuse in some attempt: strong fairness of fetching and of inserting each
message. A running worker takes its next step: weak fairness of `Work`. Nothing
obliges the stream to expire, a process to crash, an insert to fail or an ack to
be lost. Poisoned records are never inserted, so the fairness of `InsertOf`
presumes that every other record is at some time in a group without one: they are
in another table's group in the run.

## Proofs

`tlapm` checks every theorem of the eight `*Proofs` modules, for all values of the
constants that satisfy the modules' assumptions. The assumptions say that bounds
and lengths are natural numbers (those the code sets to a positive value are
positive), that replicas, operators and endpoints are finitely many where a
cardinality is taken, and that a record is in one of the three signal tables. Every
inductive invariant was checked by TLC on an instance of the size of the runs before
it was proved.

*WriterProofs.* `AckedIsStored` is not inductive: an ack is only as good as the
worker's knowledge, and an insert may be deduplicated away. The inductive
invariant adds

- `RememberedIsStored`: a record whose id is part of a remembered token is in the
  table. This is why a discarded block loses nothing; it survives the window's
  forgetting because rows are never removed;
- `InsertedIsStored`: as long as `allOk` holds, the groups no longer in `todo` are
  stored, and a worker in its ack loop has stored all of its batch;
- `HeldWasPublished` and `RowWasPublished`, which the refinement needs.

Theorems: `WriterTypeCorrect`, `WriterAckedIsStored`, `WriterTailedIsStored`, and
`WriterImplementsAtLeastOnce`, whose step case maps `Commit` to `Store` and `Ack` to
`Settle`, everything else to a stutter or the stream's own steps.
`WriterDuplicateNeedsRegrouping` has the hypothesis `NothingForgotten`, that no insert
pushes a token out of a table's window: without it a retry of the same group stores
it again, which is what the window's length is for. It adds `RowIsRemembered`: every row is
there because of a block whose token the table remembers.

*IngestProofs.* `IngestImplementsWriter`: a handler's step is `Publish` or leaves the
pipeline alone, so every behaviour of the composition is one of `Writer` and its
theorems carry over (`IngestImplementsAtLeastOnce`). `AcceptedIsDurable` needs one fact
more, that what a handler counts as accepted, before its response as well as in it,
has left the state `new` (`AcceptedWasPublished`); the writer's invariant does the rest.
`IngestLogsCaptured` is inductive with the types.

*AlerterProofs.* Engines act on what they read some statements ago, so the invariant
`AlerterInv` is about what they hold. `HeldIsMerged`: the incident in hand exists and its
confidence has not sunk below the one the upsert returned, because confidences are merged by
GREATEST; the gate's answer and the severity are therefore still safe when they are
written. `AnnouncedByOpener`: an incident that is to be announced has not been, and by one
engine only. A step on the table is a `RowStep` of each row. From it, for any number of
engines and faults: `AlerterOneOpen`, `AlerterPagedAboveGate`, `AlerterSeverity`,
`AlerterOpenedOnce`. `AlerterPagedAtMostOnce` has no hypothesis either: `Accounted` says
that what an engine sent of an incident is at most what it lost, plus one if the incident
is marked or the engine is about to mark it, and that one about to page has not sent more
than it lost (`ToPage`, `Delivered`). One result is about one engine (`OneEngine`), as
deployed outside a rollout, and false without it: `AlerterResolvedIsFinal` (the incident in
hand is open, `HeldIsOpen`). What holds in its place for any number of engines is
`AlerterEvidenceKept`: whatever an engine writes from what it read earlier, no incident is
lost, reopened or given another fingerprint, merged rules, confidence and page mark are
not forgotten, and those of a resolved one are final. It follows from the statements'
own WHERE and GREATEST, taken row by row (`Follows`), and needs no invariant; TLC agrees
when `EvidenceKept` is added to MCAlerterOverlap as a property.

*RateLimitProofs.* The counts say nothing about requests that have their number and no
answer yet, so the invariant counts these too: `OnTimeTotal` and `Total` add them to the
admitted ones. While a window lasts they are at most what the key counts, capped by the
limit (`OnTimeCapped`); after it the key may expire once and start again, and the second
key outlives every straggler because its TTL is set in the next window or later
(`AllCapped`). For any number of replicas, limit, window and delay shorter than a window:
`RateCapPerWindow`, `RateStragglersBounded`, `RateRetryAfter`.

*AccessProofs.* `CurrentAt(ks, t)`: a key set differs from the provider's only in keys
that changed, or were hidden by an error page, at `t` or later. It is stable under everything
the provider does, and is carried from the answer (`AnswerCurrent`) to the cache
(`CacheCurrent`) to the request that verifies with it (`VerifyCurrent`), losing at most
`MaxFetch` and then `JwksTTL`. `AccessStaysCurrent` covers any number of concurrent requests.

*HandlerProofs.* Five components without shared state, one invariant each.
`ErasureIsExact`: what a request asks for and has not been deleted is in the set of a
mutation to come, or in a table still to be reached (`AskedIsDue`), and mutations hold
only what was asked for. `RoomIsConsistent`, `SettledStaysFinal`: a handoff under way
has its entries or reads them later; rows change only while open, and the hours and
resolution of a published report depend on nothing that the engine still writes.
`CopilotIsGoverned`, `CopilotOwnQuestion`: the invariant follows a question from the
gate on (`GoodAsk`): the opt-in was seen, the conversation has no turn of the question
before it is stored, the prompt has it once and at its end (a lemma on
`BuildThreadPrompt`, whatever part of the history it replays), and masking changes no
other field. `DeliveriesAreOwed`: the endpoints in the queue of a dispatch are distinct,
the head has had no more requests, redirects apart, than attempts to be repeated, the
others none, and what was loaded is what was tried and what is queued; that the rows of
`loadEndpoints` in any order are all of them is the pigeonhole principle.

*DeadLetters, in HandlerProofs.* Neither property is inductive: the number of copies says
nothing about the replays that have read the row and not published yet. The
invariant counts them. `CopiesAccounted`: the copies and the replays about to
publish are at most the overlaps and failed UPDATEs, plus one if the row has been
taken (it is no longer pending, or a replay is under way). `AttemptsPublished`: the
attempts and the replays about to count one are at most the copies. The steps need
only that coming to a step or leaving it changes a cardinality by one. For any finite
set of operators: `DlqExtraCopyNeedsRace`, `DlqReplayedWasPublished`.

*AuthCacheProofs.* The invariant says of every row in flight, in a cache or
granted that it was current, and its key active, when it was read
(`RowWasCurrent`, stable because versions and revocations only move forward),
that a lookup is at most `MaxLookup` old and an entry's `read` at most `MaxLookup`
before its `at`. A grant within the TTL of `at` is then within TTL + `MaxLookup` of
anything that superseded it: `AuthRevocationBounded`,
`AuthConfigStalenessBounded`.

*ReadSideProofs.* The surfaces that fold or loop over rows, for any finite set of
them. Induction is over the set of numbers a claim holds of (`Induct`), a set is listed in an
order by counting what lies below each member (`Listed`, `SortedBy`).
`RadiusIsExact`: the loop over the stack is followed turn by turn (`TurnKeeps`). What has
been seen reaches the service, and who is seen and no longer on the stack has all its
callers seen (`GoodWalk`). Turns plus stack height are one more than the services seen
(`WalkIsGood`), so the loop ends, with exactly those that reach the service.
`FeedShowsLatest`: the latest n of a union are among the latest n of its parts, a stable
sort keeps a permutation, and the last n of a sorted sequence are the latest
(`NewestRows`, `StableSorted`, `LastAreLatest`).
`PromIsExact`: stripping is correct because the depth of a text goes by one step per
character (`DepthStep`, `DepthInside`); an instant answer ends with the latest sample
because a window as long as the bucket meets at most two buckets (`TwoIntervals`), of
which the later one is the last row of its series (`BucketsSorted`, `SeriesPoints`).
`GuardConfines` is about every condition, and about the SELECT lists that leave the name
tenant_id to the column (`Unshadowed`): for any set of syntax trees and the function
that compiles each node from its operands (`CompilesTo`, which `compileExpr` does), a
compiled condition closes every parenthesis it opens (`CompiledIsClosed`, by induction on
the height of the tree). In `tenant_id = T AND ( ... )` no other AND or OR is then outside
all parentheses (`GuardIsOutermost`), so that any reading of conditions which takes them
apart as ClickHouse does (`ReadsAs`) makes the row the tenant's, and leaves the user's
condition as it was.

Only model-checked: the liveness properties `OfferedIsStored`, `EveryRequestAnswered` and
`DispatchEnds` (fairness is out of the prover's reach), and of the read side
`TextIsKept`, `ParserIsGrammar`, `TailAgreesWithQuery`, `GrafanaKeepsRows` and
`SimulationIsConservative`: lexer, parser, matcher and the evaluation of a reference
condition are RECURSIVE operators, which the prover does not take. `QueryIsConfined` is
checked with these operators; its core, the guard, is `GuardConfines`, stated about
every solution of their equations. The violation runs have nothing to prove.

## Not modelled

Wire formats, remap programs and ingest masking, SQL text beyond its predicates and
literals, floating-point scores, HTTP details; clock skew between replicas (each model
has one clock, the Loki window excepted); JetStream's and ClickHouse's own failures
beyond refusing, losing a response and forgetting tokens. In the Writer rows are
never removed: its claims that a record "is in its table" are about having been
stored. Aliases that the expression of another alias names in turn are not followed.
ChatOps, of which the signature is cryptography and the rest one lookup and read-only
queries, is not modelled. LIMIT 1000 of the Loki
DISTINCT queries lies above the inputs. The regular expressions that take a PromQL
expression apart, deploy and change-source inserts, RCA ranking, billing, forecasts,
dashboards (whose share token is read and then written, without a lock), preferences,
the OpenAPI splitter, migration, seed and command-line programs are left out: single
statements, arithmetic over query results, or wiring.

## Plan

1. Composition of Erasure and DeadLetters with Writer's stream in one run.
2. Further pure algorithms: the PII gate and masking order, remap interpretation,
   billing tiers, retention cost, RCA ranking, calibration.
3. Proofs: that `Lifecycle` plans only aged partitions of its own snapshot; the window
   arithmetic of Loki, in a module without recursion.
