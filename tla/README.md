# Verification of the Opportunity Platform backend

TLA+ models of the backend (`src/backend/app` and the purge script): its
concurrent and failure-prone parts as state machines, its scoring and decision
algorithms as operators, model-checked with TLC, and machine-checked proofs of
the guarantees of digest delivery and its periods, Telegram linking, collection,
alerting, condition checks, entities and analysis, the scoring of opportunities, topics,
the purge of demo data, and the login limiters.
Every definition names the lines it models in `PROJECT.json` ("map"); paths below
are relative to `backend/app` unless they start with `docs/`.

## 1. The system

A FastAPI process, Celery workers, one `celery beat`, PostgreSQL, Redis (broker
and rate limiter), a set of public data sources, and Telegram as the one remote
notification channel. Every night `ois.run_nightly_pipeline` runs three phases
in order: **collect** the sources, **monitor** (check conditions, detect
changes, dispatch alerts), **digest** (write and deliver the summaries).

| Part | State it keeps | Operations | What is hard | What makes it correct |
|---|---|---|---|---|
| Digest phase (`workers/tasks.py`, `services/alerts.py`) | `digests`, `alert_deliveries` | generate a period, deliver it, retry the failed periods | overlapping runs, kills between commit and send, lost responses, retries past midnight | one digest per user and period; at most one message; nothing owed is forgotten |
| Alert dispatch (`services/alerts.py`) | `alert_deliveries`, `alert_rules.last_fired_at` | evaluate a rule, deliver an event | messages sent inside an open transaction, savepoints, stale cooldown | no duplicate without a rollback; cooldown; fired means told; no silent loss |
| Monitoring (`services/monitoring.py`) | conditions, change events | check conditions, detect changes, look back | check and event in one transaction, an unlocked administrator run, rescoring replaces conditions | met is announced, and once |
| Collection (`services/ingestion.py`, `sources/`) | `source_runs`, `raw_records`, `http_cache_entries`, source counters | run a source, reap stale runs | no lock at all: unique indexes decide; a refused flush poisons the session; ETags of dropped content | stored once; records have runs; a night is complete before monitoring |
| Source HTTP client and limiter (`sources/http.py`, `core/ratelimit.py`) | ETags, windows | conditional GET, allow/deny | limits reached half way | what is cached has been stored |
| Schedule and locks (`workers/schedule.py`, `workers/locks.py`) | advisory locks | due frequencies, try-lock | locks end with the transaction, exist on PostgreSQL only | mutual exclusion where it matters, harmless where it is missing |
| Notification providers (`notifications/`) | – | send | the answer and the arrival may differ | the stored status does not promise what did not happen |
| Telegram linking (`api/v1/telegram.py`, `api/v1/me.py`) | link codes, chats | issue, claim, unlink | claims racing, codes expiring, redelivered updates | a chat has one account, a code is used once |
| Trends (`services/trends.py`, `analytics/growth.py`, `trend_scoring.py`) | trends, snapshots | aggregate the series, score, upsert | select-then-insert without an index that refuses, bursts, peaks that only rise | one row per subject; a burst is no trend; no history is lost |
| Opportunities (`services/opportunities.py`, `analytics/`) | opportunities, snapshots, conditions | gate, analyse, score, risk, skeptic, upsert | select-then-insert, replaced children, many thresholds that must agree | no lost analysis; worse never helps; strong needs use |
| Change detection (`services/monitoring.py`) | change events | compare with the snapshots | rows read before, snapshots read later | recorded changes happened |
| Entities (`services/entities.py`, `api/v1/trends.py`) | entities, aliases, candidates, signals | resolve, create, rule, merge | overlapping requests, cascades, chains of merges | names stay together; no reference to a row that is gone |
| Topics (`services/topics.py`) | topics, members | cluster, rebuild | joining in two ways, members that never leave | topics are the chains of shared words |
| Countries (`services/countries.py`, `analytics/geographic.py`) | facts, readings | coverage, gap, localisation | absence of data is not a low value | a market that grows never looks emptier |
| Profiles and relevance (`services/profiles.py`, `analytics/relevance.py`) | profiles, relevance rows | convert, score, explain | the best of several weighted paths | refusing never helps, gaining never hurts |
| Login limiters (`core/ratelimit.py`) | windows | allow, retry after | two implementations of one promise | no window holds more than the limit |
| Purge of demo data (`scripts/purge_demo_data.py`) | – | plan, refuse, delete | order of deletion against foreign keys, writes of others between plan and deletion | exactly the demo evidence goes |
| AI reports (`ai/`) | model runs | prompt, ground, store | little: text in, text out | claims are grounded |
| Accounts (`api/deps.py`, `api/v1/auth.py`) | – (tokens are stateless) | login, refresh | little | – |
| Read-only API, schemas, frontend, other scripts, migrations | – | queries, rendering, operator tools | little | – |

How they interact: the phases of the night share one process and are called one
after the other; the phases and the API share only the database. Locks are
`pg_try_advisory_xact_lock` on `ois.monitoring` and on `ois.digests:<period>`;
collection has none. Retries and manual runs go through the broker:
`ois.run_source` with late acknowledgement (redelivered when the worker is
lost), the notification tasks with early acknowledgement (never redelivered).
Evaluation, generation and rulings on entities are requests of administrators,
one transaction each, that overlap with one another and with the night.

## 2. The modules

| Module | Models |
|---|---|
| `DigestDelivery` | what delivery promises, abstractly: a record, a hand-over, a settlement per (user, period) |
| `DigestPhase` | the digest phase over several workers, and its properties; implements `DigestDelivery` |
| `DigestPhaseProofs` | the theorems about `DigestPhase` |
| `AlertDispatch` | condition checks, change events, rules and alerts |
| `AlertDispatchProofs` | the theorems about `AlertDispatch` |
| `Collection` | runs of sources, raw records, cache entries, counters, the collecting part of the night |
| `CollectionProofs` | the theorems about `Collection` |
| `TelegramLink` | link codes, chats, the webhook's claim, and the delivery loop that reads addresses early |
| `TelegramLinkProofs` | the theorems about `TelegramLink` |
| `Entities` | resolution of names, candidates, rulings, merges, as overlapping transactions |
| `Analysis` | evaluation, generation and monitor passes on the same tables; extends `Entities`, uses `TrendScoring` and `Assessment` |
| `AnalysisProofs` | the theorems about `Entities` and `Analysis` |
| `Periods` | the periods of digests as the hours pass |
| `Conditions` | one check of a condition as readings arrive |
| `RateLimiter` | the two login limiters |
| `Clusters` | how entities are grouped into topics, loop by loop |
| `AlgorithmsProofs` | the theorems about these four |
| `TrendEvidence`, `Growth`, `TrendScoring` | from observations to the measurements, the score, the stage and the state of a trend |
| `Analyzers`, `OpportunityScoring`, `Assessment` | the four analyzers; gate, score and confidence; risk, skeptic, and the assessment that combines them with the trend |
| `Candidates`, `CandidatesProofs` | one candidate, judged by `Assessment` now and then while the news about it gets worse, and the theorems about it |
| `Relevance` | how far an opportunity fits a profile, with currency conversion |
| `Geography` | facts, coverage, gaps between markets, localisation candidates |
| `Purge`, `PurgeProofs` | one run of the purge of demo data while others write, and the theorems about it |
| `MCKnowledge` | `Analysis` with small tables; `MCAlgorithms`: the algorithms on inputs that change step by step |
| `MC*` | values for TLC: sets of model values, symmetry, restricted initial states |

### DigestPhase

A worker's `pc` follows the code: `begin` (between periods), `generate` (in the
period's transaction, lock held), `commit` (rows flushed, not committed),
`select`, `each`, `insert`, `send`, `settle` (delivery, one transaction per
record). `digests`, `record`, `inbox` are the committed digest rows, the
committed delivery records and the messages users received; `queue` holds the
retry messages, which carry their periods.

* `Generate` runs every user who asks for the frequency in a savepoint of
  their own; any subset may fail. `Waits` is the unique index of PostgreSQL: an insert
  waits for an uncommitted one of the same key.
* `Insert` commits the pending record *before* the send; the unique index lets
  one worker through.
* `Outcomes` are the answers a provider gives. A lost response is a message that
  arrived and is stored as `suppressed`.
* `Abandon` is a database error on one record: the rollback expires the rows in
  hand, and the rest of the period's loop fails with it.
* `Killed` is a process that dies or a `SoftTimeLimitExceeded`; `lost` remembers
  the periods it had, which nothing in the code brings back.
* `RetryMessage`, `Exhausted`, `GiveUp`: the pipeline delegates with a fresh
  retry count, the task retries itself up to `DIGEST_MAX_RETRIES`.

The sections of a digest, its wording and its evidence are left out. A user can
switch digests off and unlink a chat at any time; switching on again, or to the other frequency, is left
out, it would only add users to a later period. Rows are delivered in any
order, where the code takes the oldest binding first.

### AlertDispatch

One opportunity stands for all. `condition` is the stored state of its
condition, `holds` the measurements behind it, `moved` that the last two score
snapshots differ enough for an event. A run is one transaction: `check` (reads
the condition, evaluates it), `flush` (writes condition and events, takes the
row lock of the condition), `load` (events of the look-back and the rules with
their cooldowns), `rules`/`deliver` (a savepoint per rule, a message inside it).
`undone` collects the messages whose rows a rollback took away, which is what
sending inside a transaction costs. `Rescore` deletes the conditions and
creates them as pending, as `_upsert` does. Scheduled runs hold the advisory
lock, administrators do not, and look back one minute (no hour of the model).

A check reads the row without locking it and writes its verdict later, and the
ORM writes the state only if it differs from what was `loaded`: `Verdicts` says
what the row may hold after a commit. So a run without the lock that evaluated
before a rise can write over the MET of a run that saw it. `undercut` remembers
the rises this happened to, and `MetOnce` excuses exactly those: among runs that
hold the lock a rise is announced once.

### Collection

`Collect` is the fetch of one source: which request stops the run, whether that
was a limit, and which items fail are chosen freely. `Lookup` and `Insert` are
`_store_raw` for the batch of the run; the loop of the code does them record by
record. The batch is sound for what is checked: an insert waits for
an uncommitted insert of the same content and is refused by a committed one, so
the first record that is refused ends the run whatever came before it, and
nothing of it is committed. The cache lookups sit next to the insert, flush and
commit of the run's end are one step, for the same reason. `Commit` writes the
counters of the source as the run loaded them: an attribute that does not
change is not written, which is what makes them stale (`After`). `Break` is a
refused flush: nobody rolls the session back, so the night ends in the next
`session.commit()`. Any other exception in the storing loop would leave the session
usable, and `_run_all` would commit the half run as `running`; no item that an
adapter builds raises one, and there is no such step.

### TelegramLink

A row of `notification_channel_links` is named by the code it was issued with.
The webhook is `Receive` (the clock is read), `Claim` (the conditional UPDATE,
which waits for a row or an index entry another request holds uncommitted),
`Commit`, `Answer`; `Crash` ends a request anywhere, and Telegram repeats what
was not answered, perhaps to two processes. `Select` and `Deliver` are the
delivery loops, which use addresses read earlier. A waiting claim is one that
has not started: what it would lock meanwhile only delays others.

### Entities and Analysis

A request is one database transaction. It reads in one or two steps and keeps
what it read in `requests[r].seen`; its last step writes and commits, or fails.
What the code reads once and uses later is taken from `seen`; what a constraint
of the tables decides at the commit is decided on the tables as they are then
(`CollectConflicts`, `DecideConflicts`, `EvaluateConflicts`, ...), which is
exactly where other requests come between. An update writes the columns that
differ from what was read (`Updated`), as the ORM does: that is how two
rescorings lose one another's history. A merge locks the rows it has moved
until it commits (`Gathered`); deleting the duplicate takes its trends and their
opportunities along (`Cascade`), or is refused by the link of an opportunity to
its entity, depending on which of two triggers comes first (`LinkRefuses`).
`overlap` is a history variable: which kinds of requests were under way together.

All entities are of one type; subjects are entities, not topics; an opportunity
has one type and market. A trend is found by its subject; the code looks for
`geo_scope` and `analysis_mode` as well, so a subject whose representative signal changes
its scope gets another row, which the model does not have. `FindSimilar` suggests three
entities at most in the code, and there are no more than three names here. Scores are computed by the modules of the algorithms,
from measurements that are chosen freely.

### Periods, Conditions, RateLimiter

Three small machines around a calculation each, which `MCAlgorithms` runs as parts of
its own. `Periods` counts UTC hours;
local days are numbers, and `Offset` and `NewYear` say where the clocks change and
the years begin. `Run` is the nightly pipeline, which fixes `now` when it starts;
beat and `digest_period` use the same timezone, so there is one run per local day
as long as beat and a worker are up. That is an assumption of `HourPasses`: a night
without a run, or a task that waits in the broker past midnight, leaves a period out,
and nothing in the code looks for it.

`Conditions` stores readings in any order and checks one condition. `ObservationsFor`
is a set of possible results, because the query orders by time alone and the database
may return readings of one instant in any order, the last of which the limit cuts.

`RateLimiter` makes every attempt at both limiters. Seconds are whole; hits of one
second are told apart by a number.

### The algorithms

They are operators over records of integers (percentages, hundredths of points,
days, cents), named as the functions they translate. Rounding to two digits is
left out where a factor is an exact fraction, and thresholds are compared before
rounding. Wording, reasons and warnings are left out; every branch that decides
a number or a verdict is there, including those that raise (`StageFails`,
`CapitalFails`). `MCAlgorithms` puts them to work: each behaviour takes one part
and lets its input change the way it changes in use, so that most properties
compare the result before and after a step.

### Candidates

A machine around the whole chain from `InputOf` to `NextState`. `Judge` is what
`generate_opportunities` does with one candidate: `evaluate_one`, and `_upsert` unless
the candidate is refused. Between two analyses any number of entries of the context may
change (`GetsWorse`), each to something that is no better: `MoreIsWorse` and `LessIsWorse` name
the numbers, `Scales` the words that have an order, `Alarming` those that are bad whatever
was said before. What is bad news is the reading of this project, not of the code, which
has no such notion; it is what makes `WorseNeverHelps` say something. Left out of it are
entries of which the code only asks whether they are there, and the age of a price: a
stale price is no price, and an extreme valuation is forgotten with it. Trend and facts stay
as they are, so that a change of the verdict is due to the news; entries are neither added
nor withdrawn, because an entry that is unknown earns points in places (section 5).

### Clusters and Purge

`Clusters` follows the loops of `build_clusters`: groups of a shared word that overlap
by half are merged until none do, then each group, and then each pair that is often seen
together and shares a distinctive word, is joined in the union-find. `classes` are the
classes of the union-find; which of two roots wins is left out. The code sorts groups
and pairs; here they may come in any order, so that the theorem does not
depend on the sorting. Words are the tokens that are left after the stop words.

`Purge` takes a database as a function of rows with references. One run reads the plan
(`Plan`), the sources (`Classify`), the trends (`Resolve`), executes the statements of
the script in their order (`Execute`), each with the subqueries as they are by then, and
compares the counts (`Compare`), of the three tables with what
people wrote; the code compares seven more, and refuses more often. A deletion takes along what cascades (`Gone`) and is
refused when anything else still refers to a row that goes (`Violates`). The run is one
transaction, of PostgreSQL's default isolation: `db` is what it sees, `committed` the same
database without its own changes, and others may `Write` and `Explain` between any two
steps, as far as the rows they touch are there and not locked. `Fits` says which rows the
foreign keys and `ingestion.py` admit. `build_plan` reads in many
queries, which is one step here.

## 3. The runs

| Run | Module, cfg | Checks | Shows |
|---|---|---|---|
| `digest_phase` | `MCDigestPhase`, `MCDigestPhase.cfg` | `OneDigestPerPeriod`, `AtMostOneMessage`, `NoUnrecordedMessage`, `SentArrived`, `RecordsAreFinal` | Two worker processes run the digest phase of one night against each other, with retries, kills, lost responses, two chats per user and users who change their mind: the digests, the delivery records and the messages stay consistent. |
| `digest_no_lock` | `MCDigestPhase`, `MCDigestNoLock.cfg` | `ImplementsDelivery`, `EveryPeriodResolved` | Where the database has no advisory locks the phase still implements the abstract delivery specification, and every owed period is settled in the end. |
| `digest_nights` | `MCDigestPhase`, `MCDigestNights.cfg` | `NothingForgotten` | Over two nights with a run by hand, a retry that runs in the next night still writes the period it was given, a period skipped at a lock is in the hands of its holder, and no owed daily or weekly period is forgotten. |
| `digest_isolation` | `MCDigestPhase`, `MCDigestIsolation.cfg` | `EachUserIsolated` | *Counterexample.* A database error on one delivery row leaves the rows of other users unread, although every user is said to be isolated. |
| `alert_dispatch` | `MCAlertDispatch`, `MCAlertDispatch.cfg` | `NoDuplicateWithoutRollback`, `CooldownRespected`, `FiredMeansTold`, `NoSilentLoss`, `MetIsAnnounced`, `MetOnce` | Two workers and an administrator without the lock monitor and alert at the same time, with rescorings, failing rules and aborted runs: events, alert rows, messages and cooldowns stay consistent, and the scheduled runs announce a rise once unless the administrator writes an older verdict over theirs. |
| `collection` | `MCCollection`, `MCCollection.cfg` | `TypeOK`, `StoredOnce`, `RecordsHaveRuns`, `NightComplete`, `ErrorDeserved` | A night, an administrator and an operator collect the same sources at the same time, with partial failures, refused flushes, retries and kills: records are stored once, belong to a run on record, and monitoring only follows a complete collection. |
| `collect_isolation` | `MCCollection`, `MCCollectIsolation.cfg` | `SourcesIsolated` | *Counterexample.* A record that another run commits first makes a flush fail, and the night ends with sources still to collect. |
| `telegram_link` | `MCTelegramLink`, `MCTelegramLink.cfg` | `TypeOK`, `OneAccountPerChat`, `CodeBindsOnce`, `OkMeansBound`, `HeardOnlyByOwner`, `BacklogDrains` | Two processes execute the webhook for codes of two accounts sent into three chats, with updates delivered twice, crashes, codes that expire, chats that are unlinked and rebound, and a worker that delivers meanwhile: a chat has one account, a code binds once, messages only reach their owner, and Telegram's backlog drains. |
| `knowledge` | `MCKnowledge`, `MCKnowledge.cfg` | `TypeOK`, `HistoryIsKept`, `NamesStayTogether`, `EventsAreMoves` | Any three requests among collections, rulings of an administrator, evaluations, generations and monitor passes overlap on shared tables: references stay whole, no history is lost without two evaluations or generations at once, names stay with their entity, and recorded changes are the ones that happened. |
| `trend_identity` | `MCKnowledge`, `MCTrendIdentity.cfg` | `OneRowPerSubject` | *Counterexample.* Two evaluations at once give a subject two trend rows, because the unique index contains columns that are NULL; every later evaluation fails. |
| `rulings_kept` | `MCKnowledge`, `MCRulingsKept.cfg` | `RulingsAreKept` | *Counterexample.* Two administrators rule on one candidate and the second overwrites the first; a merge deletes the rulings that point at the duplicate. |
| `algorithms` | `MCAlgorithms`, `MCAlgorithms.cfg` | `BurstsAreHeld`, `StrongNeedsUse`, `TopicsAreChains`, `PurgeIsExact`, `ReportedInFull`, `WindowsHold`, `WorseNeverHelps`, `ProfileIsMonotone`, `ClimbingNeverOpens`, `PeriodsTile`, `NewReadingMonotone` | The pure algorithms on inputs that grow and change step by step (scores and stages of trends, relevance, market gaps), each against a reference definition or a monotonicity that several of its functions must share; and six machines: candidates that are judged while the news gets worse, the periods of digests as the hours pass, condition checks as readings arrive, the two login limiters side by side, the grouping of names into topics, and the purge of demo data while others write. |

Deadlock checking is off in the runs whose bounds make the system stop (no more
nights, runs or messages), which is every run here.

### Bounds, and why they are enough

* `digest_phase`: two workers, one night, one manual run, one retry, two users,
  two chats of one of them. Two workers are the fewest that overlap and every
  property is about a pair of runs or a pair of rows; a third run is there as
  the retry. The user without chats exercises generation only.
* `digest_no_lock`: as above without advisory locks, one user, without symmetry
  because liveness is checked.
* `digest_nights`: two nights with a weekly night, so that a retry may run in
  the night after its own, and a run by hand, so that runs meet at the lock of a period
  and one skips it. The user has no chat: what is owed is the digest, and its
  delivery is in the other runs.
* `alert_dispatch`: two workers and an administrator, three runs, one rise, one
  rescoring, a clock of 0, 12, 24 hours with a cooldown of 24 and a look-back of
  26. One rule that wants the condition, on Telegram too; with `EventLimit` 1 a
  score event takes the place of its event. Two runs make a duplicate or an
  overlap, the third is the administrator's between them. What one rule takes
  from another is nothing but the savepoint, and the proofs are for any number
  of rules. The type invariant is not among the properties of the run, it is
  proved; so are those of `DigestPhase` and `RateLimiter`.
* `collection`: two sources, two items of one request, two workers, three runs,
  one night, one administrator, one order with one retry; one page that changes
  once; at most one record per run, so that truncation happens; a failure limit
  of 2 in place of the code's 5, so that three runs reach it.
* `knowledge`: three requests of any of the five kinds, on empty tables, on tables
  with two names and a candidate to rule on, and on tables that were analysed
  before; four mentions of three names over two sources and one identifier. Two
  requests are a race, the third lets a race follow what another committed, such
  as a merge between two collections. Two measurements of a trend (strong, weak)
  and three judgements of an opportunity (good, much worse, refused) move scores
  by more than the event threshold, and below it.
* `algorithms`: six reports of two publishers, one of them missing; candidates of
  four types, used or only talked about, whose four or five circumstances get worse in
  any order with analyses in between, on either side of the thresholds of the analyzers,
  penalties and bands, from a best case that reaches the highest state; profiles with
  one thing gained or refused after another; three markets with six steps;
  four names over two words, with no pair seen together or two; a database of
  sixteen or seventeen rows that grows to eighteen, with trends explained, before, between
  or after any of the steps of the purge. Each is large enough
  that both sides of every threshold the property is about are met, which its
  mutant shows.
  The machines: thirty days with two clock changes and two ends of a year, the weekly
  digest due on a Wednesday. Every week of the run sees daily and weekly periods
  follow one another; the theorem is for any of these.
  Three signals, one of them of another type; two values on either
  side of the threshold, and none; four readings over three days, three of which
  are read, so that the limit cuts; a window of one day, so that readings leave it.
  Two attempts in three seconds are allowed, six are made, with
  waits from nothing to longer than the window, so that windows begin anywhere.
* `telegram_link`: two accounts with a code each, two direct chats and a group,
  two processes, two commands, one crash, one delivery, a code that expires after
  a tick: enough for a race for a code, a race for a chat, and a chat that changes
  its account under a delivery.
* The violation runs use the smallest instance that shows the disagreement.

### Fairness

Two runs have a liveness property. In `digest_no_lock` `Fairness` is weak fairness of
every worker's own steps and of taking a queued retry: Celery gives a running
task the processor and an idle worker the next message. Nothing makes beat
fire, an operator call, a step fail or a worker die, and nothing stops them, so
the property must hold under every pattern of failures. In `telegram_link` it is
weak fairness of every request's own steps and of the reception of each update
that was not answered; crashes are bounded, as is what users send.

## 4. The proofs

`DigestPhaseProofs` proves for any sets of users, workers and chats, any number
of nights and retries, with and without advisory locks; `TelegramLinkProofs`
for any sets of accounts, codes, chats and processes and any number of updates,
crashes and deliveries; `CollectionProofs` for any sets of sources and workers,
any number of requests, items, versions, runs, nights and orders;
`AlertDispatchProofs` for any sets of users, rules and runs, any triggers, and
any hours, limits and numbers of changes; `AnalysisProofs` for any requests,
mentions, measurements, judgements and verdicts, starting with empty tables;
`AlgorithmsProofs` for any offsets, years, weekday and number of days, for any
condition, signals, limit and number of readings, and for any limit, window, waits and
number of attempts, and for any finite set of entities, any words of their
names, any pairs that are seen together and any order of joining; `CandidatesProofs` for any
candidates of any type, with any finite set of facts and any entries of the context, and for any
news; and `PurgeProofs` for any databases that the foreign keys accept, any rows and explanations that others add,
and any number of them:

* `TypeCorrect`: Every variable of the digest phase keeps its type, for any users, workers, nights and retries.
* `DigestWrittenOnce` (`OneDigestPerPeriod`): With or without advisory locks, no user ever has two digests of the same period.
* `SendingInvariant`: A worker that sends or settles owns the pending record of its message, nobody else does, and no message arrived without a record.
* `MessageAtMostOnce` (`AtMostOneMessage`): The message of a period reaches a user at most once, over all retries, kills, lost responses and concurrent runs.
* `SentMeansArrived` (`SentArrived`): A record says sent only if the message arrived.
* `RecordsWrittenOnce` (`RecordsAreFinal`): A delivery record is created pending and settled once; a settled record never changes.
* `WrittenInvariant`: Only committed digests are selected, recorded and sent.
* `MessageAccounted` (`NoUnrecordedMessage`): A message that arrived has a digest and a delivery record.
* `NoPeriodForgotten` (`NothingForgotten`): An owed period is written, in somebody's hands, reported or lost with a killed worker, over any number of nights, skips and retries.
* `DeliveryImplemented` (`ImplementsDelivery`): The digest phase implements the abstract delivery specification DigestDelivery.
* `LinkTypes` (`TypeOK`): Every variable of the linking keeps its type, and a row has a chat exactly while it is verified.
* `ChatHasOneAccount` (`OneAccountPerChat`): However many claims race, a chat is bound to one account.
* `CodeIsUsedOnce` (`CodeBindsOnce`): A code binds one chat in its whole life, over repeated updates, crashes and unlinking.
* `OkIsTrue` (`OkMeansBound`): An update is answered "Linked" only if its binding was committed.
* `OnlyOwnersHear` (`HeardOnlyByOwner`): Messages only reach direct chats that have sent a code of the message's user, also when links change during a delivery.
* `CollectionTypes` (`TypeOK`): Every variable of the collection keeps its type; no failure counter passes the number of runs.
* `ContentStoredOnce` (`StoredOnce`): However many runs of a source overlap, the same content is stored once.
* `RecordHasRun` (`RecordsHaveRuns`): Every stored record has a run on record that did not fail, whatever is refused or killed half way.
* `NightsAreComplete` (`NightComplete`): A night goes on to monitoring only with a run on record for every source.
* `ErrorIsDeserved` (`ErrorDeserved`): A source is in error only with as many failed runs on record as the limit says, although runs count on stale values.
* `AlertTypes`: Every variable of monitoring and alerting keeps its type, and a run under way has a number.
* `CooldownKept` (`CooldownRespected`): Two runs that alerted on a rule are at least its cooldown apart, runs without the lock included.
* `SilenceIsTold` (`FiredMeansTold`): The time a rule last fired is the time of an alert on record.
* `MessageSentOnce` (`NoDuplicateWithoutRollback`): A message about an event arrives a second time only if the rows of the first were rolled back.
* `NothingLostSilently` (`NoSilentLoss`): Every stored event reached every rule that asks for its kind, or a committed run let it go for a reason.
* `TurnsAreAnnounced` (`MetIsAnnounced`): A stored condition turns to MET only in the step that stores an event saying so.
* `RiseAnnouncedOnce` (`MetOnce`): The scheduled runs announce a rise once under a scoring, unless a run without the lock wrote an older verdict over theirs.
* `AnalysisInvariant`: The tables are whole and what every request under way has read of them still means something, for any requests, mentions, measurements and judgements.
* `AnalysisTypes` (`TypeOK`): No row refers to a row that is gone, over any overlap of collections, rulings, merges, evaluations and generations.
* `HistoryStays` (`HistoryIsKept`): Without two evaluations or two generations at once, there is one row per subject, its score is that of its last snapshot and its peak the highest of all, whatever else overlaps.
* `NamesRemainTogether` (`NamesStayTogether`): Names taken for one thing stay together, a known name stays known unless a merge overlaps a collection, and observations stay with their name.
* `RecordedMovesHappened` (`EventsAreMoves`): Unless a generation overlaps a pass or another generation, the changes a pass records are exactly the last moves of the scores between snapshots.
* `PeriodsInvariant`: What is reported are the periods of the days so far, and all that was due, for any offsets, new years and weekday.
* `EverythingReported` (`ReportedInFull`): No hour is reported twice and none is left out, for any changes of the clocks that keep the midnights in order, any lengths of years and any weekday of the weekly digest.
* `PeriodsAlwaysTile` (`PeriodsTile`): The period that is reported follows the clock without a gap, and its key is new when it changes.
* `MeasuredInvariant`: The readings are finitely many, one for each signal and time, none of a day to come.
* `ReadingsAreMonotone` (`NewReadingMonotone`): A reading moves the verdict on a condition its own way, for every condition, limit of rows and order of arrival, whichever rows the database returns first.
* `LimiterInvariant`: The bucket accounts for every admission still in the window, and the key of Redis outlives what it let in, for any limit, window and attempts.
* `LimiterTypes`: The bucket of the limiter in memory never holds more than the limit.
* `WindowsAlwaysHold` (`WindowsHold`): Neither limiter lets more than the limit into any window, the one in Redis lets in nobody the other would not, and who waits as told is let in.
* `ClustersInvariant`: While topics are built, every group is made of whole words and every class of whole groups and pairs, classes are disjoint, and what is not joined yet is still to come, for any names, words and order of joining.
* `TopicsAreAlwaysChains` (`TopicsAreChains`): The topics are exactly the chains of shared distinctive words, for any names and words, any pairs that are seen together and any order in which groups and pairs are joined; no two clusters end up in one topic row.
* `CandidateIsAlwaysTyped`: Whatever is said of a candidate, it stays one that the analyzers and the score can read: numbers where they calculate, nothing known that is None.
* `StrongAlwaysNeedsUse` (`StrongNeedsUse`): No opportunity reaches the highest state without a fact of real use, for any facts, trends and contexts and whatever it was before.
* `CandidateInvariantHolds`: The last verdict was passed on a context that was nowhere worse than the one there is now.
* `WorseNeverEverHelps` (`WorseNeverHelps`): However many entries get worse, and however much, between two analyses, the second finds no higher score or confidence and no lower risk, and stores nothing that the first refused, for any candidate of any type.
* `PurgeInvariant`: The database of a purge under way is the committed one without what rests on a demo source or a trend of demo only, every key in it holds, and what a statement has deleted does not come back, for any database the foreign keys accept and whatever others write.
* `DemoIsRemovedExactly`: What a purge commits is the database without exactly the rows that rest on demo evidence; any other end changes nothing.
* `AloneIsAccepted`: PostgreSQL accepts the statements in their order and the counts agree, unless somebody writes between plan and commit.
* `WordsAlwaysStay`: No note or decision that was there at the plan is lost, unless a trend has become one of demo only since.
* `PurgeIsAlwaysExact` (`PurgeIsExact`): The three together, for every database and whatever rows others add or trends they explain, before, between and within the statements.

Assumptions: those that the modules state by name, which TLC evaluates in every
run. In the four modules of the night and the linking they say that the bounds are
naturals, that there is a user, a code, a chat, a source and a rule, that `None` is no
worker, chat or run, that direct chats are not groups and scheduled runs are not
administrators'. In `Entities` and `Analysis` `None` is no number and no row,
and scores are whole numbers. In `Periods` the midnights come in the order of the
days: no local date is skipped, as happens where a country moves across the date
line. In `Conditions` values are whole numbers and the limit of rows is not nought;
in `RateLimiter` neither is the limit or the window. In `Clusters` the entities are finitely
many, and the pairs are pairs of entities. In `Candidates` a candidate has one of the four
types and at least one fact, reliabilities are percentages, what is counted is a natural,
and the freshest fact has one of the four ages for which the model knows the exponential of
`score_confidence`; entries that the code calculates with are numbers, and an entry that is
there is not `None`. In `Purge` the first databases are sound: their rows have
the shape of rows, every reference leads to a row of the table the schema names, and a
record and an observation belong to one source, as `_store_raw` and
`_store_observation` write them. Without the last a record of a live source could hang
off a run of a demo source, and the script would delete it.

The argument. None of the properties is inductive as it stands.

* `OneDigestPerPeriod` needs what uncommitted rows may be: `WritingInv` adds
  that the rows staged by a worker are not committed by anybody, and that two
  workers at `commit` on one period have staged different users. `Generate`
  keeps it because `Waits` and `Refused` guard it, `Commit` because of it. The
  lock plays no part, which is why the theorem holds without it.
* `AtMostOneMessage` and `SentArrived` need who may send: `SendingInv` says that
  a worker at `send` or `settle` has a pending record under its key, that no two
  workers have the same key, and that nothing has arrived yet for a worker about
  to send. `Insert` establishes it from the unique index; nothing deletes or
  reopens a record.
* `NoUnrecordedMessage` adds `WrittenInv`: selected rows, the row in hand and
  recorded rows have a committed digest.
* `NothingForgotten`: a worker lets go of a period when it skips it, which is safe
  because the holder of a lock is writing it (`HolderInv`); when it commits, and
  then everybody who asked has a row or is among the failures (`AskedInv`); when it
  leaves a retry, which carries exactly its failures; or with a trace.
* `DeliveryImplemented` maps each step of a worker to a step of `DigestDelivery`
  or a stutter, under `SendingInv`; the refinement mapping is the identity on
  `record` and `inbox`.
* `OneAccountPerChat` needs what a claim holds between its UPDATE and its commit:
  `ClaimInv` says that its row is pending, that its chat is free, and that two
  such claims differ in both. `Claim` establishes it by waiting for the row and
  the index entry, `Commit` and `Unlink` keep it because others hold other rows.
* `CodeBindsOnce` and `OkMeansBound` need where bindings come from: `BoundInv`
  says that a code with a binding is verified or gone, which with `ClaimInv`
  keeps a pending code from having one. `HeardOnlyByOwner` adds `HeardInv`: an
  address that was read belongs to a binding of its user, present or past.
* `StoredOnce` rests on `UniqueInv`: what a run is about to commit is in no
  table and in no other transaction as far, which `Insert` establishes from the
  unique index. `RecordsHaveRuns` adds that a run with something to store has not
  failed (`KeepingInv`), `NightComplete` that every source a night has left
  behind has a run on record (`ProgressInv`).
* `ErrorDeserved` needs that a stale counter is never too high: `NumberInv` makes
  the runs on record distinct, and by `CountInv` every copy of a counter is at
  most the number of failed runs on record, so counting on from it stays below.
* In `AlertDispatch` one run at a time is past its flush (`HoldInv`), so nobody
  else touches what it read: `HandInv` keeps the rows in its hands outside their
  rule's cooldown and new to the table, and `StoreInv` makes the commit of such
  rows keep `CooldownRespected` and `FiredMeansTold`. `NoDuplicateWithoutRollback`
  adds that every message that counts has its row in the table or in those hands
  (`MessageInv`).
* `NoSilentLoss`: from `load` on a run answers for each of its own events, rule by
  rule: told, staged, in hand, still to come or let go (`AnswerInv`).
* `MetIsAnnounced`: a run whose verdict is new has the event (`VerdictInv`), and
  it is new to the table because runs have their own numbers (`NumberInv`).
* `MetOnce`: scheduled runs take turns (`TurnInv`); what they announced of the
  current rise shows in the condition unless the measure fell or the rise was
  undercut (`ShowsInv`), and a scheduled run that found the condition not met
  cannot take it back while the measure holds (`FallInv`). So a second
  announcement is of an undercut rise (`AgainInv`).

* In `Entities` and `Analysis` a request reads now and writes later, so the invariant
  is about what it has read: `SeenInv` says what still holds of it however many
  other requests commit in between (rows are deleted or changed, never reused),
  `GatheredInv` and `MergesInv` that a merge which has gathered its rows holds them
  and that two such merges have nothing in common, `TablesInv` that no row refers to one that is
  gone. Each commit either conflicts or finds its rows as the invariant says.
  `AnalysisInv` adds what trends, opportunities and their readers know.
* `HistoryIsKept` needs that the copy a request will write agrees with the row except
  for what only its own kind of request changes: while `overlap` has no two of a
  kind, the copy of the one evaluation (or generation) is the row itself or the row
  is gone.
* `NamesStayTogether` is a step property: an action moves all names of one entity or
  none, because a merge holds them all (`GatheredInv`), and the exception is
  exactly a name added while it holds them.
* `WindowsHold`: every admission still in a window has its hit in the bucket, in
  order (`Accounted`), so an admission with a free place is a window after the one
  `Limit` before. For Redis the key outlives what it let in (`Outlived`), and whoever was
  let in before it began to count is a window old (`Counted`). That the bucket has as many
  members as hits needs them to be told apart (`Numbered`).
* `ReportedInFull`: what is reported are exactly periods of days so far (`OnlyPast`), and
  those that were due on every day that had its run (`AllDue`). The periods of a
  frequency follow the midnights, strictly; between two of them lies a day on which the one
  before the second was due, because every week has the weekday. Keys differ
  because the ISO week of a Monday is decided by its Thursday.
* `NewReadingMonotone`: a way of reading the rows after a reading arrived is one from
  before, unchanged, with that reading, or with it in place of the oldest, and the
  other way round (`RowsBefore`, `RowsAfter`). In each case the latest row and the share
  that passes move the reading's way (`LatestMoves`, `Tallies`).

* `TopicsAreChains`: a set is whole if no closed set of names cuts it in two. Groups of a
  word are whole, merging and joining whole sets that meet gives whole sets
  (`WholeUnion`), so a class never outgrows a chain. In the other direction every
  word stays within one group or class (`CoverInv`), so at the end each class is closed.
  Classes stay disjoint, and a name of a topic that two clusters shared would be a word
  of both.
* `StrongNeedsUse`: without use `RealAdoption` is nought and its penalty is due. The other
  seven components are worth 8000 at most, so 6500 of the 7000 points are left
  (`UnusedScoresLow`). The components add up means over finite sets. Those are folds of
  the community modules, defined by a function that is chosen: that there is one is
  shown by the least number of members for which there is none (`FoldExists`, `FoldsAgree`),
  and from `SumStep` (one member more, whichever) follow `SumIsMonotone` and `SumIsBounded`
  in the same way.
* `WorseNeverHelps` compares two verdicts with any number of steps between them, so the
  invariant has to remember the first: `JudgedBefore` says that the last verdict was passed on
  some context than which the present one is nowhere better (`NotBetter`, which is
  reflexive and transitive). That the verdict follows is then a matter of the functions, one
  after the other: the analyzer finds no more kinds of evidence and no fewer flags, hints and open questions
  (`Grimmer`), so the input is bleaker (`Bleaker`), each component falls
  (`ComponentsFall`), penalties, risk and the reductions of the skeptic grow (`PenaltiesGrow`,
  `RisksGrow`, `ReductionGrows`), so score and confidence fall (`ScoreFalls`,
  `ConfidenceFalls`), and every floor that was missed is missed again. The delicate
  parts are means of whatever is known (`EntryFalls`: the known parts stay the same),
  a completeness whose numerator and denominator both move (`KnownLess`), and that the
  gate does not look at the context (`GateIsDeaf`).
* `PurgeIsExact` has three parts. Nothing goes that does not rest on the demo sources and
  trends, because what a statement selects does, and so does what cascades
  (`MatchingRests`, `GoneRests`): the upper bound. Everything that rests on them goes, because they
  do and nothing that is left refers to what is gone (`NothingRestsIn`): foreign keys do
  the work of a lower bound, and the statements need only be accepted. References are
  cleared only if they led to what goes (`ClearedInv`). That the statements are
  accepted while nobody writes is the long part: for each statement, the rows that
  refer to what it deletes were deleted by one before it (`NoneViolates`), and that no
  later statement brings a row back that an earlier one has dealt with
  (`PassesOn`). For the words of users the plan refuses what is in the way, and nothing written later
  changes what a row that was there refers to (`WordsInv`).

Only model-checked: `BurstsAreHeld`, `ProfileIsMonotone` and `ClimbingNeverOpens` of
`MCAlgorithms`, whose modules build their functions with TLC's `:>` and `@@`, which stay
unexpanded in the prover, and fold over sequences of reports; and the liveness properties,
which are out of the prover's reach, as is `ENABLED`. The run `knowledge` starts from filled
tables too, the theorems about it from empty ones. Induction over numbers is used in one
form that the provers accept: a set of naturals that is not empty has a least member
(`LeastNumber`); over finite sets, with the number of members (`SmallestSet`).

## 5. Disagreements between the code and what is said of it

Four runs are expected to end in a counterexample (`PROJECT.json`, "findings",
quotes the lines):

1. *Each user is isolated* (`deliver_digests`): a database error on one user's
   record drops the rows of the users after it (`digest_isolation`).
2. *A failing source must not stop the others* (`_run_all`): a refused flush
   ends the night (`collect_isolation`).
3. *One row per subject* (`Trend`): the unique index contains columns that are
   NULL and refuses nothing; two evaluations at once leave two rows, and every
   later evaluation fails on them (`trend_identity`).
4. *Decisions are kept, not overwritten* (`decide_match`): two administrators
   overwrite each other, and a merge deletes rulings (`rulings_kept`).

Seen while modelling, without a run of their own (each names the definition that
does it): a rescoring makes the next run record a known fact again; a crashed run
leaves no row to reap; the ETag of a page whose content was dropped is kept; a
period has four attempts where the documentation says three; a lost response is
stored as `suppressed`; a rule in its cooldown leaves no row; the
administrator's monitoring run takes no lock, and may write an old verdict over
a new one; a merge deletes history; change
detection compares with the second newest snapshot and never records a change of
state; `classify_stage` raises when a falling trend has no growth, `_capital`
when the budget is nought; states that are said to be sticky oscillate; unknown
values earn points; penalties without a risk row; a gap for a market that was
never measured; a merge threshold of topics that decides nothing; a budget
nobody asks; and decisions that the purge deletes although its counts agree.

Behaviour worth knowing that contradicts nothing: `source.status` may stay
`error` after a success at the same time as a failure, because both write from
the row they loaded (`After`); the loser of a race for an opportunity fails with
its whole generation (`GenerateFails`); a monitor pass fails when a generation
replaces the conditions it checks (`MonitorFails`); near duplicates are grouped
greedily, so groups depend on the order of the headlines (`GroupDuplicates`).

Where the code does what a hazard warns of, the property excuses exactly that and says
that nothing else goes wrong: a message repeated after a rollback
(`NoDuplicateWithoutRollback`), a fact recorded again after a rescoring (`MetOnce`), an event
beyond the limit (`NoSilentLoss`), a message to a chat that has changed its account
(`HeardOnlyByOwner`), two evaluations or two generations at once (`HistoryIsKept`), a
generation during a pass (`EventsAreMoves`), the first skill, country of operation or money in
a profile (`ProfileIsMonotone`), a lost response (`SentArrived`). `PROJECT.json` notes it
at each hazard.

## 6. What is not modelled, and the plan

Not modelled, because there is little state or decision in it: parsers of the
data sources and robots files (I/O), prompts, providers and the string matching
of grounding, cryptography and token formats, read-only queries and
serialisation, wording of reasons and reports, the frontend, the migrations and
the scripts that seed, validate or print. `analytics/scoring.py` and
`analytics/gate.py` are used by tests and a printing script only. `archive_stale`
and `assert_within_budget` have no caller.

Left out of what is modelled: topic trends; predicates of alert rules other than
the trigger; events of risk and confidence, which compare the same two snapshots
as the score; the members of stored topics over repeated rebuilds; creation races
of profiles, which a unique constraint settles.

In this order, most important first:

1. Proofs about trends, profiles and markets, in the manner of `CandidatesProofs`.
2. The composition of the night: collect, monitor, digest in `run_nightly_pipeline`
   with its two time limits, over abstractions of the three phases.
3. Stored topics over repeated rebuilds, while merges delete their members.
