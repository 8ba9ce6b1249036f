# Sentinel-IR: a TLA+ verification project

This directory holds TLA+ models of the parts of Sentinel-IR (`c_sentinel-ir/`)
whose correctness depends on more than one actor or more than one step, the TLC
configurations that check them, and proofs for every value of the constants,
checked by TLAPS. Paths below are relative to `c_sentinel-ir/`.

## 1. Inventory of the system

| Part | State | Operations | What makes it correct | Model |
|---|---|---|---|---|
| `libs/common/http_client.py`, `circuit_events.py` | one pybreaker breaker per client: state, failure count, opened_at; per call `was_open`, attempts | `get` (breaker over retry over one GET), fallback, the three resilience events | opens after exactly the configured number of failed requests, no traffic while open, one trial at a time, every exhausted request visible, the stream tells the state, recovery | `ResilientClient`, `CircuitBreaker` |
| `services/incident-service` | table `incidents`, event stream, a session per request | create, read, update, change severity, delete | events agree with committed changes; deletions last; concurrent updates keep each other's columns | `IncidentService` |
| `services/asset-service` | table `assets` (unique name), a session per request | create, update, get, list, delete, `ASSET_ACCESSED` | names stay unique under races; a refusal leaves no trace; a reply tells what was written; exactly the reads of critical assets are announced | `AssetService`, `UniqueTable` |
| `services/auth-service` | table `users` (unique name, unique e-mail), JWTs that clients keep | start-up with `create_all` and bootstrap, login, verify, create and list users | uniqueness, also against the bootstrap; a role taken back expires; a start repairs what earlier ones missed | `AuthService`, `UniqueTable` |
| `libs/common` middleware, logging, events | correlation id per request | request events around every request, error bodies | nothing that failed or was refused goes unreported, and what counts twice is known | `SecurityStream` |
| `libs/common` registry, health, service | registration with Consul | register, deregister, `/health` | what is listed is not older than an interval and the timeouts of its polls; a stopped service is gone | `ServiceRegistry` |
| `gateway/kong.yml` | Kong's | JWT check, rate limit, refusal events | configuration of an external program | `SecurityStream` |
| `soc/collector` | `EventStore` built per run | parse, collect, health checks as events, queries | every event line is collected or the run fails | `AlertConsole`, `ServiceRegistry` |
| `soc/rules` | none: functions of a store and a moment | four rules | fire exactly at their threshold inside their window, cite their evidence | `DetectionRules` |
| `soc/alert_service`, `console/soc_api.py` | one in-process `AlertStore` | detection run (collect, evaluate, clear, store), list, get, change status, evidence view | a re-run replaces, evidence is faithful, triage is kept | `AlertConsole` |
| `kg/loader` | Neo4j graph, one driver per process | three transactions of idempotent MERGE writes | nodes are findings, a completed load is there, gaps are repaired | `GraphLoader` |
| `kg/model`, `kg/cypher` | none | six read-only queries | as the rules of the loader put it in | `KnowledgeGraph` |
| `rag` | none | intent, entity, query, evidence, templates, optional language model | answers state only what the graph holds or held when it was read | `GraphQuestions` |
| `console/graph_api.py` | the process's Neo4j driver and `sys.stdout` | load, ask, named query, alert list, neighbourhood | an answer is current, a failure has a cause, a load's output is its own | `GraphConsole` |
| `console` (rest), `client`, `scripts`, `observability`, `deploy` | none of their own | views, proxies, demonstrations, packaging | presentation and tooling | `ServiceRegistry` for `control_container` |

How they interact: incident-service calls asset-service through the resilient
client; every service registers with Consul when it starts and writes events to
its stdout; the collector reads that stream and Consul's health checks; the
rules turn what was collected into alerts; the console stores alerts in the
store which the alert routes, mounted in the same process, serve; the loader
evaluates the same rules again and projects events and alerts into the graph,
which retrieval reads; the console runs loads and questions in one process.

Where it is hard. Every route is a plain `def`, so FastAPI runs requests of one
process on a pool of threads which share the breaker, the alert store, the Neo4j
driver, `sys.stdout` and the database. State is read before a lock, a commit, a
bcrypt call or a clear and used after it. Events are written after commits, so
crashes lose them. A token outlives the role it names. A registration is made
once. The loader and the console re-run evaluations that mint fresh identifiers.

`PROJECT.json` lists the hazards line by line, with the properties that cover
each one or the reason why none does.

## 2. Modules

| Module | Models | Kind |
|---|---|---|
| `CircuitBreaker` | what a breaker promises, without threads, lock and retries | abstract specification |
| `ResilientClient` | `ResilientClient.get` on several threads, with the listener's events | detailed specification; implements `CircuitBreaker` |
| `IncidentService` | the four writing operations of incident-service, under concurrency, database failures and kills | specification |
| `UniqueTable` | what a table with a unique column promises | abstract specification |
| `AssetService` | the four operations of asset-service on its table | detailed specification; implements `UniqueTable` |
| `AuthService` | start-up, logins, tokens, user creations, restarts, over time | detailed specification; implements `UniqueTable` twice |
| `ServiceRegistry` | containers, Consul's entries, its polls and their timeouts, the collector's alarms, over time | specification |
| `DetectionRules` | the four detection rules and the catalogue, as operators on a set of events and a moment | pure definitions |
| `SecurityStream` | gateway, middleware and handlers reporting requests, with the rules over what they wrote; extends `DetectionRules` | composition |
| `AlertConsole` | detection runs, status changes and evidence views on the shared alert store | specification |
| `GraphLoader` | the loader's collection, of the live log or of a capture, its evaluation and three transactions, several loads at a time; extends `DetectionRules` | composition |
| `KnowledgeGraph` | what the graph holds by how much of a load has landed, and the six queries | pure definitions |
| `GraphQuestions` | from a question to evidence and to what the template states; extends `KnowledgeGraph` | pure definitions |
| `GraphConsole` | loads and requests sharing the graph, the driver and stdout; extends `GraphQuestions` | composition |
| `MC...` | values and symmetry for TLC | models |
| `CommonProofs` | theorems about the two modules of `libs/common`, `ResilientClient` and `ServiceRegistry`; the latter's names start with `Registry` where both would have one | TLAPS |
| `...Proofs` | theorems about the module of that name, see section 5 | TLAPS |

Definitions headed "A mistake" are not part of any specification: each is a
plausible wrong version of a definition below it, substituted for it in the
mutation runs that `PROJECT.json` lists, to show that the property would notice.

### ResilientClient and CircuitBreaker

A call of `get` is cut where another thread can intervene: `Start` reads
`was_open` without the lock (`http_client.py:138`); `Admit` and `Refuse` are
pybreaker's decision once the lock is free; `Retry`, `Exhaust` and `Reply` are
single GETs, made inside the lock (`_attempt`, `_call_with_retry`); `Return` and
`Degrade` are what `get` does after the breaker let go. Whether a GET succeeds
depends on `dependency`, which the environment changes at any time, so it may
flap between two attempts of one request. The cooldown is one step (`Cool`).

pybreaker and tenacity are external and modelled from how the file configures
and calls them: fail count cleared by any non-transient result (the `exclude`
list), open at `fail_max`, half-open on the first call after the reset timeout,
re-open on a failed trial, `CircuitBreakerError` raised by the request that
trips. `counter` saturates at `FailMax`, where its value no longer matters.
`circuitEvent` keeps the last circuit event only. `strikes` is a history
variable: GETs failed in a row since an answer or an opening.

`CircuitBreaker` is the same component seen from outside: the half-open state
counts as open, a request takes one step. `ResilientClient` implements it under
the mapping closed to closed, open and half_open to open.

### IncidentService

A request is a sequence of transactions: load, commit, refresh, emit. Requests
of all kinds interleave between them, `DatabaseFails` ends one at any statement
after the first (a failure of the first one changes nothing), and `Crash` kills
all that run while the committed table survives. The session writes only the
columns that changed, as SQLAlchemy does. `wrote`, `deleted` and `failure` are
history variables. The asset lookup appears as its three results.

### AssetService, AuthService and UniqueTable

`UniqueTable` has one step per change: a row enters with a key nobody has,
changes to a key nobody has, or leaves and does not come back. asset-service
gets there with a load (`Load`), a commit of what changed (`Write`) that the
unique constraint may refuse, a rollback (`Conflict`) and a re-read (`Refresh`),
each of which another session can overtake; a body may lack a field or have a null in
it. Only the columns that tell rows apart are kept: the unique name, and the
criticality that decides about `ASSET_ACCESSED`. `overtaken` is history.

`AuthService` adds time, restarts and tokens. `Start`, `InitDatabase` and
`Bootstrap` are the lifespan's start-up hook: each shrugs off an absent database
with a warning. `Lookup` and `Authenticate` are the two sides of the bcrypt
check of a login, `AskCreate`, `Insert` and `Refresh` the creation of a user
behind `require_admin`. A token is a record that clients keep; nothing in the
service takes a role back, so `Revoke` is an operator's statement in the
database. `HashTime` bounds one bcrypt call with the thread's wait for it: a
`Tick` cannot leave a request longer than that in front of its next step.
`lastAdmin` is a history variable.

### ServiceRegistry

`StartContainer` to `Kill` are a container's life around the lifespan of `service.py`:
register (once, before `/health` is served), serve, drain, deregister. `Register`
and `Deregister` may fail with Consul there or not (`registry.py:92-97`,
`:115-120`); the service goes on, and its entry is then never made, or stays. A
poll takes three steps: Consul sends it (`Send`), the service answers or nobody
does (`Answer`), and the verdict comes in, at the latest `Timeout` after it was
sent (`ComesIn`); the next one follows `Interval` later. `Watch` is what a new
or a removed entry means for the polls. Consul removes what has been critical
for `RemoveAfter` at one of its rounds, at most `Round` later (`Remove`), and
forgets everything when it stops (`AgentFlips`). `Collect` is what
`soc/collector/health.py` makes of it. `unseen`, `well` and `dead` are ages, kept
as histories and capped just above the bounds that they are compared with.

### DetectionRules and SecurityStream

`DetectionRules` translates `soc/rules`: windows inclusive at both ends,
grouping keys, thresholds and severities. Its constants are the rules'
thresholds and windows, so that TLC can reach them with few requests. A store
sorts its events, but no rule depends on the order except for wording, so a set
stands for it.

`SecurityStream` follows a request: `RefuseToken` and `Throttle` are the
gateway's answers, `Forward` the middleware's `REQUEST_RECEIVED`, the actions
from `RejectLogin` to `Kill` the ways a service ends it, and `GatewayLog` the
log phase, which reports every 401, 403 and 429, also those a service decided.
A creation of an incident looks its asset up first. `DependencyFails`, `Trip`,
`TrialFails`, `Suppress` and `Recover` are how that ends when asset-service does
not answer, or does again, with the resilient client's events as a reader of the
stream sees them; their mechanism is `ResilientClient`'s. Only then comes the
insert: `Create`, or `Raise` when the database fails, which leaves through the
middleware as `SERVICE_ERROR`, or `Kill`, so one request may have left two
events that Rule 4 counts. Otherwise a service's handler and middleware write in
one thread one after the other, so their last events are one step. `rejected` is
a history variable. Kong is
external: that it may send a request again when the connection to a service
breaks, and may time out on one, is left out.

### AlertConsole

`Collect`, `Clear`, `Count`, one `Store` per alert and `Report` are the steps of
`run_detection`, `persist_alerts` and `AlertStore.extend`; `PatchRead` and
`PatchWrite` the two halves of `set_status`; `ViewAnswers` the evidence view. The
rules appear as Rule 4, which has both kinds of evidence, without its time
window. A health event carries the reader that collected it as its id, because
every collection mints a new one. `lastClear` and `overlapped` are history.

### GraphLoader

`CollectLive` and `CollectCapture` are `collect` for the two kinds of source:
everything logged so far with the health checks of the moment, or what had been
logged at some earlier moment (`--file`, `--stdin`, the console's default), which
may know an older severity of the incident than the graph. The evaluation that
follows at once is a function of what was collected (`Findings`); `captures` is a
history variable. `Apply` is one transaction of
`kg/loader/writes.py`, in the order of `collect_writes`; `Die` ends a load
before any of them. Every statement is a MERGE, so a transaction is a union.
An alert's node is `StableId`, the fields that its hash depends on, taken to be
collision-free otherwise. A health event is identified with the load that
collected it. `LogIncident` tells of one incident, created and then escalated;
the node's severity is identified with the number of the event it comes from,
and every load sets it anew.

### KnowledgeGraph, GraphQuestions and GraphConsole

The loader's topology and security tables are in `KnowledgeGraph` with their
contents, and the queries as set expressions over them, each row with all that
its query returns. In `GraphQuestions` a question is the set of intent phrases
found in it and the alert and service it names; `Classify`, `Entity` and
`Retrieve` follow `rag/retrieval`. A node keeps the properties of the first row
that has it and the edges of all its rows (`_unique`): `Properties` are those of
a row, and `FirstRows` and `Kept` which rows may come first. `Template` is the
set of statements that `rag/generation/templates.py` writes out, with each
rule, severity, status, count and number of hops that they state. Matching
phrases in text, sentences and their order are left out. `Chains` are the paths
of q5, bounded at ten hops as the query bounds them.

What is true of a graph comes in two kinds, in `GraphConsole`. `Facts` are those
that more writing leaves as they are, such as an alert's rule or a control that
helps against it. `FactsOfTheMoment` are those that a load may change: the
counts, an incident's severity, that it has no alert, and a user's linkage to
rules, which counts events. An answer may state the former if they hold, the
latter if they held in the graph that its query read (`read`).

`GraphConsole` runs loads and requests as threads of the console process. Each
access to `connection._driver` is a step: `Look`, `Make` and `Take` are
`get_driver`, `CloseTest`, `Close` and `Forget` are `close_driver` in the
`finally` of the loader's `main`. `handle` is what an actor got, which becomes
an orphan when the variable loses it. `pool`, `made` and `aged` are for what a
driver keeps over a restart of Neo4j: connections that are dead although nobody
knows, and which a query, or a schema statement, may be the first to try
(`Stale`); `execute_write` tries again on another. `Pictures` are the
neighbourhoods that `LIMIT 200` lets through (`PictureLimit`), and `Phrase` the
language model, whose settings may be malformed, in which case the question
fails (`LLMSettings`). `Begin` and `Restore` are the two ends of
`redirect_stdout`. `GraphLoader` has the loads' content in full; here a load
lands whole stages, so that what a question sees between them is what matters.
A request is delivered and forgotten (`Deliver`), so it is the model of any
number of requests one after the other, and the history variables are kept only
as long as somebody is concerned.

## 3. Runs

| Run | Bounds | States | Result |
|---|---|---|---|
| `resilient_client` | 2 threads, 3 attempts, threshold 3 (the defaults of `config.py`) | 12,442 | all properties hold |
| `incident_service` | 3 requests, 2 incidents, 3 severities, 2 statuses | 621,707 | all properties hold |
| `asset_service` | 3 requests, 3 ids, 2 names, 2 criticalities | 950,227 | all properties hold |
| `auth_service` | 2 workers, 2 names, 2 addresses, 2 ids, 1 token at a time, 1 crash, 3 ticks, life and hash of 1 | 349,860 | all properties hold |
| `service_registry` | 1 service, ticks of 5 s: interval 2, timeout 1, removal after 12, rounds of 6 (the times of `registry.py`, and Consul's round of 30 s) | @service_registry@ | all properties hold |
| `security_stream` | 2 requests, 2 names, 2 addresses, 4 ticks; thresholds 2 and 3, windows 0 to 2 | @security_stream@ | all properties hold |
| `logins_left_to_rule_one` | the same with 1 name, 1 address | | violated, see findings |
| `alert_console` | 2 runs, 1 patch, 1 view, 2 services, 1 log entry each | 1,181,344 | all properties hold |
| `graph_loader` | 2 loads, each live or of a capture, 2 failed logins, 2 accounts, 1 service, 2 incident events, 2 ticks | @graph_loader@ | all properties hold |
| `graph_console` | 2 loads, 1 request at a time of 3 kinds, 3 alerts, 1 incident, 1 outage, well, malformed and no settings of the model, pictures of 7 edges for 200 | @graph_console@ | all properties hold |
| `graph_answers` | 2 loads, each live or of a capture, 1 request at a time of 9 kinds, 3 alerts, 1 incident, no outage | @graph_answers@ | all properties hold |
| `linkages_are_held` | 1 load, 1 question | | violated, see findings |

Why the bounds are enough. Two threads are one inside the lock and one that read
a stale `was_open`; a third adds another waiter in the same position, and the
proofs cover any number. Three requests are a writer, a rival and a deleter of
one row, or two creations and a rename that want one name; LOW, HIGH and
CRITICAL are the classes that the escalation test tells apart, MEDIUM behaving
as LOW. Two workers are a login or a creation and what overtakes it; three ticks
are a lookup, a bcrypt call and a token's life; one crash puts a bootstrap after
a creation. The times of `service_registry` are the code's, a tick being 5
seconds, and ages are capped, so the run is the whole, unbounded
behaviour of one service; services share nothing but Consul's going and coming,
and the proof covers any number. Two runs are the smallest overlap; two services give a run
two alerts, so it can be interrupted half-way through storing them. The
threshold is 1 there, because counting is not what the console's properties are
about. In `security_stream` two requests suffice to reach each threshold of 2,
to meet on a key or to differ on it, and to double up to the 3 of Rules 2 and 4; four ticks
put an event inside, at the edge of and outside every window. In `graph_loader`
one load may be dead, behind or ahead of the other at each transaction, and
Rule 1's threshold of 1 makes every login a finding whose evidence grows. A capture may be
taken before or after the incident's escalation and read by either load. In
`graph_console` two loads close the driver under each other and under a request,
while Neo4j restarts once: a question that the model phrases, one that no query
answers and a picture reach each way to fail. `graph_answers` asks without
outages, for what an answer says: a question for each of the six queries, one
query by name, the list of alerts and a picture, of which a limit of 7 leaves out
one edge, while loads with two severities of the incident and different alerts
overlap; its `VIEW` leaves out output and failures, which no step of the rest
depends on. The proofs of section 5 lift the
bounds of every passing run: they hold for any sets and numbers that satisfy the
assumptions named in the modules.

`CHECK_DEADLOCK FALSE` is used where each request, run or load happens once, or
the clock is bounded, and then the model stops. `ResilientClient`, `AuthService`
and `ServiceRegistry` run for ever and are checked for deadlock.

What the passing runs show:

- `NoNetworkWhileOpen`, `FaultBudget`, `StreamTellsState`, `ImplementsBreaker`:
  although `get` reads the breaker without its lock, what reaches the network is
  governed by the lock alone; retries of one request count as one failure and
  requests are counted across threads.
- `FailureIsEvidenced`: a request that spent its attempts leaves one kind of
  event that Rule 4 reads, whatever state it had seen before it queued.
- `LockIsReleased`, `RecoveryClosesCircuit`: a dead dependency cannot keep the
  lock, and a recovered one closes the circuit if calls keep coming.
- `EventsMatchWrites`, `FinalSeverityAnnounced`: the escalation test and
  SQLAlchemy's own comparison agree on what changed: who is told of a creation
  or of a raise finds its event, no event stands for less than a write that was
  answered for, and a refusal wrote nothing. A demotion that lands on HIGH is
  left out of it, see section 4. A final severity of HIGH or CRITICAL is on the
  stream unless its writer was cut off after its commit.
- `WritesStandApart`: stale sessions neither bring a row back nor undo another
  request's column.
- `RepliesMatchWrites`, `CriticalReadsAnnounced`, `ImplementsUniqueTable`: a
  refusal has written nothing, an acceptance tells the row that was asked for
  unless somebody wrote to it meanwhile, exactly those who were shown a critical
  asset are on the stream, and all that the sessions do to the table is what a
  table with one unique column does.
- `ImplementsTables`, `PrivilegeExpires`, `RestartRepairs`: names and addresses
  are unique against rivals and against the bootstrap; the admin guard, which
  asks nobody, lets a former admin pass for one bcrypt call and one token life at
  most; a start that finds its database leaves an account.
- `ListingIsRecent`, `ListedConverges`: nobody is listed as passing, and nobody
  who is well is reported, longer than an interval and the timeouts of the two
  polls beside it; a service whose deregistration went through is gone at once,
  one that was killed, or whose deregistration failed, within that and its
  removal; a service that is well again while listed ends up passing.
- `BruteForceIsExact`, `RequestsAreCounted`, `NoBlindSpot`: Rule 1 fires on
  exactly the rejected logins of its window. A request counts twice in two ways
  and in no other: Rule 2 counts a refusal by a service and the gateway's report
  of it, Rule 4 a failed lookup and the database failure that followed; so half
  as many requests as a threshold says are behind its alert, unless an opened
  circuit is. No refusal or fault goes unreported, whoever decided it and however
  it ended, short of a kill.
- `EvidenceOnlyAdds`: no event, a recovery included, ever silences an alert.
- `EvidenceAsCollected`, `LastRunStands`, `TriageHolds`: what an unlocked store
  still guarantees, and that a run which overlaps nobody does what its docstring
  says.
- `AlertsAreFindings`, `CompletedLoadIsThere`, `GapsHaveAnOwner`: re-keyed
  alerts never mix their evidence although loads overlap and die half-way, the
  next complete load closes every gap, and the graph goes back to an older
  severity of the incident only by a load of a capture or one that ran beside
  another. Two alerts over the same events may still become one node, and nodes
  of evidence that has since grown stay.
- `AnswersAreCurrent`: an answer has everything the graph held when it was asked
  for, a picture as much of it as its limit lets in, and nothing the graph does
  not hold, although loads write meanwhile; what it states holds, or held when
  its query ran if a load may have changed it, and a template leaves out nothing
  lasting. Of a user whom several rules flagged it lets pass one of the rules
  with the events of all, see section 4.
- `FailuresHaveCauses`, `SoloOutputIsWhole`: a request or a load fails only if
  Neo4j left or another load's end took the driver away while it ran, if it took
  a driver that is older than Neo4j's restart, or, a question, for malformed
  settings of the model; what a load did to the driver earlier does not matter.
  A load alone answers with its own output.

Fairness is assumed in three modules, for their liveness properties.

- `FairSpec` of `ResilientClient`. A thread inside the lock or past it continues:
  httpx has a timeout, tenacity a bounded number of attempts. Time passes
  (`Cool`). The lock is a Python `RLock`, which is not first-come first-served,
  so only "some waiting thread gets it" is assumed, never a particular one.
  Nobody is obliged to call and the dependency is not obliged to recover:
  `RecoveryClosesCircuit` has both as its hypothesis.
- `AuthService`: the two steps of a start that has begun. They wait for nobody,
  as the database's connection attempt ends either way. Nothing obliges anybody
  to start the service: the compose file has no restart policy.
- `ServiceRegistry`: time passes and Consul does its polls and removals, which
  are its own scheduling. Containers, databases and Consul itself start and
  stop at will, and `Collect` is never obliged.

## 4. Findings

Two runs check a sentence of the repository's own documentation against the code
and find it violated; `PROJECT.json` quotes each sentence with its line.

1. `logins_left_to_rule_one`: failed logins alone raise Rule 2, which was to leave
   them to Rule 1: `AUTH_FAILED` is left out, but the 401 of the same request is
   in its `REQUEST_COMPLETED` and in the gateway's report, and both count.
2. `linkages_are_held`: a user whom two rules flagged is stated under the rule of
   the first row with the events of both, which no row of the query says.

Six more are stated in a module, under "What the docs say and the code does not
do", each with a configuration of its own that refutes it
(`tlc -config <configuration>.cfg <module>.tla`):

| Configuration | Module | What the code does |
|---|---|---|
| `GraphConsole_SharedDriverServes` | `MCGraphConsole` | a load that ends closes the process-wide driver under the question that just took it, which answers 500 with Neo4j up (`kg/loader/main.py:151`, against `connection.py:9-10`) |
| `GraphConsole_PhrasingNeverFails` | `MCGraphConsole` | a setting of the language model that is no number makes the question fail, because `int()` and `float()` are outside the `try` (`llm.py:88`, `:91`, against `:74`) |
| `GraphLoader_SeverityIsLatest` | `GraphLoader` | a load of a capture made before an escalation takes the incident's severity back (`load_events.py:254`, against `kg/model/graph_model.md:26`) |
| `ServiceRegistry_RunningIsListed` | `MCServiceRegistry` | a service that started while Consul was away, or was removed during a long database outage, runs unlisted for ever (`service.py:64`, against `registry/README.md:3`) |
| `AlertConsole_EvidenceResolves` | `AlertConsole` | the evidence view collects anew, and never finds the health-check events that an alert cites (`soc_api.py:184`, against `:178-181`) |
| `IncidentService_OnlyRaisesEscalate` | `IncidentService` | a demotion from CRITICAL to HIGH emits `INCIDENT_ESCALATED` (`incident_service.py:142`, against `:7-8`, `:34-35`, `soc-events.md:42` and `test_incident_service.py:159`) |

Further disagreements between a text and the code that were met while modelling:

- A failed half-open trial writes no `DEPENDENCY_FAILURE`
  (`http_client.py:142`), while `circuit_events.py:6-7` speaks of every failure;
  and a call refused without a GET does write one, if it queued for the lock
  while another thread tripped the breaker (`http_client.py:138`, against
  `:143-146`).
- An escalation can be announced with the severity that a concurrent request
  committed in between (`incident_repository.py:77`).
- Two overlapping detection runs leave every firing in the store twice
  (`soc_api.py:160`, against `:149-150`).
- Rule 3's docstring speaks of any `RATE_LIMIT_EXCEEDED`, while three are needed
  (`rule_abnormal_rate.py:99`).
- Rule 1's alerts on an account and on an address over the same logins get one
  stable id, and the graph keeps one of them (`load_events.py:77`, against
  `main.py:15-16` and `rule_failed_logins.py:9-12`).
- The output of a load goes to another load's response when two overlap
  (`graph_api.py:254`, against `:240-241`), and when they end in another order
  than they began the process keeps printing into a finished buffer.
- `close_driver` may call `.close()` on `None`, and `get_driver` may return
  `None`, when two actors meet between their two accesses (`connection.py:78`).
- `intent.py:30` calls its pattern "a service name as the topology loader
  creates it" and lists five; the topology also has `api-gateway`, which a
  question therefore cannot name. `intent.py:138` says that any question about
  incidents matches at least two of its phrases; the bare word "incidents"
  matches one.
- A 409 of asset-service quotes the name that the row has after the rollback,
  not the one that was asked for.
- `health_live`'s docstring speaks of the container restart policy; no service
  in the compose file has one.

## 5. What is proved

Every invariant and every action property that a passing run checks, and the
three refinements, are theorems. The eight proof modules each have inductive
invariants of their own, proved to hold initially and to be kept by every step,
from the named assumptions on the constants alone, for any sets of requests,
names, services, loads and questions and any bounds. TLC checked each inductive
invariant on the bounds above before it was proved. In every module
`TypeCorrect` is the type invariant; each other theorem names, in parentheses,
the property of a run that it generalises.

| Module | Theorems (property) | What the invariant adds, and why |
|---|---|---|
| `CommonProofs`, client | `TypeCorrect`, `TrialIsAlone`, `StreamIsTruthful` (`StreamTellsState`), `ExhaustionLeavesEvidence` (`FailureIsEvidenced`), `OpenMeansNoNetwork` (`NoNetworkWhileOpen`), `BudgetIsExact` (`FaultBudget`), `ClientImplementsBreaker` (`ImplementsBreaker`) | `Counting` ties the GETs failed in a row to the breaker's own count, which needs some product arithmetic (`OneMoreRequest`, `FewerRequests`); `CallInv` what a thread's locals can be at each point of `get`; `LoneTrial` is what the refinement needs, as the abstract breaker lets nobody through unless it has cooled down |
| `IncidentServiceProofs` | `EventsAreWrites` (`EventsMatchWrites`), `NothingSevereIsSilent` (`FinalSeverityAnnounced`), `WritesDoNotCollide` (`WritesStandApart`) | `AnnouncedInv`: at every moment a severe incident was announced, or some request is answerable for it, because it has still to announce it or was cut off; `StageInv` what a session may rely on between its transactions |
| `AssetServiceProofs` | `RepliesAreTruthful` (`RepliesMatchWrites`), `CriticalReadsAreOnTheStream` (`CriticalReadsAnnounced`), `RegisterIsATable` (`ImplementsUniqueTable`) | `SessionInv`: until another request writes to its row, an updater's copy is the row; `TableInv`: uniqueness and unused ids, from which each commit is a step of `UniqueTable` |
| `AuthServiceProofs` | `RevocationTakesEffect` (`PrivilegeExpires`), `AccountsAreTables` (`ImplementsTables`) | a chain of inequalities: a login that goes on as an admin's began when its user was one (`LoginInv`), so its token expires within a bcrypt call and a life of that moment (`TokenInv`), so whoever the guard lets pass was one that recently |
| `CommonProofs`, registry | `RegistryTypeCorrect`, `ListingIsNeverStale` (`ListingIsRecent`) | each bound is a race of clocks: the age of the truth plus the time until the next poll is sent, has its answer and comes in, or until the removal, never exceeds the bound (`AnswerInv`, `PollInv`, `RemovalInv`) |
| `AlertConsoleProofs` | `StoredEvidenceIsFaithful` (`EvidenceAsCollected`), `LastDetectionStands` (`LastRunStands`), `TriageIsKept` (`TriageHolds`) | `StoreInv` holds of the copies in responders' hands too, which is what a late `PatchWrite` puts back; `LastInv` says what it means to have had the store to oneself since one's clear |
| `GraphLoaderProofs` | `NodesAreFindings` (`AlertsAreFindings`), `CompletedLoadsStand` (`CompletedLoadIsThere`), `NoOrphanedGap` (`GapsHaveAnOwner`) | lemmas about the rules (`FindingsShape`, `FindingsStand`): only Rules 1 and 4 fire here, and what a load found does not change when others read and write; `IncidentInv`: a load of the live log that runs beside no other knows all that the others do of the incident, so only the rest take it back |
| `SecurityStreamProofs` | `BruteForceIsSeen` (`BruteForceIsExact`), `ReportsAreNotRequests` (`RequestsAreCounted`), `NothingGoesUnseen` (`NoBlindSpot`), `EvidenceAdds` (`EvidenceOnlyAdds`) | see below |
| `GraphConsoleProofs` | `AnswersStandUp` (`AnswersAreCurrent`), `NoFailureWithoutCause` (`FailuresHaveCauses`), `OneLoadsOutputIsItsOwn` (`SoloOutputIsWhole`), `NothingIsForgotten` | see below |

The refinements are proved for the safety part that the abstract specifications
consist of: initial states map to initial states, and each step to a step or a
stutter.

`SecurityStreamProofs` first characterises the rules: each of the four fires on
a key iff a certain set of events reaches a threshold (`LoginAlerts`,
`RefusalAlertsAre`, `RateAlertsAre`, `FaultAlertsAre`), and a set with all the
events of another in its window raises all that one's alerts (`MoreEvidence`).
All actions come to one form (`Step`: which stage a request leaves, what is
written of it), so the invariant is proved once: `RequestInv` says which events
may exist of a request at each stage and with each status, `StreamInv` that no
event exists twice. Counting then needs bijections and injections of finite
sets: rejected logins and `AUTH_FAILED` events are equally many (`SameNumber`),
and of one type there are no more events than requests (`OnePerRequest`), so two
types, and no more, can double the count of Rule 2 (`RefusalsAre`) or of Rule 4
(`TwoPerRequest`), which no two other events of a request do (`ReportsApart`).
`EvidenceAdds` rests on `EventsStay`: what was collected of an event does not
change when its request goes on, because only `REQUEST_RECEIVED` precedes the
status.

`GraphConsoleProofs` is about one graph that several loads write while questions
read it, and its argument is growth. A transaction of a load takes no node and
no edge out (`LandingGrows`), though it may set a severity; each of the six
queries finds no fewer things in a larger graph (`RowsGrow`, where `ChainsAre`
and `ImpactIsOneHop` say what the paths of q5 come to), nor do the evidence
shaped from its rows and the screens (`ReadsGrow`). What a template says is
written out statement by statement for each of the seven intents (`AlertWords`,
`ServiceWords`, `ThreatWords`, `UserWords`, `ImpactWords`, `IncidentWords`): all
of it are facts of the graph that its evidence came from, of one kind or the
other (`AnswersAreFacts`), the lasting ones are there whichever rows came first,
and are no fewer in a larger graph (`LastingGrows`, `TextsStand`), whose own
`Facts` are no fewer either (`FactsGrow`). So whatever lands between a request's
first look and its answer, the answer lies between the two graphs, and states of
the moment only what the graph of its query had (`FreshAnswer`); `Answers` says
that of every request at each point of its course. `NothingIsForgotten`, an
action property that no run lists, is why it stays true of an answer once given;
it does not say so of severities, counts and linkages, which loads change. On
the way `ClassifyInTable` shows that the classifier always chooses an intent of
its table, whatever phrases are found, which needs the largest of seven scores
and the first of those that reach it, and `PicturesAre` that a picture is all
there is or as large as it may be.

The other invariants of that module say who may disturb whom. `DriverLosses`: a
closed driver in the variable has a load that is about to forget it; whoever
holds a closed driver, or finds none where its test saw one, has been disturbed;
whoever holds a dead connection was at work when Neo4j left, or took a driver
that was made before; and so on for everybody who was at work when Neo4j left.
It is needed because a failure comes steps after its cause (`LossesAreNoticed`).
`RequestCauses` carries that cause, or the malformed settings of a question with
evidence (`Excused`), to a request's answer (`RequestsAreExcused`). `Redirections`:
two loads that run at once are both marked as overlapping, one that is not has
its own buffer in place, and only loads that have begun have one, so the buffer
that `Restore` puts back for a load by itself is the terminal.

The arms of every `CASE` exclude each other, also where the code's conditions
overlap and Python takes the first that matches (`ServiceOf`, `Template`): TLA+
says nothing of which arm an overlap takes, so nothing could be proved of one.

Only model-checked: the four liveness properties `LockIsReleased`,
`RecoveryClosesCircuit`, `RestartRepairs` and `ListedConverges`, because liveness
under fairness is out of the prover's reach.

## 6. Not modelled, and why

- `soc/collector`'s reader and the queries of its store (by user, address,
  service, correlation): pure functions of the log. A malformed line ends the
  batch command with a traceback instead of its error message; it changes
  nothing.
- The construction race of the shared client behind `lru_cache`
  (`asset_gateway.py:44`): two first requests can each make a client with a
  breaker of its own. `ResilientClient` takes the one shared client as given;
  what two of them do is that module twice, each with its own count.
- `AlertStore.list` iterating while another thread inserts: an error inside one
  dictionary operation of the interpreter, below the steps of the model.
- Read-only operations: the listings, counts, `verify`, `/health/live`, the
  platform views, and `graph_service.py`'s HTTP shell around the queries that
  are modelled.
- Formatting: descriptions, sentences and citations of the templates, log
  records, correlation ids, the schema statements of `kg/model`.
- The text of the language model of `rag`: any, or a failure, after which the
  template's stands. That its settings may be malformed is modelled.
- `sys.stderr`, which `load_graph` redirects into the same buffer
  (`graph_api.py:254`). A detection run of the SOC screens, in the same process,
  reports a health source that fails there (`soc/collector/main.py:143`), so a
  load can quote that line although no other load overlaps it;
  `SoloOutputIsWhole` is about stdout, loads and the graph's own requests.
- What the code does to those who overlap, and the properties excuse: alerts that
  a late PATCH brings back into a store cleared meanwhile, a wrong or negative
  count of stored alerts, output of one load in another's response.
- Kong, Neo4j, Consul, PostgreSQL and SQLAlchemy are external programs, modelled
  only as the code uses them.
- The demonstration client and scripts, the static UI, packaging and dashboards.
