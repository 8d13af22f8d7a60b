# Verification of the GitHub Issues gateway

The repository is a small FastAPI service with two halves: an HTTP API over the
GitHub Issues REST API (`app/routers/issues.py` over `app/github_client.py`),
and a receiver of GitHub webhooks (`app/routers/webhook.py` over a SQLite table,
`app/store.py`). This directory holds TLA+ modules of both, the TLC runs that
check them, and TLAPS proofs about all of them but their liveness. `PROJECT.json` lists the runs,
the mutants, the hazards and, for each definition, the lines it models.

## The system

| Part | Code | State | Operations | Hard about it | Module |
| --- | --- | --- | --- | --- | --- |
| Event store | `app/store.py` | SQLite table with a unique index on (delivery id, event, action), `AUTOINCREMENT` sequence, one lock | `record` (two commits), `mark_processed`, `mark_failed`, pruning, reads | atomicity of two commits, pruning at the bound, errors in between | `EventStore` |
| Webhook receiver and task | `app/routers/webhook.py` | per request: control point, dedupe key, row id | `receive_webhook`, `_process` | concurrent redeliveries, stale row ids, crashes | `WebhookGateway`, `DeliveryLedger` |
| The same on a failing machine | `app/store.py` (WAL, `synchronous=NORMAL`) | what has reached the disk | loss of power | commits vanish, row ids are given out again | `WebhookPowerLoss` |
| Webhook admission | `app/routers/webhook.py`, `app/security.py` | none | checks in order, dedupe key | order of checks, keys of odd requests | `WebhookAdmission` |
| Event feed | `GET /events` | none of its own | `list_recent` | consecutive answers while rows change | `EventsFeed` |
| ETag cache | `ETagCache` | bounded `OrderedDict` | `get`, `put` | eviction order | `ETagCache` |
| GitHub client | `GitHubClient.request` | cache, rate-limit snapshot; per call: attempt, cached entry | send, retry, back off, 304, success, raise | overlapping calls, lost and late messages, retries | `GitHubClient` |
| Pagination, listings | `app/pagination.py`, `list_issues`, `list_comments` | none | rewrite `Link`, leave out pull requests | a walk over several requests | `IssuePages` |
| Conditional listing | `list_issues`, `gateway_etag` | none; its callers keep answers | derive a tag, answer 304 | two caches in a row, deployments | `ConditionalReads` |
| Error translation | `app/errors.py`, `_backoff` | none | classify, translate, compute waits | order of checks, rounding, caps | `ErrorTranslation` |
| Middleware, logging | `app/middleware.py`, `app/logging_config.py` | context variables, `request.state` | bind, reset, write the access line | what is reset before whom | `RequestPipeline` |
| Schemas, writes | `app/schemas.py`, `app/routers/issues.py` | none | validate, choose what is sent | null, absent and empty | `RequestPipeline` |
| Health and readiness | `app/routers/health.py` | none | `healthz`, `readyz` and its deep probe | a probe must not fail | `RequestPipeline` |
| Handlers of errors, contract | `app/main.py`, `openapi.yaml` | none | turn an exception into an answer | a handler that fails itself | `RequestPipeline` |
| Configuration | `app/config.py` | four required variables | refuse what needs an unset one | order against validation | `RequestPipeline` (the four) |
| Lifecycle | `lifespan` in `app/main.py` | opens and closes store and client | start, stop | what survives a restart | `WebhookGateway` (`Crash`), `ConditionalReads` (`Deploy`) |
| Walkthrough | `docs/capture_ui.py`, `docs/build_walkthrough.py` | pictures, `manifest.json`, a document | capture, build | late answers, runs that abort | `Walkthrough` |
| Shell scripts, deployment | `scripts/`, `Dockerfile`, CI | none | | | not modelled, see below |

The parts meet as follows. A webhook request passes admission, then the handler
calls the store from a thread pool, answers, and a background task of the same
request calls the store again. All handlers and `GET /events` share one
`EventStore` and its one lock. Issue routes share one `GitHubClient` on one
event loop, so its calls interleave only where they await: the HTTP exchange and
the sleep of a backoff. The two halves share the middleware, the configuration
and the error handlers, none of which keeps anything from one request to the
next. The walkthrough's programs share a directory, and look at the service
through a browser.

## Modules and the code

**EventStore** is the table and its writes, as operators. `rows` maps row ids to
rows, `lastId` is SQLite's sequence, and `locked` says that a `record()` call is
between its two commits. Everything else under the lock commits once and is one
step. `CommitInsert` and `CommitPrune` are the two commits; `AbandonPrune` is an
exception between them. A conflicting insert may or may not use up an id, as
SQLite pleases. Data columns that decide nothing are left out; of `error` and
`processed_at` only whether they are NULL is kept.

**WebhookGateway** runs handlers over the store. One handler is one request
from its store call to the end of its background task; `pc` names the awaits it
may stand at. Every store call may raise (`RecordRaises`, `PruneRaises`,
`ProcessedRaises`, `FailedRaises`), with the effect the code's `try` blocks give
that, and `Crash` ends the process at any moment: handlers are gone, committed
rows stay. `acked`, `inserts` and `orphans` are history variables. A client that
disconnects does not cancel its handler under uvicorn, so no such action exists.

**DeliveryLedger** is the promise without rows, ids, locks or handlers: a
delivery is accepted once while remembered, answered only after that, settled
once, forgotten only while `Retention` others are remembered. `KeepsLedger`
(in `WebhookGateway`) states that the gateway implements it; the mapping reads
where a delivery stands off the table, and "forgotten" off `inserts`.

**WebhookPowerLoss** extends the gateway by the state of the disk. `Sync` may
happen after any commit; `LosePower` cuts the history there.

**EventsFeed** puts one polling client next to anonymous handlers on the same
`EventStore` operators. `listing` is the last answer; properties relate it to
the next one. `tasks` are the row ids that background tasks still have to settle:
`EndInsert` adds one, `SettleRow` and `GiveUp` end one, `Redeliver` starts none, and
`Crash` forgets them all. No `UPDATE` of the store asks what status a row has, so
that a settled row stays as it was listed depends on who starts tasks. `ORDER BY id
DESC` is `NewestFirst`: the one descending sequence of the ids. A loss of power
between two answers is left out; across one, ids come again and statuses go back,
and what the module says of two answers does not hold.

**WebhookAdmission** is a function: `Verdict` is the answer of the first check
that refuses, in the code's order, and `DedupeKey` is what the store receives.
Bodies and headers are records of what a check can tell apart. Delivery ids are
strings of one column, as `webhook.py:203-205` stores them: the GUID header, cut, or
the digest of the body, which is a constant function to strings of the same kind
(`Digest`), so that a header may spell it and two bodies may share it. `RequestPipeline`
uses it for the requests to the webhook.

**ETagCache** gives the cache's operators on a sequence in order of use;
**GitHubClient** keeps one. In GitHubClient a
request on the `wire` may be handled at any later time or never, also after the
call gave up on that attempt, so a write may be carried out late, and next to its
retry. GitHub (external) keeps a version per URL, which is also its ETag; `current`
collects the versions a URL had while a call ran.

**ConditionalReads** puts the route `GET /issues` in front of `GitHubClient`. Its
callers keep what they were sent and ask with the tags in `If-None-Match`; the
route makes its own tag of GitHub's and `_PROJECTION_VERSION` and compares.
`Deploy` restarts the gateway with another projection, which loses the cache of
GitHub's bodies and none of the copies the callers hold.

**IssuePages** is a client that reads a page and follows links. GitHub's list and
its `Link` header are external: two rels on one link, opaque cursors and segments
that do not parse are among the choices. `InOrder` lists a set of places of the
list in the list's order, for GitHub's own filter as for the pull requests that
`list_issues` leaves out.

**ErrorTranslation** follows one GET through its attempts to the error its
caller sees. GitHub's response carries a `meaning` that no function of the
gateway reads; the properties compare it with the translation. Header values, clock
and sleeps are quarters of a second, and `Whole` is the `int(float())` that cuts the
fractions off where `errors.py:173,180` does.

**RequestPipeline** is one request of any operation from the middleware and back:
`Bind` names it, routing and validation accept it or raise, the handler answers
from the store, from the configuration, or from GitHub, and an error passes the
handlers of `app/main.py` and the middleware in the order the stack has. It
composes `WebhookAdmission` (the answer to a webhook) and `ErrorTranslation` (the
answer to a failed call). Payloads are functions on the fields that are present,
so a missing field and a null differ; `sent` is what GitHub was asked for, `lines`
the log with the ids each line carries, `reply` the answer with the id it names.
`context` (outside of the app), the app's copy of it and `request.state` are kept
apart, because a handler of exceptions sees one of them and not the others. `Schema`
is what `schemas.py` accepts and `Contract` what `openapi.yaml:896-945` describes;
`LetPass` is the difference.

**Walkthrough** is the script that drives Swagger UI and photographs it, step by
step, with answers that come while it photographs, and the program that builds a
document from the pictures and the manifest on the disk. The builder reads the
manifest (`ReadManifest`), looks for the files (`CheckFiles`), opens one after the other
(`AddPicture`) and saves (`Save`); a capture run may begin, delete and retake the
pictures between any two of these, and either program may fail anywhere. What the
page shows (external) is the last answer of each operation.

Operators named after another one with a suffix (`NewestAscending`,
`NotModifiedRereads`, ...) are plausible slips of it. No specification uses them;
with one in place of the original, the property `PROJECT.json` names beside it
fails in its run.

## Runs

| Run | Instance | Question |
| --- | --- | --- |
| `gateway_safety` | 2 handlers, 3 keys (1 poison), retention 2, 2 sends each, 1 fault, 1 crash | All safety and action properties, and the ledger |
| `gateway_abandoned` | as `gateway_safety` without faults, fair | Violated: an acknowledged delivery is always interpreted |
| `power_loss` | 2 handlers, 2 keys (1 poison), retention 1, 2 sends each, 1 fault, 1 loss, fair | Rows stay unique and consistent when ids are reused; every request is answered, every row settles |
| `power_loss_acked` | 2 handlers, 2 keys, retention 2, 1 loss | Violated: an acknowledged delivery is durable |
| `events_feed` | 4 keys of 2 events, retention 2, 5 ids, limits 1 to 3, any failures and crashes | What a poller may conclude |
| `client_reads` | 3 overlapping conditional reads, 2 lists, 1 cache entry, 1 edit, 1 deployment, budget 3 | The cache keeps its bound, what a read returns was current during it, and a 304 is true |
| `client_calls` | 2 overlapping calls of any method, 1 URL, 1 retry, 1 edit, budget 2, fair | Creates happen once, answers are true; calls end without GitHub's help |
| `client_exhausted` | 2 GETs, budget 1 | Violated: no call while the budget is known to be spent |
| `issue_pages` | lists up to 4 items of 3 kinds, pages of 1, 2 or 3 | Walks keep their question and are complete |
| `request_pipeline` | every operation, every set of unset variables, payloads up to 2 fields, 8 webhook bodies with every flaw, every failure of GitHub | What is sent, answered, logged; how long is slept |
| `invalid_input` | the same | Violated: invalid input is answered 400 |
| `walkthrough` | 2 capture runs of 18 steps, 1 build | Whose status and picture stand in the document |

**Bounds.** Two handlers are enough for any race over a row, since a row's
business concerns its owner and one other; three keys over a retention of 2 (two over 1)
make a row prunable while its handler still runs, and two sends per key make
duplicates in every state of the first copy. One fault and one crash, at any
point, reach each half-done state; the proofs cover any number of each. Three
reads are the least in which an older answer can overwrite a newer cache entry
while a third call holds the newer one; one deployment is enough for a tag of
another projection. One retry separates the last attempt from the others. A list
of four and pages of one give first, inner and last pages. A feed over a retention of
two has answers that are full and answers that are not, with rows pruned between
them; its fourth key can arrive while three rows, one pruning having failed, hold
the others. Payloads of two fields
have one to be wrong next to one that is right, or an unknown one; the only rule
about more than one field (an update changes something) concerns none. Of the
`X-Request-ID`s one is blank and one is used; the delivery ids are cut at two
letters (`MaxGuid`) where the code cuts at 128, and one of them is the digest of a
body. The clocks (in quarters of a second) stand at the start and near the end of a
second, resets lie on both sides of it, in the same second and within one, and two
retries give a first and a later backoff. Two capture runs are one whose files
another one meets, and one build is enough to meet both of them.

**Deadlock** checking is off in all runs: arrivals are bounded, calls are
made once, requests pass the pipeline once and capture runs are counted, so every
instance comes to an end.

**Fairness.** `WebhookGateway!FairSpec`, and with it `FairLossSpec`, lets each handler take the step it can
take: the event loop and the thread pool run what is ready. Store errors,
arrivals and crashes are not fair. Weak fairness suffices for the lock because
arrivals are bounded. `GitHubClient!FairSpec` lets a call's exchange end, at the
latest by the HTTP client's time-out, and its sleeps end; GitHub owes nothing. One
caveat: httpx applies `github_timeout_s` to each read and not to the exchange, so an
upstream that sends its answer in drips could stretch one exchange for as long as it
goes on, and `CallEnds` takes for granted that none does.

## What the code does and the documentation denies

* `gateway_abandoned`: `webhook.py:3` says "never lose a delivery" and
  `README.md:420` that `received` becomes `processed` or `failed`. After a crash
  between the commit and the end of the task, the row stays `received`, and a
  redelivery is taken for a duplicate and starts no task.
* `power_loss_acked`: `webhook.py:207` calls the step before the answer durable.
  With WAL and `synchronous=NORMAL` a loss of power may undo it.
* `client_exhausted`: `github_client.py:10` says that an exhausted budget
  short-circuits before another call. `request()` never looks at it.
* `invalid_input`: `main.py:110` says that the contract specifies 400 for bad
  input. A refused body that holds a NaN (which `json.loads` accepts) is answered
  with a 500: the handler echoes the value, and `JSONResponse` cannot write it.

Smaller ones, which the models show and no run of their own:

* `README.md:568` says a replay does not grow a second row. It does when retention
  has pruned the first (`store.py:178`); the ledger's `Forget` stands for it.
* `DESIGN.md:39` says that the request id appears in every log line. The traceback
  of an unhandled exception is logged after the middleware has reset the context
  variables, and carries none; `Traceable` excepts that line.
* `openapi.yaml` forgets the 404 that a list of issues and the 403 that a list of
  comments passes on from GitHub, and the 400 of `readyz?deep=` with no boolean;
  `Undocumented` lists them.
* `UpdateIssueRequest` lacks the check for blank labels that `CreateIssueRequest`
  has. A 200 of GitHub that is no list is answered as an empty one.
* `openapi.yaml:921-925` lets neither `title` nor `state` of an update be null, and
  `openapi.yaml:933` no label be empty. `schemas.py:54,56,58` accepts all three and
  sends them to GitHub; `SentIsWhatWasAsked` lists them in `LetPass`. The
  other way round, `schemas.py` refuses an update's title and a new issue's labels of
  nothing but white space, of which the contract says nothing; such payloads are not
  among the model's.
* The GUID header of a webhook is not signed, and shares a column with the digests of
  bodies without one (`webhook.py:203-205`): a header that spells `sha256:` and the
  32 digits of such a body, on a delivery of the same event and action, is taken for its
  duplicate. `OnlyReplaysConflict` says exactly when two requests have one row.
* A `Retry-After` or a reset that GitHub gave with a fraction is cut to whole seconds
  (`errors.py:173,180`), so that a caller who keeps to the 429's `Retry-After` may come
  back early by less than a second (`WaitIsLongEnough`). GitHub documents integers.
* `build_walkthrough.py:132` looks for all pictures and line 282 opens them one by one. Of
  a document built while a capture run retakes them, the first pictures may be of one
  run and the last ones of the next; `DocumentIsWhole` says that this is the only way.
* `manifest.json` of the walkthrough may note, for the steps 05, 09 and 13, the
  status of the operation's earlier call (`StatusIsItsOwn` says which).

## Proofs

Every invariant and every action property that a passing run checks is also a
theorem, for all values of the constants; what stays with TLC is at the end of
this section. The only assumptions are the named ones of the modules
(`RetentionAssumption`, `GatewayAssumption`, `FeedAssumption`, `CacheAssumption`,
`ClientAssumption`, `ReadAssumption`, `PagesAssumption`, `TranslationAssumption`,
`AdmissionAssumption`, `PipelineAssumption`, `WalkthroughAssumption`); the runs
evaluate all of them. They give the constants their types and ranges. Beyond that,
`PagesAssumption` says that an absent parameter is not one of the values of
`state`, `AdmissionAssumption` that NULL is no supported action, and
`PipelineAssumption` that the payload of an operation without a body has only the
fields the operation declares.

**The webhook half.** `WebhookGatewayProofs` proves, for any handlers, keys,
retention at least 1 and any bounds on arrivals, errors and crashes, that
`GatewayInvariant` holds in every reachable state, and from it `TypeOK`,
`NeverLost`, `OwnRow`, `OneOwner`, `UniqueKeys`, `SettledOnce`, `ReceivedIsOwned`
and `RetentionBound`.

Of these properties alone, none is inductive. `OwnRow` needs `OneOwner`, so that
nobody else settles a handler's row; that needs `OwnersHaveIds`, so that a new
id is new; `NeverLost` needs `KeptUntilAcked`, which follows a delivery from the
first commit to its answer, across prunings by others; `RetentionBound` needs
`SizeBound`, which counts the row above the bound inside `record()`.
`InsertedFirst` ties the history to the table for the refinement. Each conjunct
has a lemma with a step per action; `InvariantPreserved` puts them together.

The pruning query is a set comprehension over ranks, so `EventStoreProofs` first
proves what it does: the rank of an id (how many ids are above it) is a bijection
onto an initial segment (`RankIsBijection`); hence it keeps the smaller of the
table and the retention (`NewestCardinality`), removes something only if
`Retention` rows stay (`PrunedOnlyWhenFull`), and only the oldest
(`PrunedAreOldest`). The first two carry `SizeBound` and `KeptStaysKept`.

The same module then proves what a step may never do. Only `InsertRow`,
`PruneRows` and the two settling steps write the table (`WritersOfTheTable`), so
`SettledIsFinal` follows from `OwnRow` and `OldestGoFirst` from `PrunedAreOldest`.
Next, the gateway implements `DeliveryLedger` (`KeepsLedger`).
`Standing` is the refinement mapping, and `Mapped` what it says of the table once
`UniqueKeys` makes "the row of a key" definite; inserting maps to `Accept`,
pruning to `Forget` of the removed keys (of which `PrunedOnlyWhenFull` leaves
`Retention` others), settling to `Settle` or, for a row already pruned, to a
stutter, the 204 to `Acknowledge`, and every other step, crash and error to a
stutter.

Last, it proves `SettledOnceAfterLoss` for any number of losses. `LossInvariant` is the part of `GatewayInvariant` that speaks of
the table and the handlers (`HandlersAgree`), and the same of the table on the disk
(`DiskIsSound`): a loss puts the second in the place of the first and leaves no
handler. `NeverLost` and what carries it do not survive, as `power_loss_acked` shows.

**The feed.** `EventsFeedProofs` proves, for any retention, limits and filter, that
`NewRowsOnTop`, `StatusGoesForward` and `ShortAnswerIsComplete` hold of every two
consecutive answers with no loss of power between them. They speak of two answers, so an invariant has to carry what
the first one said through the steps between them: in `FeedInv`, `ShownInv` says
that a listed row still in the table has only gone forward, and `LeftOutInv` that a
matching row which was not listed is newer than the whole answer, or was crowded
out by newer rows all of which are still there. The second case is why pruning,
which takes the oldest first, lets no old row come up again: the rows that crowded
it out cannot go before it does. `UnsettledInv` is why statuses go forward although the
`UPDATE`s ask for none: a row that a task has still to settle, or that its `record()`
has not pruned behind yet, is unsettled, since only an insertion starts a task, and
each task ends with its one settling. `NewestFirstLists` proves that an answer is sorted,
with the ranks of `EventStoreProofs`.

**The client half.** `GitHubClientProofs` first proves what the cache does for any
size: `put()` leaves at most `MaxEntries` entries, no key twice, the new entry among
them (`StoreKeepsTheBound`), and a hit only reorders (`TouchKeepsTheEntries`).

It then proves `ClientInvariant` for any calls, resources, retries,
cache size, budget and changes by others, and from it `CreatedOnce`,
`WriteAnswerIsTrue`, `FreshRead` and `TypeOK`. None of the three is inductive. A
create that timed out may still be on the wire, so `CreatedOnce` needs a count:
what was carried out plus what is still `Awaiting` is at most the attempts, and a
POST has one attempt. What a read returns on a 304 is what the call read from the
cache before it sent, so `FreshRead` needs that every entry, cached or held, is a
version under its own tag, that a 304 answers the very tag the call sent, and that
an answer was current when GitHub gave it. `Sound(c)` says all this of one call;
`CallsLeftAlone` keeps it for the calls a step does not concern.

`ConditionalReadsProofs` composes: a step of the composition is one of the
client's or a deployment (`StepOrDeployment`), a deployment keeps
`ClientInvariant` since an empty cache satisfies it (`DeploymentKeepsClient`), and
so `FreshRead` survives deployments. `RouteInvariant` adds that answers are given
once, that a tag a caller asks with came with a full answer, and that a full answer's
tag determines its version and its projection; then two answers with one tag are
the same bytes, which is `NotModifiedIsTrue`.

**The listings.** `IssuePagesProofs` proves `LinksKeepTheQuestion`, `WalkGathersAll`
and `NothingLeftBehind` for any list, page size and first query. Its first part is about
ascending listings: `InOrder` yields one (`InOrderLists`), there is only one
(`ListingIsUnique`), a stretch of one is one (`StretchLists`), and adjoining
stretches make one (`StretchGoesOn`, `ListingGoesOn`); so what a page lists without
its pull requests, after what the pages before it listed, is what all of them list
(`ReadGoesOn`). Its second part is about links: whether rels share a segment or not
(`SegmentsSay`), `parse_link_header()` gives each undamaged rel its URL
(`HeaderIsParsed`), and the rewritten link parses to the caller's question about
that page (`RewrittenLink`, which needs that an absent filter and its default mean
the same). `PagesInv` adds to `WalkGathersAll` that the answer is one to the current
query and that the query is in range; without the first, nothing would be known of
the link that is followed next.

**One request.** `RequestPipelineProofs` proves all properties of the run
`request_pipeline` for any payloads, ids, headers, clocks, retries and settings the
constants admit. `PipelineInv` has one part for each thing that is computed at one
stage and looked at later: `TranslationInv` (the error and the sleeps belong to the
responses, so `MeaningIsKept`, `WaitIsLongEnough` and `SleepsAreObedient` reduce to
facts about the ladder of `from_github_response()`, `MeaningOfTranslated`,
`LongEnough` and `DelayIsObedient`; `WholeIs` bounds what `int()` cuts off),
`AdmissionInv` (the verdict is the one for
the request; `FirstRefusal` and `VerdictIs` say which check speaks), `IdsInv` (which
context holds which ids at which stage, for `Traceable`), `SentInv`
(with `SchemaIsTheContract`, that `schemas.py` and `openapi.yaml` differ by `LetPass`
only), and
`AnswersInv`, which follows the status of an exception through the handlers.
`StepsTouch` says which steps touch which part, so that each part has a short
preservation lemma of its own.

**The walkthrough.** `WalkthroughProofs` proves the three properties of `Walkthrough`
for any number of capture runs and builds. `AnswersAreSound` follows the answers: an answer on
the page is to a call already made and is not under way any more, and what is still
under way is the call just made or a second one of its operation. No operation is
called three times (`ScriptFacts`), so nothing can take the place of a step's own
answer between its tiles and its status. `FilesAreSound` says what lies in the directory
after each step: pictures of the last run, and a manifest whose statuses go together
with those of them that are of its run. `DraftIsSound` carries that into a document
under construction, past runs that begin and end meanwhile: its pictures are of the
manifest's run or later ones, in the order of the runs, and as long as the manifest on
the disk is of the draft's run, it is the draft's. Capture steps do not touch a draft
(`BuildUndisturbed`), build steps do not touch the files (`CaptureUndisturbed`).

**Model-checked only:** liveness (`CallEnds`, `RequestAnswered`, `DeliverySettles`),
which rests on fairness and is out of TLAPS's reach. The runs that expect a
violation are TLC's too: a counterexample needs no proof.

**What the proofs asked of the models.** The prover cannot look into `SelectSeq`,
`SortSeq`, `:>` and `@@`. `Verdict`, `NewestFirst`, `InOrder` and the queries of
`IssuePages` are therefore written with functions and `CHOOSE`, and mean what they
meant. `Writes` names the operations whose payloads have a schema of their own.

## Not modelled

* Wording of messages, the text of log lines, `redact()`, and the fields the JSON
  projections copy (`schemas.py`): data without decisions. That a projection
  raises on a malformed element is modelled.
* The orderly shutdown in `lifespan`: uvicorn lets requests and their background
  tasks finish before it closes the client and the store, which leaves nothing to
  interleave. A restart without order is `Crash`.
* Settings of `config.py` other than the four required variables: CONSTANTS with
  assumptions.
* Shell scripts, Docker and CI files: wrappers without state. That one process
  serves the requests is an assumption taken from them.
* Layout of the pictures and of the document. That Swagger UI keeps showing the
  last answer while the next call is under way is an assumption about it.
* A loss of power as seen by a client of `GET /events`; what it does to the table is
  `WebhookPowerLoss`.
* Half-written pictures and manifests: who reads one fails (`BuildFails`).
* Redirects that httpx follows, infinite header values (`Retry-After: inf`), and
  GitHub's own policy for ETags and `Link` on a 304: listed as hazards without a
  property.

## Plan

1. Done: the store and the receiver with proofs; admission; feed; loss of power;
   cache and client; listings; error translation.
2. Done: the conditional reads in front of the client, with deployments; the whole
   request from the middleware to its answer, with schemas, configuration, health
   and error handlers; the walkthrough; proofs about the cache, the client, the
   conditional reads, losses of power and the walkthrough.
3. Done: proofs about the feed, the listings, the error translation, the admission
   and the whole request.
4. Left: the hazards without a property; a listing that changes while a client walks
   it; the safety half of liveness (that a waiting call always has a step) as
   invariants.
