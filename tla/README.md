# A verification project for api-dev

TLA+ models of the parts of this API (and of its web client) whose correctness depends
on what happens between two steps: model-checked with TLC on small instances, and, where
it matters most, proved with TLAPS for every value of the constants.

Everything is run in this directory: `tlc -config DispatchCrashes.cfg
MCWebhookDispatch.tla`, `tlapm WebhookDispatch_proofs.tla`. `PROJECT.json` lists the
runs, the source lines behind each definition, the hazards of the code with the
properties that watch them, and the mutants: for each checked property a plausible bug
that breaks it.

## 1. The system

One Node.js process is an Express app on Postgres (Prisma) and Redis. Several such
processes may run side by side on the same database. `core/moduleLoader.ts` finds the
modules, sorts them by their dependencies, initialises them and builds their routes;
each request passes through authentication, scopes, rate limiting, (for some routes) the
idempotency lock, and validation before its handler runs. Modules speak to each other
through services they publish and an in-process `EventBus`.

| Component | State it keeps | Operations | What makes it hard | What makes it correct |
|---|---|---|---|---|
| Webhook deliveries and dispatcher (`modules/webhooks`) | `WebhookDelivery`, `WebhookDeliveryAttempt`; per process `tickInFlight`, the timer | `enqueue`, `tick` (sweep, claim, deliver), `replay`, `stop`, removal of an endpoint | several processes on one table, crashes anywhere, slow workers, an unordered `Promise.all` | one sender per delivery, every attempt counted, an earned and final verdict, no stranded row, eventual settlement |
| Endpoints and fan-out | `WebhookEndpoint`; bus subscriptions | create, update, pause, delete, test-fire, event to deliveries | events live only in memory, subscribers change meanwhile, one statement serves all of them | an event reaches all who want it and nobody else |
| Sender, signer, destination policy | none (one HTTP exchange) | `send` | addresses, timeouts | outcomes are classified rightly |
| Sessions (`modules/auth`) | `RefreshToken`, `AuthUser`, `ApiKey` | register, login, refresh, logout, API keys | no transaction between reading, revoking and issuing a token | rotation leaves one live token; reuse and logout end a session for good |
| Web client session (`web/src/api/client.ts`, `useAuth.ts`) | the pair in localStorage; `refreshInFlight` per tab | calls, refresh on 401, login, logout | concurrent 401s, lost replies, a second path that does not share the single flight | an honest client is never taken for a thief |
| Auth guard, rate limiter, router, registry | Redis counters; the route table | per request | two resolutions of one route, shared buckets, revocation meanwhile | no handler without its guards, no guard before a public route, one budget per bucket |
| Idempotency middleware | one Redis record per key | begin, complete, release | fire-and-forget writes, disconnects, expiry, crashes, resent commands | one execution per key, one answer for all who present it, no key stuck |
| Module loader, server lifecycle | load order, registry, HTTP server | discover, sort, init, mount, listen, shut down | failure half way, signals at any time, order of shutdown | dependencies first and last; everybody is answered before anything is destroyed |
| PDF rendering | permit count, waiter queue, one browser shared by all | acquire, launch, render, release, close | deadlines, aborts, hand-over and a dying Chromium race | at most `maxActive` renders, no lost permit, every request ends, no browser left |
| URL shortener, QR codes | rows with a unique code or id; hit counts | create, read, delete, follow | check-then-insert on codes, read-then-count on visits | a link stays with its creator, counts are exact |
| Web panels (`web/src/features`) | what is shown, busy flags, polls | press, answer, reload, poll, leave | overlapping loads, late and lost answers | buttons work again, the delivery log catches up, what is shown exists |
| Developer tools, errors and envelope, OpenAPI, template | none | pure functions, formatting | | |

How they interact: a request passes the guard, the limiter, the idempotency lock and
validation on its way to a handler; a handler emits an event on the bus; the webhooks
module turns it into one `WebhookDelivery` row per subscribed endpoint; the dispatchers
of all processes compete for those rows by claiming them. The web client calls the API
with an access token and trades its refresh token for a new pair when it gets a 401; its
panels call the API and poll it. At shutdown the server waits for its connections, then
destroys the modules in reverse order (which stops the dispatcher and closes the
browser), then exits.

The behaviours that are hard to test are listed in `PROJECT.json` under `hazards`, each
at its line with the properties that watch it.

## 2. Modules

| Module | Models |
|---|---|
| `DeliveryLifecycle` | the abstract promise: a delivery waits, has one worker at a time, gets at most `MaxAttempts` attempts, and ends for good unless it is replayed |
| `WebhookDispatch` | the delivery table and the dispatchers of all processes, statement by statement; implements `DeliveryLifecycle` |
| `RefreshTokens` | the `RefreshToken` table and the handlers of login, refresh and logout, statement by statement |
| `WebSession` | the tabs of one user of the web client, composed with `RefreshTokens` (which it extends) |
| `Routes` | the table of declared routes, how a path finds its route, and which requests are asked for a credential |
| `RequestPipeline` | requests on their way through guard, limiter, lock, validation and handler, on several processes with one Redis |
| `ModuleLoader` | one process from boot to exit: sort, hooks, signals, connections |
| `PdfRender` | permits, waiters, the shared launch and the life of a render |
| `Server` | `ModuleLoader` composed with `PdfRender`: a process that renders while it is told to stop |
| `Mishaps` | the users and the mishaps that the next three share |
| `ShortLinks` | short URLs and QR codes, one database statement a step |
| `WebhookFanout` | endpoints, and how an event becomes deliveries |
| `Console` | the panels of the web client, composed with `ShortLinks` and `WebhookFanout` |
| `MC*` | the instances for TLC |
| `*_proofs` | the theorems (section 4), next to the module they speak of; `DeliveryLifecycle_proofs` has those that `WebhookDispatch` implements it and what they rest on |

Operators whose comment begins with "Mutant" are the deliberate bugs of the mutants. No
specification uses them.

### WebhookDispatch

One step is one `await`: a database statement or the HTTP exchange. `delivery[d]` is the
row, `tick[p]` is process p's `runOnce()` (its phase names the statement it is about to
make; its `claim` is the `randomUUID()` of `claimDue`), `jobs` are the running
`deliver()` calls of all processes, `stopping` the processes whose `stop()` was called.
`round` and `left` are history and budgets.

| Action | Code |
|---|---|
| `CreateMany`, `Replay`, `DeleteEndpoint` | `enqueue`, `replay`/`requeue`, `remove` and the cascade of the schema |
| `TickStart` … `TickEnds`, `TickThrows` | `tick`, `runOnce`; `releaseStaleClaims` (`Sweep`); the three statements of `claimDue` (`Select`, `Claim`, `Load`) |
| `Send`, `Record`, `Settle` | `deliver`: the sender, `recordAttempt`, then `markSucceeded`, `markFailed` or `scheduleRetry` |
| `JobFindsNoRow`, `JobThrows`, `SettleThrowsAfterCommit` | a rejected `deliver()`, which ends its tick while its siblings go on |
| `Crash`, `Stop`, `Exit`, `Restart` | the process; `onDestroy`, `server.ts` |
| `TimePasses`, `ClaimAges` | `nextAttemptAt` falls due; `updatedAt` grows older than `staleClaimMs` |

Abstractions:

- Time. A row is due or will be; every newly written `nextAttemptAt` starts in the
  future, and time may pass at once. A row's `updatedAt` only matters against
  `staleClaimMs`. Backoff and jitter are delays, and the model allows any delay.
- `Select` picks any due rows, as many as the code would: `orderBy` decides which, and
  no property relies on it.
- Claim ids come from a finite set but are never reused while a row, a tick or a job
  refers to them, which is what a random UUID gives.
- `replay` first reads the row to choose its error message; the guarded update decides.
- A statement that commits and then throws is modelled for the last statement of
  `deliver()`. For the others it is the same as a commit followed by a throw of the next
  statement.
- `url`, `secret`, `active`, payloads, response bodies and logs are left out.

### RefreshTokens and WebSession

`token[t]` is a row (`expiresAt` has or has not passed, `revokedAt` is or is not set),
`request[r]` a handler and the statement it is about to make. `Find`, `Kill`, `Revoke`
and `Issue` are the four statements of `refresh()`; `logout()` uses the first and third,
`login` and `register` the last. Any statement may throw (`Throw`), and the process may
die (`Abort`). Alone, `ServerSpec` lets anybody present any token at any time. `past`
records the families on which two handlers ever worked at once (`clashed`) and those
ended by a reuse or a logout.

`WebSession` adds the browser: `stored` is the pair in localStorage (named by its
refresh token), `flight[tab]` the call that runs `refreshInFlight`, `call[c]` how far a
call's refresh is. Calls through the `api` client join a running refresh of their tab
(`JoinRefresh`); calls through `authorizedFetch` never do (`StartRefresh`). A refused or
failed refresh clears the pair, whatever its status; a lost reply leaves it. The access
token has no variable: it is stored with the refresh token, and a 401 may come at any
time. The retry after a refresh changes no state. `UseElsewhere` is anybody else with a
copy of a token.

### Routes and RequestPipeline

`Routes` is the set of all route declarations, as the modules hand them to
`createModuleRouter`, with method, path, credential, scopes, idempotency and bucket.
`Serves` is Express's matching (HEAD is served by the GET route); `IsPublicRoute` is the
guard's own lookup with `path-to-regexp`. That they are two is the point.

`req[r]` is a request: its phase names the await it stands at. `idem` are the Redis
records, `outbox[p]` the commands process p has issued without awaiting them (completion
and release of a key), which Redis executes in order and before any later command of
that process; `used` are the limiter's counters. `admitted`, `reopened` and `abandoned`
are history: who was let through in the current window, which keys were given up while
they were valid (a failed handler, a disconnect, an expiry), and which have lost their
holder (a crash, a lost write, a command that Redis executed twice).

| Action | Code |
|---|---|
| `Arrive` | the guard's decision, `isPublicRoute` (`auth.ts`, `moduleLoader.ts`) |
| `Authenticate` | `authenticate`, `requireScopes` |
| `Consume` | `rateLimit.ts`, and the validation of routes without a lock |
| `Acquire`, `AcquireTwice`, `Get` | the `SET NX` and the `GET` of `idempotency.ts`; the resend of a command whose reply was lost |
| `Create`, `Respond`, `Refuse`, `HandlerFails` | the handler, `asyncHandler` and the error handler |
| `Disconnect` | the `close` listener: the key is released, the handler goes on |
| `Write`, `WriteFails`, `Expire`, `Crash` | Redis and the process |
| `RevokeApiKey`, `WindowEnds` | `DELETE /auth/api-keys/:id`; the limiter's window |

A handler is reduced to whether it creates something, reads something or refuses. A body
is a name. An idempotency key expires only while nobody works under it: it lives for 24
hours.

### ModuleLoader, PdfRender and Server

`ModuleLoader` takes `topologicalSort` turn by turn: `queue`, `inDegree` and `ordered`
are its variables, `Pick` is one turn of its loop. Names are compared by `Rank`, as
`sort()` does. Then one step is one awaited hook. A signal during the boot, or a second
one of the same kind, kills the process, because `server.ts` installs its handlers after
`listen` and with `once`. What a manifest lacks (a wrong name, path or version) is one
flag, `valid`.

In `PdfRender`, `render[c]` is the place of a request: `check` (validation and the
lookup of the host), `queued`, `launch`, `context`, `work`, `closing`, `over`; `active`
and `waiting` are the fields of `RenderGate`. A step runs from one await to the next
together with the microtasks that follow at once: a released permit is the waiter's
before another request can ask. An aborted request that awaits its check, the launch or
the context does not notice, as in the code.

`Server` ties the two together: a connection carries one render, ends with the answer or
when the client gives up, and `onDestroy` of the pdf module closes the browser that is
known at that moment.

### ShortLinks, WebhookFanout and Console

`link[k]` is a row of either table, `call[c]` a call to the API with the statement it is
about to make: `Exists` and `Insert` (a create, with its redraws), `Delete`, `Find` and
`Count` (a redirect, a scan, an owner's look). `Commits` answers a statement that
changed a row or loses its result.

In `WebhookFanout` an event is emitted (`Emit`), its subscribers are found
(`FindSubscribed`) and its deliveries are written (`CreateMany`), in three steps with
any change to the endpoints between. `steady` and `ever` write down who wanted the event
all the while, and who ever did; `harmed` whether something went wrong with it. A
delivery has only its status here; `WebhookDispatch` has the rest.

In `Console`, `screen` is the open panel, `work[f]` the handler that has set busy flag
f, `gets` the loads under way, `panel` what is shown. `Press`, `Answer` and `Lost` are
common to all handlers, `LoadDeliveries`, `ServeGet`, `Arrive` and `LoseGet` to all
loads; `Poll` is the timer of the delivery log, `Reopen` leaves the panel and comes
back. Other clients of the API (`OtherCall`, `OtherEndpoint`, `OtherEvent`) act beside
the panel; among them is the panel's own user, in a second tab or with an API key. Two
fields of `panel` are history, which no guard reads: `told`, the deletions the panel has
been told of, and `crossed`, the calls that were under way when it was told.

## 3. Runs

| Run | Instance | What it shows |
|---|---|---|
| `dispatch_crashes` | 2 processes, 2 deliveries in one batch, 2 attempts, a crash or stop, a replay | the claim protocol: `ExclusiveSend`, `AttemptsAccounted`, `VerdictJustified`, `CompletedIffSettled`, `SettledIsFinal`, and the refinement of `DeliveryLifecycle` |
| `dispatch_faults` | the same with a throwing statement and an endpoint deleted under running deliveries | the protocol survives orphaned `deliver()` calls: `AttemptsAccounted` and the refinement |
| `dispatch_late` | a claim outlives `staleClaimMs` under a living worker; a replay; a deletion | rows may be overwritten, but none is stranded and none overdraws its budget |
| `dispatch_live` | 1 process, 2 deliveries that compete for batches of one, a fault, a crash or stop | `EventuallySettled`, `ShutdownCompletes`, `BoundedConcurrency`, `ExitAbandonsNothing` |
| `dispatch_live_race` | 2 processes race, one may crash | `EventuallySettled` |
| `dispatch_unsettled` | 2 processes, 1 delivery, one late worker | counterexample, see section 6 |
| `dispatch_overlap` | 1 process, 4 deliveries, one endpoint deleted | counterexample |
| `web_session` | 2 `api` calls and 1 `authorizedFetch` of one tab, its login form, 1 other holder; 3 tokens, 2 sessions, 1 mishap | `HonestSessionSurvives`, `StoredPairIsLive`, and the server's four guarantees in that setting |
| `single_use` | the same | counterexample |
| `api_requests` | 2 processes, 3 requests from one of three menus, 1 API key that may be revoked, 1 mishap | what the middleware promises together: `ServedIsAuthorised`, `PublicNeedsNoCredential`, `BudgetShared`, `OneExecutionPerKey`, `NoOrphanLock` |
| `server_lifecycle` | every dependency graph of 3 modules over a menu of dependencies, 4 faulty directories; 3 clients, 1 permit, 1 place in the queue, both signals | `SortedIffPossible`, `DependenciesAlive`, `PermitsConserved`, `AnsweredBeforeTeardown`, `BrowserClosedAtExit`, `RendersEnd`, `ShutdownEnds` |
| `console` | 7 screens; 2 users, 1 short code, 1 QR id, 4 calls, 2 attempts, 2 endpoints, 1 event, 1 mishap | `LinksKept`, `FanOutExact`, `ShownIsReal`, `LogCatchesUp`, `PanelsRecover` |

### Bounds

Dispatcher and sessions. Two processes and two deliveries give every race for a row,
partly lost batches, and siblings of one `Promise.all`; four deliveries and a batch of
two are needed for two batches to overlap. Two attempts give a retry and a spent budget.
Three claim ids cover two running ticks and a claim left behind. Budgets of one for
crashes, faults, lateness, replays and deletions put each anywhere in a behaviour; runs
combine those that interact. Three tokens allow a login and two rotations, or two
sessions, one of them rotated. One mishap (a lost reply, a failing statement, a second
concurrent refresh, or a use elsewhere) may come at any step. Two tabs behave towards
each other as `authorizedFetch` does towards the `api` client: neither sees the other's
`refreshInFlight`.

Requests. A menu is what the clients of one behaviour may send: creations of one user
under one key, by session and by API key, with two bodies and an invalid one; calls of
two routes that share a bucket; and calls the guard has to sort (public by GET and by
HEAD, a missing scope, an expired token beside a good API key, an invalid body). Three
requests are a holder, a rival and a later retry. `Scaled` counts twenty points as one
request, so that three requests can exhaust a budget; a window ends only once its budget
is spent. `MaxMishaps` is one: a crash, a disconnect, an expiry, a failing or repeated
command, at any step.

Server. Three modules are the fewest with a chain, a fork, a join and an indirect cycle;
the menu of dependencies contains a repeated and a missing name and itself. `Busy`
restricts load and signals to two acyclic deployments, with modules destroyed before and
after the renderer. Three clients, one permit and one place in the queue give a holder,
a waiter and a client who is refused; either may be aborted, timed out or handed over
to.

Console. `Visited` is one screen a behaviour, since a panel has no state that outlives
it; `"login"` is the API without a panel. Which other clients act beside which panel is
bounded by `LinkTraffic`, `QrTraffic` and `HookTraffic`: beside the URL panel both users
create and delete links elsewhere, the panel's own user included; where no panel is open
only the other user does; endpoints change and events are emitted beside the PDF panel,
which ignores them, since the webhooks panel makes its own changes. `PanelCalls` and
`MaxCalls` bound the calls: four are two rivals for a code, a deletion and a visit. One
code makes every draw a collision. `Registered` is the endpoint the panel creates. There
is one load of a kind at a time (so two polls never overlap, only a poll and a reload),
and the log is not loaded beside the load that opens the panel; there are no more
test-fires than events; an endpoint that changes elsewhere subscribes to pings or to
everything; a panel is not left while the API has yet to see one of its calls.

Symmetry (deliveries of one endpoint, claim ids, processes, tokens, sessions, calls of
one kind, requests) is used in safety runs only: none of these values is ordered or
named by the specification.

### Premises

`Timely` (no claim has outlived `staleClaimMs` under a living worker so far) and
`Undisturbed` (no statement has thrown, no endpoint was deleted so far) are premises of
the properties that need them; section 6 shows that they are needed. `Orderly` in
`WebSession` says that every refresh was answered, none overlapped another, and nobody
else has used the tokens. `OneExecutionPerKey` speaks of keys not in `reopened`,
`NoOrphanLock` of keys not in `abandoned`, `BrowserClosedAtExit` of behaviours in which
no client gave up: what the code does beyond these premises is in section 6 as well.
`ShownIsReal` has no premise; it says which deletions may leave a link on show.

### Fairness

`dispatch_live` and `dispatch_live_race`, all of it weak:

- `TickStep(p)`: `setInterval` keeps calling `tick()`, and every statement returns or
  throws.
- the steps of a `deliver()` call: the sender is bounded by `AbortSignal.timeout`,
  statements return.
- `Exit(p)`, `Restart(p)`: `server.ts` exits after `onDestroy`; `docker-compose.yml`
  restarts the container.
- `TimePasses(d)`, and `ClaimAges(d)` for a claim nobody holds: the clock advances.

`server_lifecycle`, all of it weak: what the code awaits ends. The hooks of the modules
return or throw; a launch, a new context and the closing of a context resolve or reject;
the timers of the queue and of the deadline fire; an answer reaches its client or the
client is gone. No order between renders is assumed: waiters are served because a permit
is handed over.

`console`: the API serves what it has received and its answers arrive or fail, the
interval of the poll fires, handlers of the event bus run on, the dispatcher claims
(weak); and a delivery under way is at some time settled rather than put back (strong,
per delivery, because `Retry` may come in between: `maxAttempts` bounds its retries,
which `dispatch_live` shows).

Nothing is assumed of users, and no fault has to happen.

## 4. Proofs

Every invariant and action property that a run checks, and the refinement, is also the
statement of a theorem. All theorems hold for any sets and bounds that satisfy the named
assumptions, which TLC evaluates in the runs: `DispatchConstants`, `TokenConstants`,
`SessionConstants`, `PipelineAssumption`, `LoaderAssumption`, `RenderAssumption`,
`ServerAssumption`, `MishapsAssumption`, `LinksAssumption` and `ConsoleAssumption`
give the constants their types and keep values of different kinds apart. The others are
`NobodyIsNoProcess` and `NobodyIsNoToken` (the markers for "no claim" and "no user" are
no process and no token), `FiniteTable` (a table has finitely many rows) and
`ScaledAssumption` (a budget, counted in requests, is a natural number).

`WebhookDispatch_proofs`:

- `TypeCorrect`, `NoDeliveryStranded`, `AttemptsBounded`, from the invariant `BasicInv`.
  `NoRowStranded` and `AttemptWithinBudget` are not inductive alone: what `Settle`
  writes depends on the attempt number and result its job carries, so `BasicInv` adds
  `JobKnowsResult` (a job past `send` has a result) and `TickHasClaim` (a tick at work
  has a claim id). No premise on time, faults or crashes is needed.
- `SendIsExclusive`, `SettledDeliveriesStay`, from `TimelyInv`: as long as no worker was
  late, `ClaimProtocol` holds. Exclusive sending follows from claims being distinct
  between processes, every job of a waiting tick carrying that tick's claim, a row that
  carries the claim of a loading tick having no job yet, and no held claim being stale
  (so that the sweep takes only abandoned rows). Each part rests on the others, and so
  they are proved together, one step per action.

`DeliveryLifecycle_proofs` looks at one delivery. Lemma `OneOfNine` says that a step of
the dispatchers, as long as no worker was late, is one of nine things to it: it passes
unnoticed, enters, returns (a replay), vanishes, or its `deliver()` starts, hears the
answer, logs it, ends or fails. Everything else follows from the nine.

- `BooksBalance`, `VerdictsAreJust`, `CompletedMeansSettled`, from `LedgerInv`: between
  the log entry and the update of the row a `deliver()` is one attempt ahead of
  `attemptCount`, and its answer is the verdict (`AttemptsInBooks`). Without it the
  property could not survive the last statement.
- `DispatchersKeepThePromise`: each of the nine is a step of `DeliveryLifecycle` or a
  stutter, under `[]Timely`; `LedgerInv` supplies the guards of the abstract steps. When
  the bounds allow no late worker (`MaxLate = 0`) the premise holds of itself
  (`PromptDispatchersKeepThePromise`).
- `ConcurrencyIsBounded` and `ExitIsClean`, from `CrewInv`: as long as nothing throws, a
  process runs `deliver()` calls only for the tick that waits for them (`CrewOfTick`),
  their rows are there (`CrewHasRows`), and a tick picks at most `MaxConcurrent`
  (`BatchSmall`), so at most as many run. An exit needs an idle tick, which has no crew.

`RefreshTokens_proofs`:

- `ServerTypeCorrect`, from `TypeInv`: a handler's token was issued, and a refresh about
  to issue has revoked its own.
- `RotationIsSafe`: revocation is never undone (`TokensGrow`), so a parent stays
  revoked.
- `DeadIsForever`: in a dead session every token is revoked, and every handler either
  kills or logs out, so the only action that could revive it, `Issue`, is out of reach.
- `OneTokenPerSession`, `EndedIsDead`, from `SessionInv`: on a session without clashes
  at most one handler is at work, at most one token is unrevoked, it is the one that
  handler is about to revoke, there is none while the handler is about to issue, and an
  ended session has neither token nor rotation under way.

`WebSession_proofs`:

- `TypeCorrect`; `UsesServer` (every step of the composition is a step of the server or
  none) and `SessionsAreSafe`, which carries the four guarantees over.
- `HonestSessionIsSafe`, `StoredPairStaysLive`, from `Orderly => Honest`. At most one
  refresh is under way, only it and the login forms are heard by the server
  (`OneAtATime`), and a pair that is stored, presented or on its way to a form or to the
  refresh is the one live pair of its session (`StoredSole`, `RefreshSole`). That is not
  inductive alone: a login form may answer at any time, and what it stores must not
  share a session with the refresh, with another form, or with what was stored
  (`Apart`). Under `Honest` no handler finds a revoked token, so none reaches
  `revokeRefreshTokenFamily`.
- `OrderlyUseIsSingle`: under the same premise no token is traded in twice, which the
  run `single_use` refutes without it. Its invariant is `UsedOnce`: besides the pairs
  already issued, a refresh that has revoked its token and not yet issued is the first
  for that token.

`RequestPipeline_proofs`:

- `OneExecution`, from `Inv`. The property compares two requests; the invariant compares
  each with the record of the key, which is why it is inductive: as long as a key is not
  given up, whoever works under it is named by its record (`WorkerHolds`), whoever was
  answered has the answer of that one (`AnswerIsHolders`), a request whose `SET NX`
  failed will find a record (`TakenStaysTaken`), and no write in any outbox will change
  whose record it is (`QueueInv`). Two executions would both be named by one record.
- `KeysAreReleased`: whoever takes a record in progress off its holder puts the write
  that ends it into the outbox in the same step, or puts the key into `abandoned`. It
  rests on `SoundInv`: only a running request holds a lock, and it has a process.
- `ServedAreAuthorised`, `PublicStaysOpen`, from `GuardInv`: a request past the guard has
  what the guard asked for (`Cleared`), and whoever a record or a write under way names
  is past the guard, keyed, and of that slot (`RecordSound`), so that what is replayed
  was answered to the same user. The proof showed that a key with the scope `"*"` has
  every scope (`moduleRouter.ts:111`), which `ServedIsAuthorised` now says; the keys of
  the run had none.
- `BudgetsAreShared`, from `BudgetInv`: those let through from one budget are finitely
  many, at most as many as were counted, and no more is counted than the budget holds.
  Lemma `BucketHasOneLimit`: routes of one bucket declare one limit, so that two requests
  of one caller and bucket count against one budget.

`ModuleLoader_proofs`, from `LoaderInv`:

- `SortsWhatItCan`: the counter of a name is the number of places in its list of
  dependencies that are not ordered yet (`SortSound`), every ordered name comes once and
  after its dependencies (`OrderSound`), and so no circle is ordered
  (`OrderedNotCyclic`). When the queue is empty, the names left out each wait for
  another one left out: a circle, or a missing name.
- `DependenciesStayAlive`: what has started is an initial piece of the order, and what
  has stopped a final one (`HooksSound`).

`Server_proofs`:

- `ServerImplementsItsParts`: every step of the server is a step of the loader or none,
  and a step of the renderer or none; so `ServerKeepsTheOrder` carries the loader's
  theorems over.
- `PermitsAreConserved`, from `RenderInv`: what is active is the number of requests that
  hold a permit (`PermitsSound`), and the queue has those that wait, each once, and only
  when every permit is given (`QueueSound`).
- `NobodyIsCutOff`, `NoBrowserIsLeft`, from `ServerInv`: a request whose client waits has
  its connection open (`Connected`), no module is destroyed while a connection is
  (`Quiet`), and a renderer destroyed with nobody gone has no browser, nor a request
  that could launch one (`NoBrowser`).

`Console_proofs`: lemma `ConsoleUses` says that every step of the composition is a step
of the fan-out and a step of the links, or none; the first two theorems need only those.

- `FansOutExactly`, from `FanoutInv`: what an event knows, by the phase of its fan-out.
  While it is on the bus, `steady` is a subset of those who want it now, who are a
  subset of `ever`; once its subscribers are found, they lie between the two; once it is
  queued, they have their deliveries.
- `LinksAreKept`, from `LinkInv`: a row names the call that made it, which is through,
  has that code and that user (`RowInv`), and its count is the cardinality of the set of
  visits answered with it; a call that has passed its lookup still fits its code
  (`CallInv`); QR ids are drawn once (`DrawnOnce`). Without the last, a second creation
  could take the row of the first.
- `ShownIsThere`, from `PanelInv`: the row behind what is shown, and behind every answer
  on its way to the panel, is there or its user has deleted it (`Known`), by a deletion
  of which the panel has not been told, or beside whose answer the call that shows it was
  under way (`Sure`). A row leaves the table only by a deletion of its user, whoever sent
  it (`LinkInv` names the call that made each row); when the panel is told of one, every
  other call of its own that is still under way is in `crossed`, and what it showed is
  gone.

Only model-checked: liveness under fairness, which is out of the prover's reach
(`EventuallySettled`, `ShutdownCompletes`, `RendersEnd`, `ShutdownEnds`, `LogCatchesUp`,
`PanelsRecover`), and the counterexamples of section 6.

## 5. What is not modelled

- The DNS and HTTP exchange of the webhook sender, its signature and the policy on
  addresses; the request filter and the output limits of PDF pages; payloads, the
  wording of errors and the envelope, request ids, logs. No step of another actor can
  disturb them.
- What the developer tools compute: stateless functions over strings.
- Accounts: registration beyond its first pair of tokens, passwords. One statement with
  a unique key each.
- Reading the modules directory (`import` of the manifests), which is taken as given.
- The `url`, `secret` and `active` a delivery was claimed with (a paused endpoint still
  gets its retries): nothing in the repository says which value a delivery under way
  should see.
- OpenAPI generation and the module template, which have no behaviour; layout, forms and
  the clipboard of the panels; migrations and deployment, except the constraints of the
  schema, which are part of the actions that run into them.

`PROJECT.json` gives the status of each component.

## 6. Findings

- `dispatch_unsettled` (`prismaWebhooksRepository.ts:144`). The writes that end an
  attempt ask only for the row's id. A worker that is slower than `staleClaimMs` loses
  its row to the sweep of another process; if that one has settled the delivery by then,
  the late `scheduleRetry` puts it back to `pending`, and it is sent again. The comment
  in `webhooks.types.ts:4` excludes this.
- `dispatch_overlap` (`deliveryDispatcher.ts:66`). `Promise.all` rejects with the first
  `deliver()` that rejects, for instance because its endpoint was deleted. The tick
  ends, its other deliveries go on, and the next tick claims a full batch beside them.
  The comment at line 71 says that ticks do not multiply concurrency.
- `single_use` (`auth.service.ts:74`). Reading and revoking a token are two statements
  without a condition on the second: two requests with the same token both get a pair.
  The counterexample is one honest tab, in which `authorizedFetch` refreshes beside the
  `api` client. `auth.routes.ts:48` calls refresh tokens single-use. The theorem
  `OrderlyUseIsSingle` says when they are: while no two refreshes of one browser
  overlap, none goes unanswered and nobody else uses its tokens.

What the other models showed about the limits of what the code promises, met while the
premises of the properties were found; no line of the repository says otherwise, or it
does so only in passing:

- Idempotency keys. A client that disconnects releases its key while its handler goes on
  (`idempotency.ts:61`), and a retry may execute a second time. A retry whose `SET NX`
  failed and whose `GET` then finds nothing runs without the lock, beside whoever takes
  it next. When Redis executes a `SET NX` whose reply is lost and the client library
  sends it again, the request finds its own record and is answered 409, and so is every
  retry for 24 hours; so it is after a crash.
- HEAD on a public GET route is asked for a credential (`auth.ts:99`), GET is not.
- Limits are kept per bucket, points and caller (`rateLimit.ts:25`); the README's line
  158 speaks of limits per API key.
- A test-fire of one endpoint (`webhooks.controller.ts:85`) pings every endpoint of the
  user that subscribes to `webhook.ping`, and not itself unless it subscribes.
- An event is lost for all its subscribers if one of them is deleted between
  `findSubscribed` and `createMany`, and by any failure between the two.
- A client whose refresh was carried out but not answered keeps the old token, and its
  next refresh revokes the family (`client.ts:73`). A refresh that overlaps the end of its
  session by another handler outlives it (`auth.service.ts:69`).
- A browser can be left at the exit if a client gave up while the browser was being
  launched: nobody waits for its request any more, and `close` finds no browser to
  close.
- The URL panel may go on showing a deleted link: if its user deleted it elsewhere, if
  the answer to its own deletion was lost or an error, or if a lookup that was under way
  when that answer came shows it again.

## 7. What could come next

In this order:

1. Theorems that tie the modules together: that `WebhookFanout`'s deliveries are those
   that `DeliveryLifecycle` promises to end, and that the statuses which `Console` lets a
   delivery go through are those of `WebhookDispatch`.
2. What limits the findings: by how much an orphaned `deliver()` can exceed
   `MaxConcurrent`.
3. Larger instances of `console`: two codes and two events.
