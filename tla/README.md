# Helix Platform: TLA+ models, model checking and proofs

Helix is one NestJS API in which many products (Calendar, Meet, Drive, Notes,
...) share a kernel: authentication, tenancy, RBAC, quotas, rate limits, an
event bus with a transactional outbox, unified search, audit. A worker process
runs beside it, and every frontend talks to it through one SDK client. The API
runs in several replicas over one PostgreSQL and one Redis, so nearly every
operation is a sequence of separate statements that other processes interleave
with. That is what these modules are about.

All paths below are relative to the repository's root.

## Inventory

| Part | Source | State it keeps | Operations | What is hard about it | What makes it correct |
| --- | --- | --- | --- | --- | --- |
| Event bus | `apps/api/src/platform/events/in-process-event-bus.ts` | table `OutboxEvent` (status, attempts, availableAt), handler map in memory | `publish`, `subscribe`, `relay` every second | calls of `relay` overlap in one replica and between replicas; handlers outlive a rejected `Promise.all`; process exits; stale `attempts` | at-least-once delivery, bounded retries, no starvation, nothing parked early |
| Worker relay | `apps/worker/src/main.ts` | claimed rows in memory, queue `helix.events` | `relayOutbox` every 500 ms, the queue's consumer | claims the same table as the API relay; a crash between claim and enqueue | an event is enqueued once; published means handled |
| Products: Meet, Calendar, Drive, Notes | `apps/api/src/products/*` | `MeetRoom`, `CalendarEvent`, `DriveNode` rows | create, schedule, upload, delete; reaction of Calendar to Meet | row and event are separate transactions; a handler is repeated | no phantom events, every room reaches the calendar |
| Unified search | `apps/api/src/platform/search/search.service.ts` | `SearchDocument` | `index`, `remove`, `search` | events arrive again and out of order | the index follows the rows |
| Authentication | `apps/api/src/platform/auth/auth.service.ts` | `Session` rows, stateless access tokens | `login`, `refresh`, `logout`, `register` | a refresh is four statements; two refreshes race; the family kill races with both | one successor per refresh token, a killed family stays dead |
| SDK client | `packages/sdk/src/client.ts` | token pair, shared refresh promise | `request`, `doRefresh` | concurrent 401s, late 401s, a failed refresh | one refresh per expiry, an honest client is never accused |
| RBAC, tenancy, cache | `apps/api/src/platform/rbac`, `platform/tenancy`, `shared/redis` | roles, product accounts, Redis entries with a TTL, permissions copied into tokens | `permissionsFor`, `resolve`, `enableProduct`, `disableProduct`, `cached` | read-through fill races with invalidation; two TTLs add up | bounded drift |
| Quotas, rate limits | `platform/billing/quota.service.ts`, `platform/rate-limit/rate-limit.guard.ts` | Redis counters | `consume`, `flush`, the guard | reservation and refund race at the limit; a crash between them | the limit is never exceeded, the counter is off by no more than what was cut short |
| Request pipeline, audit | `apps/api/src/app.module.ts`, `platform/audit`, `shared/http` | request context, `AuditLog` | the five global guards and interceptors, the problem filter | order decides what a guard can read and what is audited | refusals are answered in order and audited |
| Product registry, manifests | `packages/core/src/registry.ts`, `product-manifest.ts`, `apps/api/src/platform/registry`, `products/*/*.manifest.ts` | manifests, table `Permission` | `register`, `validate`, `permissionCatalogue`, boot, `syncCatalogue` | replicas of several releases boot in any order over one catalogue; a sync that fails is a warning | what serves is sound, and finds its permissions |
| Product generator, demo seed | `tools/generators/product/index.mjs`, `apps/api/prisma/seed.ts` | the source tree; rows written beside the API | `gen:product`, `db:seed` | text edits of the registry's list; a second copy of the permissions | no role reaches what no manifest gave it |
| Storage, flags, notifications, health, RLS, worker maintenance, web, admin, observability, infrastructure | see `PROJECT.json` | | | | storage in part, the rest not modelled, reasons below |

Interactions. A request passes the pipeline (token, tenant, rate limit,
permission), runs a product's service, which writes its row, consumes quota and
calls `publish`. `relay` (API) and `relayOutbox` (worker) drain the outbox;
handlers of `relay` call back into products and search, and may publish again.
Access tokens carry permissions computed through the Redis cache when a session
is issued; the SDK client trades refresh tokens for sessions. Before any of
this, a process registers its products' manifests, validates them and syncs their
permissions into the database, where registrations and the seed grant them to roles.

## Modules

### `EventBus`

The outbox and everything that drains it. An event is its position in creation
order (the table is read `ORDER BY createdAt`).

| Model | Code |
| --- | --- |
| `status`, `attempts`, `name`, `due` | columns of `OutboxEvent`; `due` says whether `availableAt` has passed, so time is the one action `BackoffElapses` and the backoff's length is abstracted |
| `Publish` | `publish()`: one INSERT |
| `RelayPoll` | the SELECT; it takes no mark on the rows, since its row locks end with the statement |
| `RelayRead` | `findUnique` and the start of all handlers |
| `HandlerResolves`, `HandlerRejects` | one handler's promise settles; the first rejection ends `Promise.all` and leaves the rest as `orphans` |
| `OrphanSettles` | such a handler finishes with nobody waiting |
| `Ack`, `AckFails`, `Nack` | the update to published, the same update throwing (applied or not) into the catch block, and the catch block itself |
| `Crash` | a replica exits and restarts: its relays, running handlers and orphans are gone |
| `WorkerClaim`, `WorkerEnqueue`, `WorkerFails`, `ConsumeJob` | `relayOutbox()` statement by statement, a rejected add or an exit, and the consumer, which does nothing |

`Relays` are calls of `relay()` that may be in progress at once, `HostOf` the
replica each runs in: `setInterval` does not wait for the previous call, so two
of them may share a replica. `delivered` and `failures` are history variables.

### `EventDelivery`

The abstract specification: an accepted event is delivered to handlers, and is
`published` only when every subscribed handler has completed once. It may be
parked or taken up again. It has no relays, rows, counts or crashes. `Reply` is a
handler that has an event of its own accepted as it completes, which is what Calendar's
reaction to Meet does. `EventBus`, and `ProductFlow` on top of it, implement it with
`phase <- status` (`ImplementsDelivery`); the run `EventBus` checks the one, theorems
prove both.

### `ProductFlow`

Extends `EventBus` with the products' requests and handlers. `InsertRow`,
`NameNote`, `CreateFolder`, `ConsumeQuota`, `InsertEvent`, `DeleteEvent` and
`RequestPublishes` are the statements of the services, `RequestAborts` a throw
or exit between two of them. `FlowHandlerResolves`, `ReactInserts` and
`ReactPublishes` are the handlers the product modules subscribe
(`ProductSubscriptions`); `OrphanInserts` and `OrphanPublishes` are the same for
a Calendar reaction whose `Promise.all` was already rejected. Rows and search
documents are known by their id, titles and times are left out.

`consume()` is two statements: `ConsumeQuota` is the INCRBY with the comparison of
what it returned, `RefuseQuota` the DECRBY of a refused request, and between the two
other requests see the refused unit counted. `RequestAborts` between any two loses
the unit, as in the code. One month is modelled: the next has a key of its own.

### `EventBusProofs`, `ProductFlowProofs`, `SearchIndexProofs`

The theorems about `EventBus`, about `ProductFlow`, and about `ProductFlow` while nothing
fails, see below.

### `MCEventBus`, `MCProductFlow`

The values TLC needs: subscriptions, which replica hosts which relay, and for
`ProductFlow` the symmetry of the requests.

### `Sessions`

Login, refresh and logout of `AuthService`, one action per statement.

| Model | Code |
| --- | --- |
| `owner`, `parent`, `root`, `revoked`, `expired` | rows of `Session`; a row, its refresh token and its access token share one number. `parent` and `root` are history: which refresh created the row, and which login it goes back to |
| `call` | where each request in progress stands |
| `Login` | the checks of `login()`, then on to `issue()` |
| `Find` | `findUnique` of `refresh()` and the decision it makes: an expired row is refused (no state changes, so no step), a revoked one leads to the kill, a live one to the rotation |
| `KillAll`, `Revoke`, `Issue`, `Answer` | the `updateMany` over the user's sessions; the `update` of the presented one; `session.create`; the token pair reaching the caller |
| `Abort` | a statement throws, the process exits, or the answer is lost |
| `Logout` | one `updateMany`; `AuthGuard` before it reads no row |
| `SessionExpires` | `expiresAt` passes |

Anyone who was given a refresh token may present it at any time and any number of
times. `used`, `replayed`, `raced`, `overlapped`, `cut`, `left` and `crossed` are
history that the properties' conditions speak of.

### `SdkClient`

Extends `Sessions` with one `HelixClient`. JavaScript runs to the next await, so a
step is what happens between two awaits, and all requests that await the shared
refresh go on in the step that settles it (`Resolve`, `Reject`). After a failed
refresh each of them still reads the body of its own 401 (`ThrowRefused`) and only
then clears `this.refreshing`, whatever that holds by then. `Serve` is the API's
answer, which may arrive late. The application may drop the tokens (`SignOut`) and
log in again (`SignIn`, `SignedIn`) at any time.

### `SessionsProofs`, `SdkClientProofs`

The theorems about `Sessions` and about `SdkClient`, see below.

### `MCSessions`, `MCSdkClient`

Model values, and for `Sessions` the symmetry of users and calls (its runs check
invariants only).

### `Pipeline`

What a request passes before its handler, and the copies it is judged by. One user
of one workspace and one product route stand for all of them.

| Model | Code |
| --- | --- |
| `verdict`, `context` | what the user's roles say of the route's permission, and the workspace as `resolve()` would describe it (`enabled` or `disabled` for the product, `inactive` for the null it caches too) |
| `permsCache`, `tenantCache` | the Redis entries `t:<tenant>:perms:<user>` and `tenantctx:<tenant>`, with the Ticks they have left |
| `token` | the access token, with the permissions copied into it |
| `IssueArrives`, `PermsGet`, `PermsQuery`, `PermsSet`, `Mint` | `issue()`: the GET of `cached()`, the query, the SET with its TTL, the signature |
| `RequestArrives` | `AuthGuard` |
| `ContextGet`, `ContextQuery`, `ContextSet` | `TenantGuard` and `resolve()` through `cached()` |
| `Decide` | `RateLimitGuard`'s INCR with its comparison, then `PermissionGuard`, which awaits nothing |
| `HandlerReturns`, `AuditSettles` | the handler; the audit write nobody awaits, for a mutation (interceptor) or a refusal (problem filter) |
| `EntitlementChanges`, `EntitlementCleared`, `EntitlementUncleared` | `enableProduct`/`disableProduct`: the update, the `del` of the cache entry, and its failure |
| `RolesChange`, `WorkspaceChanges` | roles and `Tenant.status` change in the database by other means: no code in the repository does it and no code clears a cache for it |
| `NextWindow`, `Tick` | the limiter's next bucket; time |
| `Fails` | a statement throws or the process exits |

`permsAge` and `contextAge` (how long ago each answer was the true one), `crossed` and
`missed` (which cached copy an invalidation could not reach) and `admitted` are history.
The RPS of a plan, the answers' bodies and the routes marked public are left out.

### `Manifests`, `Registry`

`Manifests` holds the four manifests, the permissions the routes require, the
manifest the generator writes and the seed's own list, as values. `Registry` holds the
pure functions over them: `Registers` (the throw of `register()`), `Errors` (the
issues of level error of `validate()`, one operator per check), `allows` of
`RbacService`, and next to the algorithm what it is for, `Sound`.

### `Catalogue`

Extends `Registry` with the life of the catalogue: `Generate` and `AddByHand` change
the source tree a release is cut from, `Boot` starts a replica on any release,
`Validate`, `SyncProduct`, `SyncFails` and `Listen` are its bootstrap hooks,
`Register` is `AuthService.register` with `provisionSystemRoles` (one transaction,
with the foreign key that undoes it), `SeedPermission`, `SeedWorkspace` and
`SeedGrant` are the seed's loops, each of which may be interrupted after any
statement. `permission` and `grants` are the tables `Permission` and `RolePermission`.

The upserts of one product are one step, and so is a loop of the seed. Nothing is
lost by it: every writer of a row writes the same values, and `SyncFails` and the seed's
interruption stop after any number of them.

### `PipelineProofs`, `RegistryProofs`, `CatalogueProofs`

The theorems about these modules, see below.

### `MCPipeline`, `MCCatalogue`

The symmetry of calls; the manifests a developer may add by mistake.

## Runs

| Run | Expected | What it asks and shows |
| --- | --- | --- |
| `EventBus` | pass | Two replicas, two events, batches of one, one process exit, two attempts, handlers free to reject for ever. `TypeOK`; `PublishedMeansDelivered` (at-least-once); `ImplementsDelivery`; `EveryEventSettles` (a poison event is parked, and the one behind it gets its turn). |
| `EventBusMixed` | pass | Two relays and two worker calls on one table. `ParkedOnlyAfterMaxAttempts`, although counts are written from stale copies; `EnqueuedOncePerFailure`: overlapping worker claims never enqueue twice, unless an API relay failed and re-opened the row in between. |
| `EventBusStolen` | violation | With a worker on the table, a row becomes published with no handler called: `relayOutbox` marks it and its consumer does nothing. |
| `EventBusRetries` | violation | Two overlapping relays lose an increment of `attempts`; an event fails more often than the limit the comment states. |
| `ProductFlow` | pass | Requests, handlers, retries, orphans, one abort, one crash. `NoPhantomEvents`, `RoomsReachTheCalendar`, `PublishedIsFound`, `IndexIsCurrent` (with no failure and events published in order, the index is exact), `QuotaHolds` (concurrent requests never create more events than the plan allows), `QuotaIsHonest` (the counter exceeds what was granted by at most one unit per request cut short, and nobody is refused while units are left), `PublishedMeansDelivered`, `FlowTypeOK`. |
| `ProductFlowStale` | violation | A Calendar event deleted between its INSERT and its `publish` is handled as cancelled, then as created, and stays in the index. |
| `ProductFlowSilent` | violation | A request that ends between INSERT and `publish` leaves a row with no event: the two are not one transaction. |
| `Sessions` | pass | Two users, two overlapping calls, three sessions, one expiry, one cut call. `OneTokenPerLogin` (a login never has two usable refresh tokens unless one of its tokens was presented by two calls at once); `ReplayEndsTheLogin` (reuse detection, for users whose calls do not overlap); `HonestLoginsSurvive` (a kill reaches no other user and never an honest one); `LogoutEndsTheLogin`; `TypeOK`. |
| `SessionsTwins` | violation | Two refreshes of one token both pass the check before either revokes it, and both get a successor: revoke and replace are not atomic. |
| `SdkClient` | pass | Two overlapping requests, three API calls, one expired access token, one failure, one sign-out, one new login. `NeverAccused` (parallel and late 401s never present a refresh token twice), `HonestClientStaysSignedIn` (the client ends up with the tokens of a live session), `ReplaysWithNewToken`, `EveryRequestReturns`, `ClientTypeOK`. |
| `Catalogue` | pass | Two replicas, two releases, two workspaces, the seed, one database error. `RunningReleasesAreSound` (a process that serves passed `validate()`, and its manifests have one owner per schema, prefix and permission); `ServedIsCatalogued` (a process whose sync completed keeps finding its permissions, under its own products, whatever other releases and the seed write); `OnlyDeclaredIsReached` (no role but owner reaches a route no valid manifest opened to it: a generated product that was wired and not registered fails closed, and the seed is no wider than the manifests); `NothingIsTakenBack` (no boot, rollback, failed sync or seed removes a permission, moves it to another product or takes it from a role); `BootSettles`; `TypeOK`. |
| `Pipeline` | pass | Two overlapping calls, one change, one failure. `PermissionDriftBounded` (a request is judged by an answer the roles gave within the cache's and the token's lifetime plus three calls); `EntitlementDriftBounded` (the same of the workspace's context); `StaleOnlyIfRaced` (after `enableProduct` or `disableProduct` returned, a wrong cache entry has one of three named causes); `RateHolds`; `TypeOK`. |

Bounds. Two of each actor are enough for every overlap the code allows between
a pair of statements, and the code has no operation that involves three. Two
events and `BatchSize = 1` make one event wait behind another;
`MaxAttempts = 2` gives one retry and one parking (10 in the code: nothing
depends on the number but the arithmetic, and the theorems hold for every one).
`MaxCrashes` and `MaxAborts` bound how often something fails, not where.
`MaxEvents`, `MaxIds` bound creation; `EventsPerMonth = 1` makes the quota bite.
`BatchSize`, `WorkerBatch` (50 and 200 in the code) are cut to one and two.

`Pipeline` counts time in Ticks: lifetimes of 2, 1 and 2 and calls of at most one Tick
let each copy be filled, be used and expire around another call. `MaxHold` is an
assumption, not code: a call that hangs for ever between its read and its SET would store a
copy of any age, and there is no drift bound without it. One change per behaviour is what
TLC can reach in the time a run may take; how changes accumulate is left to
`PipelineProofs`, which proves all five properties for every value of every constant.
`Catalogue`: two releases (one cut from the other by generator or by hand) over
two replicas give upgrade, rollback and a mixed fleet; releases are cut before the first
boot, which loses no order of boots. Its three drafts are a key registered twice, a
permission in a foreign namespace and one that another product already declares.

`CHECK_DEADLOCK FALSE` throughout: once nothing is left to publish or to refresh
within the bounds, these systems rest.

Fairness. `FairSpec` has weak fairness on `RelayStep` of each relay and on
`BackoffElapses` of each event: `setInterval` keeps calling `relay()`, a started
handler settles one way or the other, and time passes. No fairness is put on
`HandlerResolves`: a handler that always rejects is a fair behaviour. Nor on
`Publish` or the crashes. `ClientFairness` of `SdkClient` is weak fairness of each request's and each
refresh's own steps: the API answers or the connection fails, and the event loop
goes on; failures (`ApiFails`), expiry and what the application does are not fair.
`FairSpec` of `Catalogue` is weak fairness of `BootStep` of each replica: Nest runs the
hooks of a starting process to their end, and a query returns or throws. Starting,
registering and seeding are not fair, and neither is failing apart from that
disjunction. Handlers that never settle are outside this assumption;
in the code such a handler holds its relay call for ever, and only its own,
because the next call starts anyway.

## Proofs

Every safety property of the passing runs is proved for every value of the constants;
what a theorem assumes beyond the named assumptions, it says. Where a run refutes
what a comment says, a theorem says when it is right (`OneRelayParksInTime`,
`OnlyRacesMakeTwins`, `OnlyFailuresAreSilent`), and `AtLeastOnce` and `IndexStaysCurrent`
do the same for `EventBusStolen` and `ProductFlowStale`.

`EventBusProofs` holds these theorems, for every number of events, relays, replicas and
crashes, all subscriptions, batch sizes and attempt limits:

- `TypeCorrect`: `Spec => []TypeOK`.
- `AtLeastOnce`: without workers, `Spec => []PublishedMeansDelivered`. The property
  is not inductive. The strengthening is `DispatchCovers`: while a relay is
  dispatching, each handler of its event either has been delivered or is still in
  `running`. With `running = {}` in `Ack` and `AckFails` that gives the property.
  The hypothesis `Workers = {}` is needed, and `EventBusStolen` shows why.
- `NeverParkedEarly`: with workers too, `Spec => []ParkedOnlyAfterMaxAttempts`. The
  strengthening says that every copy of the count is at most the number of real
  failures: `attempts <= failures`, and `seen <= failures` while dispatching
  and `seen + 1 <= failures` once a relay stands before its catch block. Lost
  increments only make counts smaller, so they can never park an event early.
- `RelaysImplementDelivery`: without workers, `Spec => Delivery!Spec`. Every step maps to
  `Accept`, `Deliver`, `Settle` or a stutter, using `DispatchCovers` for `Ack` and
  `CallsAreSubscribed` (what a relay or an orphan runs is subscribed to its event)
  for the deliveries.
- `OnceOnTheQueue`: for finite sets of relays and workers,
  `Spec => []EnqueuedOncePerFailure`. The strengthening (`QueueInv`) counts everything that
  may still put an event on the queue: its jobs, the worker calls that claimed it and the
  relays about to write its row back. That load grows only where a dispatch fails.
- `PromiseMeansDelivery`: `ImplementsDelivery => []PublishedMeansDelivered`. The abstract
  specification is enough for at-least-once delivery: nothing of relays is needed again.
- `OneRelayParksInTime`: with one relay at a time and any workers,
  `Spec => []RetriesBounded`, which is `failures[e] <= MaxAttempts + crashes`. This is what
  the comment refuted by `EventBusRetries` promises, up to the exits it does not speak
  of. `RetryInv`: the failures of an event exceed `attempts` by at most the exits so far
  and the one failure that is being written (`FailuresAreCounted`), the copy a single
  relay holds is the row's count (`CopiesAreFresh`), and it never holds a parked row
  (`ParkedIsLeftAlone`).

`ProductFlowProofs` extends it to `FlowSpec`, without workers, for any number of
requests, rows, relays, replicas, aborts and crashes, with one inductive invariant
`FlowInv` in four parts. `CallsInv` carries `DispatchCovers` and
`CallsAreSubscribed` over to the products' handlers. `TruthInv` says that what anybody is about
to publish is already true: a request before its `publish`, a reaction that
inserted its row, an abandoned one; so an event is true when it enters
the outbox, and rows change only in ways that keep it true (`RowEffects`,
`TellsKept`). `QuotaInv` equates the counter with what was granted, what is being
refused and at most what was cut short. `DoneInv` says what a handler that
completed has left behind for good.

- `FlowTypeCorrect`, `FlowDelivers`, `NoPhantoms`, `RoomsAreAnswered`,
  `WhatExistsIsFound`, `QuotaIsKept`, `QuotaIsTold`: `FlowSpec => []P` for `FlowTypeOK`,
  `PublishedMeansDelivered`, `NoPhantomEvents`, `RoomsReachTheCalendar`,
  `PublishedIsFound`, `QuotaHolds` and `QuotaIsHonest`.
- `FlowImplementsDelivery`: `FlowSpec => ImplementsDelivery`. A product's steps map to those
  of the bus or to stutters; `ReactPublishes` and `OrphanPublishes` map to `Reply`, one
  step that publishes and completes. What an abandoned reaction completes must still be
  subscribed (`AbandonedAreSubscribed`).

`SearchIndexProofs` is about `FlowSpec`, without workers, while nothing has failed: no
handler rejected, no update threw, no request was cut short, no process exited. Then every step
is one of `CleanNext`, and:

- `OnlyFailuresAreSilent`: `FlowSpec => []NoSilentChange`, for any number of overlapping
  relays. Whoever owes an event is known (`Announced`): a row, or a cancellation,
  has its event in the outbox, or a request or a reaction is about to publish
  it. When all is quiet nobody is.
- `IndexStaysCurrent`: with one relay at a time, `FlowSpec => []IndexIsCurrent`. The
  handlers of an event all run before those of the next one, so what is published is a
  prefix of the outbox (`OldestFirst`). Where created precedes cancelled in the outbox, which
  is the property's condition, what was removed is not indexed again (`Removed`).
  Documents come from published creations only (`IndexTells`), and by
  `Announced` every row has its creation there and every missing one its cancellation.

`SessionsProofs` holds these, for every number of users, calls and sessions:

- `TypeCorrect`: `Spec => []TypeOK`.
- `RotationIsSingle`: `Spec => []OneTokenPerLogin`, and `LogoutIsFinal`:
  `Spec => []LogoutEndsTheLogin`. Neither is inductive, since between `Revoke` and `Issue`
  a login has no usable session and yet will have one. The strengthening
  (`RotationInv`) says that the right to continue a login is in one place: at most
  one unrevoked session (`OneHeir`), at most one call refreshing it (`OneRefresh`),
  and if there are both, the call has not yet revoked that very session
  (`HeirOrRefresh`). After a logout there is neither (`NoHeirAfterLogout`). Logins
  with a token in `raced` are exempt, and `SessionsTwins` shows why.

- `HonestUsersStay`: `Spec => []HonestLoginsSurvive`. A login that ended has a reason on
  record (`Reasons`), a call that may still end it is one the property's
  condition excludes (`Tainted`), and otherwise the right to continue is held by
  a session or a call (`Survives`).
- `ReuseIsDetected`: `Spec => []ReplayEndsTheLogin`. `DetectInv`: calls of an exempted user do
  not overlap (`OneAtATime`), a token that was traded is revoked
  (`SpentIsRevoked`), so a second presentation finds it so, and from there to
  the kill nothing of that login can be issued (`ReplayIsPunished`).
- `OnlyRacesMakeTwins`: `Spec => []OneSuccessorUnlessRaced`, the condition under which
  "revoke + replace" behaves like one step. `SuccessorInv`: a token that nobody raced for has
  one successor, or one call that will issue it, or neither; never two of these.

`SdkClientProofs` extends `SessionsProofs` to `ClientSpec`, for every number of requests,
refreshes, sessions and sign-ins:

- `ClientTypeCorrect`: `ClientSpec => []ClientTypeOK`, with two facts the others need: what the
  promise of a request is (`ClientShape`), and that a session is handed out by one call,
  once (`HandedOutOnce`).
- `ClientIsNeverAccused`: `ClientSpec => []NeverAccused`, by `AccusedInv`. Until the client
  signs in again one refresh is under way at a time, the token held is unused or the one
  being refreshed, and after a failed refresh no token is held.
- `ReplaysAreRenewed`: `ClientSpec => ReplaysWithNewToken`, from `HandedOutOnce`.
- `ClientStaysSignedIn`: `ClientSpec => []HonestClientStaysSignedIn`, by `HonestInv`. The right
  to go on is with the tokens held or with the one refresh under way, and moves
  from one to the other in one step of the client.
- `ClientKeepsLoginsSafe`: `ClientSpec => []LoginsAreSafe`, the four properties of `Sessions`
  with the client in front: every step of the client is a step of the API or none.
- `ClientMakesNoTwins`: `ClientSpec => []NoTwins`. Until it signs in again the client never
  drives the API into the race `SessionsTwins` shows: a race is a token presented twice
  (`RacesAreReplays`), which `NeverAccused` excludes.

`PipelineProofs` holds, for all lifetimes, limits and numbers of calls:

- `TypeCorrect`, and `DriftOfPermissions`: `Spec => []PermissionDriftBounded`. `PermsInv`: the age
  of each copy plus the lifetime it has left is bounded, by one call for a cache
  entry, by two for a token, and by what a call has held it for besides (`PermsAgeIn`).
- `DriftOfEntitlements`: `Spec => []EntitlementDriftBounded`, by `TenantInv`, the same with one
  copy less.
- `InvalidationWorks`: `Spec => []StaleOnlyIfRaced`, by `RaceInv`: a call that is about to
  store an outdated context is in `crossed`.
- `RateLimitHolds`: `Spec => []RateHolds`, by `RateInv`: the counter covers what was
  admitted.

`RegistryProofs` proves, for every sequence of manifests, `ValidMeansSound` (no error
means `Sound`), `SoundMeansValid` (where products name each of their permissions once,
`validate()` refuses only for a reason), `PlainGrantsAreExact` and
`WildcardsStayHome` (what `allows` can at most allow).

`CatalogueProofs` proves, for all drafts, generated names, releases, replicas and boots,
`TypeCorrect` (by `TypeInv`; its part `Granted` is the foreign key, and that the
seed grants only what it inserted), `OnlySoundServes`, `CatalogueIsComplete`,
`OnlyDeclared` (`Spec => []OnlyDeclaredIsReached`) and `CatalogueAndRolesGrow`
(`Spec => NothingIsTakenBack`). `CatInv`:
every catalogue row belongs to the product its key names (`Owned`), which a later upsert
cannot change because what syncs has been validated (`Validated`), and what a process is done
with is in the table (`Synced`); rows are never deleted. `Ruled`: what a workspace grants
was declared by a release fit to run, since a process registers workspaces only
after its own release was validated, and since every line of the seed is covered by the
manifests of the first release, which `SoundMeansValid` shows to be fit; then
`PlainGrantsAreExact` leaves a role nothing but what it was granted. That nothing is taken
back follows from `Owned` before and after a step, since a row that stays and carries its
key's product has not moved, and from `Enrolled`: only workspaces that exist grant anything, so
that a registration overwrites no grant.

The proofs rest on the named assumptions of `EventBus` (`BoundsAssumption`,
`SubscriptionsAssumption`, `HostAssumption`), `ProductFlow` (`FlowAssumption`,
`WiringAssumption`), `Sessions` (`SessionsAssumption`),
`SdkClient` (`ClientAssumption`), `Pipeline` (`PipelineAssumption`), `Manifests` (`NotesIsGenerated`) and `Catalogue`
(`CatalogueAssumption`), which TLC evaluates in the runs.

Only model-checked: liveness, which the prover does not cover (`EveryEventSettles`,
`EveryRequestReturns`, `BootSettles`).

## What the runs found

The violations above are disagreements between the code and what its comments or
documents say; each is in `PROJECT.json` with the line it contradicts. Seen while
modelling, with no run of their own: the SELECT's `SKIP LOCKED` keeps two
replicas apart for the duration of the statement only, so both dispatch the same
row; a worker exit between its UPDATE and `eventQueue.add` loses rows that count as
published (`WorkerFails`); a redelivered `meet.room.scheduled` inserts a second
Calendar event for its room (`ReactInserts`); `createFolder` publishes nothing, so
folders are never found; `create` of Notes publishes an event for a note nobody
stored. A refresh in flight when reuse is detected is issued its successor after the kill.
`AuthGuard` never reads `Session`, so an access token outlives its logout, and a
logout with the access token of a session already rotated matches no row. In the
SDK, a sign-out while a refresh is pending is undone when it resolves, and
the `finally` clause of a request that still reads its old 401 can clear the
refresh promise of a new login, so that the next 401 presents the same refresh
token a second time; that is why `NeverAccused` speaks of the time before the client
signs in again.

Around permissions. `rbac.service.ts:76-78` speaks of invalidation on any role change
and of 15 minutes of drift; `invalidate` has no caller, and the lifetimes of
cache (300 s) and token (900 s) add up, which is the bound `PermsDrift` states.
`product-manifest.ts:18` has roles get the permission "when the product is enabled", and
`enableProduct` grants nothing: a workspace older than a product never gets its
permissions, except its owner. `register` creates no product accounts, and
`availableIn` is not checked where a product is enabled. The seed withholds
`drive.node.delete` from members, to whom the manifest grants it. `search` with a
filter that names only disabled products passes an empty list, which `SearchService`
reads as no filter. Calendar events created for rooms cost no quota (`Paid` leaves them out).

Around boot. Once the generator has added a product, the list in the registry is no
longer the literal it searches for: the next product is imported by
`app.module.ts`, never registered, and reported as registered
(`index.mjs:220-248`). `Generate` has this, and `OnlyDeclaredIsReached` shows that it fails closed.
`registry.ts:11` and `decorators/index.ts:10` mention a check for cycles and a failure on
unknown permission keys that do not exist. A slug taken twice is answered 500.

Around the pipeline. Refusals before `req.tenant` is set (a bad token, another
workspace's header, an inactive workspace) are not audited, nor is a handler that
commits and then throws; `rate-limit.guard.ts` calls itself a sliding window and a single
atomic step and is a fixed bucket with two round trips, so that two
adjacent windows may admit twice the limit in a moment. `problem.filter.ts` records
refusals of the limiter under `platform`.

`listEvents` orders by `(startsAt, id)` and continues after its cursor by `id` alone, so
that a later event with a smaller id is on no page. It changes no state, and no
document promises more of it than its code says.

## Not modelled

What only reads or renders: `listEvents`, `listRooms`, `list`, `usage`, `launcherFor`, the
search query with its ranking, health probes, the web and admin applications,
observability. What nothing calls: `flush`, `createDownloadUrl`, `withTenant` and
the row-level policies behind it, `invalidate`, feature flags, notifications,
`validateEvent`, the recurring jobs of the worker that have no processor. `retention.sweep`
deletes audit rows by age, and nothing reads them. In Drive, which folder a node hangs in,
and the refusal of an unknown parent (`requestUpload` looks for none): nothing moves or deletes a
node, so a parent that was found stays. In authentication, password
hashing; in the pipeline, public routes, validation of bodies and the form of
the answers; in the seed, its users, product accounts and sample rows. Storage is one insert of
a file object that nothing reads, and a signed URL. Infrastructure files describe
deployments, and were read for the number of replicas.

In what is modelled, left out are payloads, titles, times of day, the length of
backoffs, HTTP bodies and logging. The modules do not compose into one:
`Sessions` knows no permissions and `Pipeline` no refresh tokens, and what they share is
the call that issues a token, whose two halves touch no common state. BullMQ,
PostgreSQL and Redis are taken to do what each single statement says, atomically; a Redis that
is down makes calls wait (`maxRetriesPerRequest: null`), which is a call that takes
longer than `MaxHold`.
