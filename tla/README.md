# Verification of the business management server

TLA+ models, TLC runs and TLAPS proofs for the NestJS server under `src/src`:
a multi-tenant back office with delegated permissions, JWT sessions, PostgreSQL
(through Prisma) and Redis. Paths below are relative to `src/src`.

## 1. The system

### Components, their state and operations

| Component | State | Operations that change it | Status |
|---|---|---|---|
| Permissions (`modules/permission`) | `permission_matrices`, `permission_snapshots`, Redis `permissions:<user>` | grant, revoke with cascade, cached read, invalidation | `PermissionDelegation` |
| Sessions and tokens (`modules/auth/session.service.ts`, `token.service.ts`, `strategies/jwt.strategy.ts`, `auth.resolver.ts`) | `sessions`, Redis `token:blacklist:<jti>` | sign in, refresh with rotation, logout, revoke one / all, password change | `SessionTokens` |
| Account lockout (`modules/auth/auth.service.ts`) | `users.status`, `failedLoginAttempts`, `lockedUntil` | login attempts, automatic unlock, administrator's status change | `AccountLockout` |
| Circuit breaker (`core/resilience/circuit-breaker.service.ts`) | per service: state, counters, last failure | execute, success, failure, timeout, reset | `CircuitBreaker` |
| Login rate limiter (`modules/auth/guards/rate-limit.guard.ts`) | Redis `rate_limit:<identifier>` | GET, INCR, EXPIRE per login | `RateLimit` |
| Cache strategies (`core/cache/strategies`) | Redis key, write-behind queue and its timers | get, set, flush | `CacheStrategies` |
| Multi-tier cache (`core/cache/multi-tier-cache.service.ts`) | memory map per instance, Redis key | get, set, del, incr and their variants | `MultiTierCache` |
| Job queues, dead letters (`core/queue`) | Bull queues in Redis | add, process, retry, dead-letter, remove | `JobQueue` |
| Audit (`modules/audit`) | `audit_logs`, its Bull queue | report, queue, write, read by pages | `AuditTrail` |
| Organization (`modules/organization`) | branches, departments, their managers | create, assign a manager | `Staff` |
| Users (`modules/user`) | users, staff profiles, password history in their metadata | create manager or worker, update, change password | `Staff`, `PasswordHistory` |
| Registration (`modules/auth/auth.service.ts`) | `organizations`, `users`, the owner's permission rows and snapshot | register an owner | `Registration` |
| Business rules (`modules/authorization/business-rules.service.ts`) | `authorization_rules` | create, update, evaluate (twice) | `BusinessRules` |
| Authorization engine and guards (`modules/authorization`) | none; reads users, rows, cache, rules | four layers, one by one or in one call | `Authorization` |
| GraphQL API (`api/graphql`) | none | what each operation demands; answers to errors | `Gates`, `ErrorReplies` |
| gRPC API (`api/grpc`) | none | `CheckPermission`; answers to errors | `Authorization`, `ErrorReplies` |
| Request context (`core/context`), query middleware (`core/database`) | AsyncLocalStorage per request | set, read; rewrite a query | `QueryPipeline` |
| Transaction decorator (`core/database`) | static context, swapped `prisma` field | decorated calls | `TransactionContext` |
| Retry, timeout (`core/resilience`) | the attempts of a call | attempt, time out, back off, fall back | `Resilience` |
| Events (`core/events`) | listeners, bounded event log | subscribe, publish, replay, clear | `EventBus` |
| Cache invalidation, cache interceptor and keys (`core/cache`) | Redis keys by pattern | delete | not modelled |
| Connection health, repositories, configuration, bootstrap, logging, health | none a decision depends on | | not modelled |

### How they interact

A GraphQL request passes the rate limiter (login only), the JWT guard (blacklist
in Redis, permission fingerprint in PostgreSQL) and the permission guards, which
read through the permission cache. A global interceptor then puts the user into the
request's context, from which the database middleware takes the scope of every read
(guards run before it, without a context). The services then work on PostgreSQL and
Redis with separate awaited calls. Node runs one handler between two awaits, and
several instances share the two stores, so **any number of handlers interleave
at every await**. Every model therefore has a process per request and a step per
await; what is computed between two awaits belongs to the step after it, and a
Prisma `$transaction` is one step. Nothing locks, and no transaction re-checks
what was read before it.

Behaviours that are hard to test, and where they bite, are the hazards of
`PROJECT.json`. They fall into five groups:

* check-then-act across awaits: a validated grant, a session found live, an
  account read as unlocked, a counter below the limit;
* copies that outlive their source: the permission cache, snapshots read through
  it, the fingerprint inside a token, the outcome of a call admitted earlier;
* half-done requests: revocation without cascade, session revoked but not
  replaced, INCR without EXPIRE, logout that revokes and does not blacklist;
* failures that are swallowed: each `RedisService` command logs its error and
  answers as if the key did not exist, except the writes that throw;
* things that must end: the cascade over a circle of grants, a lock, a window, an
  open circuit, a stale cache entry.

## 2. Modules and the code

### PermissionDelegation — `modules/permission/*.ts`

`matrix[u][m]` is the row of `permission_matrices` for a user and a module
(`active` is `revokedAt = null`, `by` is `grantedById`); `cache[u]` the Redis
entry; `lastSnapshot` the newest snapshot row; `held` and `narrowed` are history: what a user
ever had, and what a later grant of the same module took away. Each handler has
the local variables of the call stack of its request: `target`/`after`/`got` are
`getPermissions` and where it returns to, `stack` the depth-first recursion of
`cascadeRevokePermissions`, `found`/`affected`/`todo` the rows and users of one
level.

| Code | Actions |
|---|---|
| `getPermissions`, `setPermissions` | `Lookup`, `Fetch`, `Fill` |
| `validateDelegation` + `grantPermissions` | `BeginGrant`, `Lookup`..`Fill`, `ApplyGrant` or `RefuseGrant`, `Snapshot`, `Invalidate` |
| `revokePermissions` | `BeginRevoke`, `Revoke`, `Snapshot`, cascade, `Invalidate` |
| `cascadeRevokePermissions` | `Cascade` (read), `CascadeTx` (write by id), `Snapshot` per affected user, `BulkInvalidate`, then the recursion |
| `getUserPermissions`, `hasPermission` | `BeginRead`, `EndRead` |
| TTL, failing Redis, dying request | `Expire`, the second disjuncts of `Lookup`/`Fill`/`InvalidateCache`, `Abort` |

An empty `actions` list of a grant is kept (`FullOrEmpty`): the loop of the
validator passes it vacuously, so a manager without a module can own the row of
that module. Properties about permissions *in force* speak of the actions of a row. A grant
overwrites the list of actions of its modules and cascades nothing, so a narrower one leaves
the subordinates of its user what they had; `narrowed` names these pairs.

### SessionTokens — `modules/auth`, `api/graphql/resolvers/auth.resolver.ts`

One row of `sessions` stands for the session, its refresh token and the access
token issued with it: the three are created together. `login` of a row is the
sign-in it descends from through rotations. `handler[p]` is a request with what
it has read so far; `delivered` are the tokens a client has received, which are
the only ones requests present.

| Code | Actions |
|---|---|
| `createAuthResponse` | `Login`, `ReadPermissions`, `CreateSession` |
| `refreshAccessToken`, `rotateRefreshToken`, `AuthService.refreshToken` | `Refresh`, `ReadPermissions`, `RevokeOld`, `CreateSession`, `Confirm` |
| `JwtStrategy.validate` | `Authenticate`, `CheckBlacklist`, `CheckFingerprint` |
| `logout` | `LogoutRevoke`, `BlacklistToken` |
| `revokeSession`, `revokeAllSessions`, `changePassword` (its sessions) | `ListSessions` and `RevokeSession`, `RevokeAll`, `ChangePassword` |
| a grant or revocation commits elsewhere | `PermissionsChange` |

`ContextHasSession` says whether the user context of a guarded request names the
caller's session. `shared/types/user-context.interface.ts` declares it and the
resolver uses it; `JwtStrategy.validate` does not supply it. Runs about how the
server is wired set it to `FALSE`; runs about `AuthService.logout` with the session
its parameter documents set it to `TRUE`.

`LoginLifecycle` is what a user may expect of all this: a sign-in begins once, is live until
it ends, ends because somebody asked for it, and is not revived. Sessions, tokens and requests do not occur
in it. SessionTokens implements it (`ImplementsLifecycle`): a sign-in is its first session and
those rotated from it, `StatusOf` calls it live as long as one of them is unrevoked or a refresh
is about to add one, and what was asked to end is `ended`: by "all other sessions" and by a
new password every sign-in of the user but the caller's. `Lossy` is where the code breaks
the promise (`MayLose`): a request that dies between revoking and creating, a new password, which
spares no session, and revoking all others, which spares at best a session that may have been
rotated since. `CurrentSignInKept` says what the comments promise of the last two.

### CircuitBreaker — `core/resilience/circuit-breaker.service.ts`

One circuit. `running` are the calls inside `executeWithTimeout`, `age` their
timers, `since` the time since `lastFailureTime` (stopped at `Timeout`, the only
value it is compared with). `Admit` and `Trial` are `execute` up to the await,
`Succeed`, `Fail` and `TimeOut` its three ways to go on. `Latest` is how late a
timer may fire when the event loop is busy.

### AccountLockout — `modules/auth/auth.service.ts`

The row of one account. Times are kept as the time left. `Begin` reads the row and judges it,
`Unlock`, `Compare`, `ResetFailedAttempts`, `SignIn` and `Reread`, `CountFailure`
are the awaits that follow; `AdminSets` is the status part of `updateUser`.
`failed` saturates at `MaxFailed`, with which alone it is compared.

The account judged and the account counted may be two. The resolver forwards the e-mail and
the organization's name together; `validateUser` judges the owner of the named
organization, `handleFailedLogin` counts on the user with the e-mail, or on nobody. No statement
touches both rows, so one row shows all there is: a login is `"right"` or `"wrong"` (judged and
counted here), `"stray"` (a wrong password tried here and counted elsewhere) or `"blind"`
(`Misjudge`: counted here without this account's status or password having been looked at).

### RateLimit — `modules/auth/guards/rate-limit.guard.ts`

One identifier. `Check`, `Incr` and `Expire` are the three Redis calls, `FailOpen`
the guard's `catch`. A failing GET returns null from `RedisService.get`, which the
guard counts as 0. `blind` counts such requests, `interrupted` records that a request
ended between its calls; `MaxBlind` bounds the former.

### CacheStrategies — `core/cache/strategies/*.ts`

One key. A value is the number of the write that made it. `strategy` is chosen at the
start; `Lookup`, `Load`, `Fill` are the `get` the three strategies share, `Set`,
`CacheSet`, `Persist`, `Del` the awaits of their `set`, `Queue`, `Fire`, `Complete` the
timer of `queueDatabaseWrite`, and `Flush` is `flush`. `timers` are those armed with
`setTimeout`, `pending` the entry of `writeQueue`; they differ because the completion
of an older write deletes a newer entry.

### MultiTierCache — `core/cache/multi-tier-cache.service.ts`

One key, several server instances. `memory[n]` is the map entry of an instance with
the time it has left, `redis` the shared entry. `TiersSet` stands for `set`, `mset` and
`warmCache`, `TiersDel` for `del`, `delPattern` and `reset`, `Incr` for `incr` and `decr`.
`unheld` ages the values nobody holds any more.

### Staff — `modules/user/user.service.ts`, `modules/organization/*.ts`

One organization. `user[p]` is the row of a person (`seat` is `branchId` and
`departmentId`, `creator` is `createdById`, which a worker's staff profile repeats as
`reportsToUserId`), `managerOf` the `managerId` of a branch or department. A request
that creates or assigns reads and judges in one step (`BeginCreate`, `BeginAssign`) and
writes in its transaction (`Create`, `Assign`), with other requests in between;
`CreateUnit` and `UpdateUser` write what they were given. `edited` and `contested` record
whom `updateUser` has moved and whom two overlapping requests have assigned.

### PasswordHistory — `changePassword` of `modules/user/user.service.ts`

One account. `BeginChange`, `CheckReuse` and `Commit` are its awaits; `kept` is
`metadata.passwordHistory`, `past` every earlier password. A password stands for its
hash.

### JobQueue — `core/queue/bull.service.ts`, `core/queue/processors/*.ts`

One queue and the dead-letter queue. `job[j]` is a job in Redis (`gone` once Bull has
removed it), `letter[d]` a dead letter, `moving` the jobs whose `onJobFailed` awaits
`moveToDeadLetterQueue`, `retry[r]` a call of `retryFromDeadLetterQueue` between its
awaits. Bull is an external library, modelled from how the code uses it: it takes a job
up again until its attempts are used, once after its worker was lost, and emits `failed`
each time. The dead-letter queue has no processor. `wired` says whether
`setBullService` was called on the processor.

| Code | Actions |
|---|---|
| `addJob`, `addJobWithPriority`, `addBulk` | `AddJob` |
| `handleJob` of a processor | `Take`, `Perform` (its effect), `Complete` or `Fail`; `Stall` if the worker is lost |
| `onJobFailed` | in `Fail` and `Stall`, then `MoveToDeadLetterQueue` or `FailToMove` |
| `retryFromDeadLetterQueue` | `BeginRetry`, `AddBack`, `RemoveLetter`, `AbortRetry` |
| `promoteJob`, `retryJob`, `removeJob`, `emptyQueue`, `cleanFailedJobs` | the actions of these names |

Pausing only delays, and repeatable jobs, status queries and shutdown change no job.

### Registration — `registerOwner` of `modules/auth/auth.service.ts`

Forms in flight (`Signups`), each with an e-mail and a name that may clash. `CheckEmail` is the look-up by
e-mail, `Create`, `Conflict` and `RollBack` the transaction and its ways to end,
`InitializeOwnerPermissions` and `CreateSnapshot` the two calls after it, `Swallow` the
`catch` around them, `SignOwnerIn` the token, `Die` the end of the process. Names of
organizations are unique in the schema, e-mails only within an organization.

Three other requests write `users.email` meanwhile (`WriteEmail`): `HireStaff` is `createManager`
and `createWorker`, which look for the e-mail within the organization, `UpdateStaff` and
`UpdateOwner` are `updateUser`, which looks for nothing. `raced` are the e-mails checked or
written while a registration was past its own check, `unchecked` those that `updateUser` gave one
owner while another had them. An `"error"` says nothing about the account: the sign-in may fail
after the transaction has committed.

### Gates — `api/graphql/resolvers`, `modules/authorization/guards`

What every operation of the GraphQL API names in `@RequireLevel` and
`@RequirePermission`, and what its service demands on top. The state is who exists in one
organization, an `Owner`, `Managers` and `Workers`, and which rows of `permission_matrices`
they have, as far as the two modules the API asks about go; it changes through `CreateStaff`
(`createManager`, `createWorker`), `grantPermissions` and `revokePermissions` of callers that
pass those very gates. `Accepts` is what the services check of the caller:
`validateUserCreation` lets owners create managers only and managers workers only, so an owner
passes the guards of `createWorker` and is refused; `ThroughManager` says what the owner can have a
manager do instead. `owned` says whether the owner's rows are as registration wrote them.

### BusinessRules and Authorization — `modules/authorization`

`rules` are the rows of `authorization_rules` of one organization. `EvaluateRules` is
`BusinessRulesService.evaluateRules`, `CheckBusinessRules` layer 4 of the engine; each
returns the set of answers it may give, because PostgreSQL orders rules of one priority
freely. `Given` is the partial update by which both writers store a form. `Reference` says
what the rules mean. Amounts and thresholds, floats in the code, are only compared, so
integers stand for them.

`Authorization` adds a request on its way through the layers. `via = "engine"` is the gRPC
call (`FindById`, `FindUnique`, `Lookup`, `Fetch`, `Fill`, `CheckRules`), `via = "guards"`
the chain of guards, which begins with the claims of the token. Between the awaits `Move`,
`ChangeRow`, `DeleteCopy`, `ExpireCopy`, `IssueToken` and `ChangeRules` change what is
decided on. `held` and `failed` record which layers held, and which did not, at some
moment of the request.

### QueryPipeline — `core/context`, `core/database`

A query is its model, its action and the columns it names. `Rewritten` is the composition of
`Timestamp`, `Tenant`, `ScopeFilter` and `SoftDelete` in the order of `$use`; `FitsSchema`
is Prisma's validation, modelled from the schema. `Guard`, `InterceptRequest`, `Query` and `Leave`
are the life of a request, several at a time. The names the tenant, soft-delete and
audit middlewares look for (`User`, `AuditLog`, ...) are none of the schema's, which are
plural and lower case, so those three pass every query on as it is.

### AuditTrail — `modules/audit`

`call[c]` is an operation whose outcome the interceptor reports: `Intercept`, `LogAction` or
`Refuse`, `Take`, `HandleLogAction`, `Complete` or `Fail`; a failed job waits for its backoff
(`BackoffOver`) while others are taken, and a job whose worker died is taken once more
(`Stall`). `log` is the table by `createdAt`, newest first; rows of one millisecond have no order,
so `Orders` are the answers PostgreSQL may give and `Page` a page of any of them. `GetAuditLogs` is
a client that asks for page after page. The model has what
`AuditInterceptor` would do where it is registered, and a table that accepts the row; section
3 says what is in the way of both.

### Resilience — `core/resilience/retry.service.ts`, `timeout.service.ts`

One operation. `pc` is what its caller awaits, `unsettled` the attempts whose function still
runs: `TimerWins` ends the waiting and not the function. `service` is how the operation is called.
`executeWithRetryAndFallback` falls back on any error that is left,
`executeWithTimeoutAndFallback`, which does not retry, on its timeout only (`FallsBackOn`).
A retry around a timer is a way to put the two services together that nothing in `src/` uses
yet: it is the composition this model chooses, and the only one in which they meet.

### EventBus — `core/events`

`listeners` are the registrations in their order: a function that is subscribed twice is called
twice, and `Unsubscribe` takes one of its registrations away. `publish[p]` is a call of `publish` in
flight, `eventLog` the bounded
log. EventEmitter2 is external: it calls the registered functions one after the other, stops at one
that throws synchronously and awaits the rest together. `Resolve` is the call's answer.
`Rejects` says whose error gets through:
a listener that `EventListenerInterceptor.wrap` has wrapped keeps its own.

### TransactionContext — `core/database/transaction.decorator.ts`

`context` is the static `currentTransaction`, `prisma[o]` the field of a service, `txCall[c]` a call
with the client it has put aside. A call that finds a transaction in the context runs inside
it; a nested call of a decorated method of another service is such a call.

### ErrorReplies — `api/graphql/filters`, `api/grpc`

`Raised` are the errors the server throws, by what the translations look at: class, status,
code, words. `Catch`, `HandleGrpcError`, `HandleError` and `InterceptError` turn one into a reply.

`MCLogin`, `MCCore` and `MCPlatform` hold several modules side by side and look at one area
in each behaviour; modules in one of them share no state but what is named above.
`BusinessRules` is in two: `MCLogin` looks at the rules an owner may write, `MCPlatform` at
requests that meet rules while these change.
`MCBackOffice` looks at one of the three, staff, password and queue, at a time: they
write different tables and columns.

The components share only the database and Redis, and each model contains the
other components' effect on its own part: `PermissionsChange` in SessionTokens is
the commit of a grant or a revocation, `AdminSets` in AccountLockout the user
service.

## 3. Runs

Passing runs. Between them every action of every module fires.

| Run | Instance | Shows |
|---|---|---|
| perm_serial | owner, manager and sub-manager, one module of two actions, grants of both or of one, handlers one at a time and fair, Redis answering | after every request, cascade included, whoever granted an action still in force has that action, but for what a narrower grant took from the grantor (`GoldenRuleAtRest`), and no cache entry differs from its rows (`CacheFreshAtRest`); every request ends, also when grants form a circle |
| perm_races | two overlapping handlers, an owner, a manager and a worker, failing Redis calls, dying requests | whatever a manager granted it once held (`GrantsWerePossessed`): no stale copy, lost invalidation or crash lets a manager pass on what was never its own |
| session_serial | two users, all requests, one at a time, failing Redis calls, dying requests, no session id in the context | rotation never multiplies a session; the sign-ins a logout, a revocation or a password change was asked to end stay ended |
| session_overlap | two overlapping handlers, a clock past the expiry of access tokens (refresh tokens outlive the run), two fingerprints | the sessions implement `LoginLifecycle`, nothing lossy: no rotation or logout, however they overlap, ends a sign-in nobody asked to end or revives one that is over; a logged-out or an outdated token is refused up to and at the boundary of the blacklist's TTL |
| login | two overlapping logins that may die, be stray or blind, and an administrator; four overlapping attempts against the limit of the code, failing Redis calls, dying requests; two overlapping registrations with two e-mails and two names, any statement failing, an employee and the other writers of e-mails; owner, manager and worker with what they may be granted; two rules that may tie, with amounts around their thresholds | orderly requests get five guesses and a lock that lasts, and the rightful user gets back in; the window ends, is not prolonged, and is overshot by less than the requests in flight; there is no organization without its owner, no conflict or token that is not true, and one owner per e-mail but for checks that overlapped and updates that check nothing; an owner as registered can call every operation, and have a manager call `createWorker`; both evaluators answer what the rules mean, and nobody is sent to an approver who may not approve |
| core | two overlapping requests on one key per strategy, three writes, failing Redis and database calls, flush, crash; two instances of the multi-tier cache with two requests; three calls in flight through a circuit, thresholds 2 and 2, timers, manual resets; an operation with every combination of timer, kind of fallback and retryable errors | a failed write leaves nothing in the cache that the database does not hold; a drained queue has stored the last write; every queued write is stored or superseded and the last one stays; memory is not stale for longer than its TTL and the delay of one answer; an instance sees its own change; only trials judge a half-open circuit, and a service that has recovered is used again; retries follow their configuration, the fallback stands in only for an error it is meant for, and a caller with a timer is answered |
| platform | one request through engine or guards with two changes by others and failing calls; two requests with the contexts of four users; two reports tried twice, written within two milliseconds, one worker that dies, and a reader of single rows; two publications among up to two registrations of three functions; two decorated calls on two services; every error | a request let through passed every layer at some moment, one refused failed the layer it is told; a handler gets the rows of its own user's scope and all of them; a queued report is kept, and pages miss no row but those that share their `createdAt`; a wrapped listener disturbs nobody; decorated calls that do not overlap are isolated; an error keeps its meaning on its way to the client, except that a timeout is told as an internal error |
| back_office | owner and two more people, two branches, one department, two overlapping requests, one of the people moved by `updateUser`; four passwords, two overlapping changes, up to five; one piece of work, three jobs, two dead letters, two overlapping retries, two attempts | managers answer to the owner and workers to a manager; one manager, one branch; no password returns before three others, and the history holds nothing but old passwords; work is not lost on its way to the dead letters and back, and is done once but for the named disturbances |

Runs that end in a violation show where the code departs from what it says; each
has its own property and an entry under "findings":

| Run | What TLC finds |
|---|---|
| perm_snapshot_stale | with a warm cache a snapshot records the permissions before the change |
| session_double_refresh | two requests with one refresh token leave two live sessions |
| session_logout_wired | logout as wired throws before the access token is blacklisted |
| session_change_password | a new password ends the session it was changed from: the resolver passes none to spare |

Further divergences came to light while the properties were being stated. They
have no run of their own; most are excluded from the passing properties by a named
condition, and dropping that condition shows them:

* A grant validated before a revocation commits after its cascade, so with two
  handlers the golden rule fails at rest. `perm_serial` has one.
* A grant of fewer actions than the row had overwrites it and cascades nothing
  (`permission.service.ts:112`): the user's subordinates keep actions he no longer has
  (`GoldenRuleAtRest` excepts `narrowed`).
* `cascadeRevokePermissions` hands all modules down the recursion, so it revokes
  modules from subordinates of users who lost only some of them
  (`permission.service.ts:309`).
* A refresh under way when the password changes leaves a live session
  (`session_serial` has one handler).
* With Redis failing, a logged-out token is admitted (`session_overlap` has no
  failing calls, by `Faults`).
* "Revoke all sessions except current" (`auth.resolver.ts:344`) ends the current one too, for want of
  its id in the context: `CurrentSignInKept` fails of `revokeAll` as it does of `changePassword`
  while `ContextHasSession` is `FALSE`.
* A wrong password for the owner of a named organization is counted on the user with the e-mail
  sent along, or on nobody (`auth.service.ts:412`), against "Lock account after 5 failed attempts"
  (`auth.service.ts:604`). `OrderlyGuessesBounded` speaks of the guesses that are counted where
  they were tried.
* Overlapping wrong passwords exceed five and are counted once
  (`OrderlyGuessesBounded` speaks of requests that do not overlap); a failed login in
  flight makes a deactivated account active or locked again. A blind failure needs no overlap
  for that: it is counted on an account whose status nobody looked at, and the lock it may set
  ends as ACTIVE.
* A request that read an expired lock lifts the next one: `checkAccountStatus` writes
  by id (`auth.service.ts:780`; `OrderlyLockHolds` speaks of requests that do not
  overlap).
* `flush` drops the writes it is documented to flush (`write-behind.strategy.ts:128-143`).
* "Ensures cache and database are always in sync" (`write-through.strategy.ts:19`)
  does not hold for two overlapping writers, whose calls may reach Redis and the
  database in different orders, nor for a reader that fills in an older value.
* If EXPIRE fails after INCR the guard fails open, the counter keeps no time to live and,
  at the limit, refuses its identifier for ever (`rate-limit.guard.ts:65`;
  `UninterruptedLimitLifts` leaves such requests out) while it answers "Please try again
  in ... minutes".
* `changePassword` updates the staff profile in its transaction; `registerOwner` makes
  none, so an owner's change always throws and is rolled back (`user.service.ts:405`),
  against `POSTMAN_TESTING_GUIDE.md:326`. In `PasswordHistory` this is `hasProfile = FALSE`.
* Overlapping password changes store one hash twice in the history and lose another.
* "Enforces single assignment rule" (`branch.service.ts:108`): two overlapping assignments
  of one manager both pass. So does the way its own error proposes, to unassign first:
  `updateUser` clears the manager's `branchId`, nothing clears the branch's `managerId`,
  and the next assignment leaves two branches with one manager.
* "Dead letter queue" (`README.md:163`): nothing in the repository calls
  `setBullService`, so no job is ever moved there, and no module imports `QueueModule`.
  Wired up, a job whose worker was lost twice fails without an attempt being counted and
  gets no dead letter either, and a dead letter that cannot be added is logged and
  forgotten (`base.processor.ts:92-101`). The failed job stays, which is why
  `NothingLost` holds.
* Two requests that retry one dead letter add two jobs, as does one that dies before it
  removes the letter, and a retry that fails comes back (`bull.service.ts:322-327`);
  `DoneOnce` excepts them.
* Overlapping login requests pass the rate limit together, by the number
  `OvershootBounded` states.
* "Don't fail registration if permissions fail - they can be fixed later"
  (`auth.service.ts:203`): nobody can grant to an owner without rows, so there is nothing
  that fixes them. `AnswersTrue` says only that the token tells.
* Two overlapping registrations with one e-mail both succeed: no index makes it unique
  (`EmailsDistinct` excepts `raced`). `updateUser` gives an owner the e-mail of another
  without any overlap, as it looks for nobody (`user.service.ts:243`; excepted as `unchecked`).
* A registration whose sign-in fails answers an error and has made the account
  (`auth.service.ts:212`): who tries again is told that the e-mail is taken.
* `createWorker` is open to owners by its guards, and `validateUserCreation` refuses every one
  of them ("Owners can only create managers", `user.service.ts:224`); `NothingOutOfReach` says so.
* Rows of `audit_logs` with one `createdAt` may change places between two pages, and a reader
  then misses one (`audit.service.ts:99`; `PagingMissesNothing` excepts them).
* `RequestTimeoutException` has status 408, which the filter's table of codes lacks
  (`timeout.service.ts:35`): the client reads of an internal error in generic words what the log
  calls the client's doing. `ErrorsKeepMeaning` names it.
* "These are models that have branchId and/or departmentId fields"
  (`scope-filter.middleware.ts:45`): four of the five have neither in the schema, so Prisma refuses
  reads of them by managers and workers (`FitsSchema`; `ScopeRespected` is about what is answered).
* The scope filter turns `where: { id }` of a `findUnique` into an `AND`, which Prisma does not
  accept either: such reads of users by managers and workers are refused within a handler.
* "Tables that don't have createdAt/updatedAt fields" (`timestamp.middleware.ts:18`): the
  list misses `audit_logs`, so a create of an audit row names `updatedAt` and is refused.
  Nothing registers `AuditInterceptor` either, which alone calls `logAction`.
* The interceptor's words for grants, revocations and password changes are not those that
  `getPriority` puts first.
* "Users can always view their own logs" (`audit.resolver.ts`) is said of an operation that
  asks everyone for a permission.
* Decorated calls that overlap share a transaction, and the later restore leaves the client
  of a finished one in `prisma`; a nested call on another service runs outside the
  transaction (`transaction.decorator.ts:73`; `SerialCallsIsolated` excepts both).
* The first delay of a retry is not capped by `maxDelay`; an attempt that timed out runs on
  beside the next.
* Codes of Prisma reach GraphQL clients as the code, and an error with an unknown one in its own
  words, although internal errors are to be answered generically; `technicalMessage` always
  carries the original words. `handleGrpcError` makes INTERNAL of the controller's own
  INVALID_ARGUMENT. `GrpcErrorInterceptor` is registered by nothing.

### Bounds and why they are enough

* Two handlers (three calls of a circuit, four of the rate limiter): every race found lies between one
  request's read and its write, with one other in between. The invariants that
  hold for any number of handlers are proved.
* Three users: owner, manager, sub-manager is the shortest chain a cascade can
  follow beyond its first level, and the shortest circle.
* `MaxRequests`, `MaxSessions`, `MaxTime`, `MaxBlind` end the state space. When the
  first three are reached the system stops, so those configurations disable the
  deadlock check. The clock of `session_serial` passes the expiry of access and of refresh
  tokens, that of `session_overlap` only that of access tokens: a refresh token outlives that run,
  so that rotation stays possible to its end. The other clocks pass every expiry of their run.
  `MaxBlind` bounds the requests whose GET failed and that go on uncounted by the
  limit.
* Counters that are only compared with a threshold stop at it.
* Times of the multi-tier cache: `MemoryTtl` 2 between the two TTLs 1 and 3 of callers, so
  that either may be the shorter; `MaxDelay` bounds how late an answer of Redis is
  handled, and `StalenessBounded` counts it. `MaxWrites` and `MaxValues` let one
  value be overtaken twice and once.
* `Editable` is one person: `updateUser` may move anyone anywhere at any time, which a
  second moved person only repeats. `MaxChanges` is five, so that with a history of three
  the oldest password falls out twice.
* `MaxStaff` is one employee, whose e-mail may be the one an owner asks for. Logins of the
  lockout are of all four kinds.
* One piece of work: jobs for different work share nothing but Bull's counter of ids.
  Three jobs and two dead letters let it fail, be retried, fail and be retried again,
  which is as far as a second letter for the same work matters. `Attempts` is 2, so
  that there is a failure that is not the last. `RetryJob` happens once per piece of
  work.
* Two rules of two priorities may tie or not; amounts 0 to 3 lie below, on, between and above
  thresholds. Two disturbances let a row be taken and given back, or a seat and a rule
  change, within one decision; requests of the authorization share nothing but the
  copy, so TLC follows one caller; the theorem is about any number. There one form of rule is
  enough, and `login` takes the rest. Four users are an owner and one with a branch,
  a department, or both.
* Two reports with two attempts: one may overtake the other, be repeated or fail for good.
  One row a page puts every boundary between two rows. Two `Instants` let two rows share one
  or not, and be written in the order of the clock or against it; `MaxStalled` is one job whose
  worker dies. `Exercised` are one operation reported with high priority, one with
  low and one that is not audited, as other operations differ in nothing a property is about.
* Two events and a log of one: the oldest is trimmed. Three functions, one of them not wrapped,
  in up to two registrations (`MaxListening`), which may be of one function.
* Attempts and first delay of a retry are the code's, with a cap that the second delay reaches.
* Symmetry is used over handlers, and in `back_office` over
  branches, in runs without liveness: no definition orders them.

### Fairness

* Steps of a request in progress are weakly fair: an awaited call returns or
  throws. Requests are not fair, since nothing makes a client call, except where
  the question is what happens to a client that goes on: `ServiceUsedAgain` (`Recovers`) and
  `RightfulUserGetsIn` (`RightPasswordWorks`). In the latter `Begin(p, TRUE)` is strongly fair, as a user
  who retries is sometimes scheduled while the account is open.
* `Tick` and the TTL's `Expire` are weakly fair: clocks run. So are the timers `TimerWins` and
  `Retry`, and a fallback settles; an attempt need not.
* Faults and crashes are never fair.

## 4. Proofs

| Module | Theorem | Argument |
|---|---|---|
| PermissionDelegationProofs | `TypeCorrect`, `PossessionCorrect`; `GoldenRuleHolds`, `CacheStaysFresh` for one request at a time and no fault | `IInv == TypeOK /\ Shape /\ Possession`, then `SerialInv == Phases /\ FreshElsewhere /\ BrokenAreKnown` |
| SessionTokensProofs | `TypeCorrect`, `OutdatedNeverAdmitted`; the refinement `SessionsImplementLifecycle`; `LogoutIsFinal` while Redis answers; `RotationKeepsLogins` without crashes and without requests that revoke all others; `RotationNeverMultiplies`, `EndedIsEnded` for one request at a time | `IInv == TypeOK /\ Roomy /\ Requests`, then `Listed` and `LateKnown`, `OutdatedKnown`; `Named` and one lemma per kind of step (`BeginStep`, `EndStep`, `RotationEndsNothing`, `RevokingEnds`, `QuietEnds`); and `Serial == OneEach /\ Undisturbed` |
| LoginProofs (AccountLockout) | `LockoutTypeCorrect`, `CountedFailuresLock`, `LocksHaveAnEnd`; `GuessesAreBounded`, `LocksHold` | `LockoutInv` = type, count below the limit unless locked, lock with an end; then `OrderlyInv == ~ disturbed => OneAtATime /\ GuessesCounted /\ LockInForce` |
| LoginProofs (RateLimit) | `RateTypeCorrect`, `OvershootIsBounded`, `WindowIsSet`, `WindowStaysFixed` | `RateInv` = type, `OvershootBounded`, `SomeoneSetsTtl` and `PendingAlone` |
| LoginProofs (Registration) | `AccountsStaySound` | `RegInv` = type, `StoredOnce`, `ChecksHold`, `Answered`, `OwnersAreWhole`, `EmailsDistinct` |
| LoginProofs (Gates) | `OwnerReachesEverything` | `OwnerKeepsAll` (an owner nobody touched has the whole registry), `GroupsAnswerable` (no operation asks for more) and `Creations` (what the service adds to the two that create) |
| CoreProofs (CacheStrategies) | `CacheInSync`, `NewestIsKept` | `StrategyInv` = `StrategyTyped /\ Alone /\ Synced`, what each await of a reader and a writer knows of cache and database; for write-behind `QueueInv` = `QueueTyped /\ Alone /\ InOrder` |
| CoreProofs (CircuitBreaker) | `BreakerTypeCorrect`, `ClosedIsHealthy`, `TrialsStartAfresh`, `OpenIsNotForEver`, `StaleOutcomesDoNotJudge` | `BreakerInv` = the five invariants and `NoneAdmittedWhileOpen` |
| CoreProofs (MultiTierCache) | `TiersTypeCorrect`, `StalenessIsBounded`, `OwnChangeIsSeen` | `AgeInv` = types, `HeldIsFresh`, `AnswersFresh`, `AgeBudget`; then `OwnInv` = `Sole` and `OwnInPlace` while nothing overlapped |
| CoreProofs (Resilience) | `RetriesAreJustified` | `RetryInv`: the property, what the caller knows at each await, and the next delay; the lemmas `GrowthRule` and `NextDelayGrows` |
| StaffProofs | `TypeCorrect`, `CommandChainHolds`, `SinglyAssigned`, `ManagersSeated`, `ScopeForEveryone` | `IInv == TypeOK /\ Requests /\ Rows`: the five invariants and what a request has read that still holds |
| PasswordHistoryProofs | `RecentStayBarred`, `HistoryHolds` | `PwInv` = type, `HashesKnown`, `Undisturbed` and both properties |
| JobQueueProofs | `NothingIsLost`, `DeadAreNotTried`; `DoneOnlyOnce` | `IInv == QueueTypeOK /\ Known /\ NothingLost /\ NotDeadAndAlive`: what an attempt and a failure under way know; then `OnceInv` = `Added`, and `InOnePlace` for undisturbed work |
| PlatformProofs (Authorization, BusinessRules) | `AnswersAreJustified`, `EvaluationsAgree`, `DemandsAreMet` | `RulesInv` and the lemma `Evaluation`; `AuthInv == AuthTypeOK /\ \A c : Accounted(c)` |
| PlatformProofs (AuditTrail) | `OutcomesAreKept`, `ReadersMissNothing` | `AuditInv == AuditTypeOK /\ WrittenIsThere /\ RestIsAhead` |
| PlatformProofs (EventBus) | `NobodyMisses` | `BusInv` = `Publication` of each call and `LogHoldsNewest` |
| PlatformProofs (QueryPipeline) | `ReadsStayInScope` | `ContextIsOwn` and the lemma `ScopeOfReads` |
| PlatformProofs (TransactionContext) | `SerialIsolation` | `IInv == TxTypeOK /\ (~ crossed => Alone /\ Clean)`: what the only call under way has set, and that it is still there |
| PlatformProofs (ErrorReplies) | `ErrorsTellTheTruth` | the property itself is inductive; the lemma `RaisedKnown` says what every error thrown has in common |

All hold for every value of the constants that satisfies the named assumptions of
the modules, any number of handlers, and every fault, but for the hypotheses the table names.
The assumptions are what the code or its stores guarantee: thresholds and times as they are
configured, one hierarchy level per user (`StaffAssumption`), finite tables
(`RulesAssumption`), a page of at least one row (`PageAssumption`:
the code reads `limit || 100`), a log of some size (`BusAssumption`), and a first delay that
is within the cap (`RetryAssumption`, as in `DEFAULT_RETRY_CONFIG`: the code caps the later
delays only).

*Possession.* That a granter once held what it granted does not follow from the
rows alone: the validation reads the cache. The strengthening says of every copy
of a user's permissions - the rows, the Redis entry, and what a handler has read
and not yet used - that the user held what it shows, and `Shape` says whose
permissions a handler has read at each await. `held` only grows, so a stale copy
stays true in that sense.

*The golden rule.* It is about actions: who granted one that is in force has it. Two things break
that. A grant of fewer actions breaks it for good, as nothing cascades; `narrowed` records the
pairs, and the theorem excepts no others. During a revocation it is broken for as long as the
cascade takes.
`BrokenAreKnown` says where: whoever owns a row without backing has it from somebody the
cascade has yet to visit (`ToVisit`), or is in the list the transaction is about to revoke.
When the request ends both are empty, whatever the depth of the delegation and also when grants
form a circle. `FreshElsewhere` says the same of the cache: only users the request has written
and not yet invalidated (`Stale`) may have an old entry. Both need the one handler: a second
one would validate against, or refill, what the first is about to change.

*Sessions.* A logged-out token is refused because its blacklist entry lives as long as the
token does (`Listed`) and a guard that came in later has read the entry or found the token
expired (`LateKnown`); with Redis faults the logout may be answered and nothing listed.
Every step is a step of `LoginLifecycle` or changes nothing in it. Inserting a row begins a
sign-in when it is a login's, whose row names a sign-in that did not exist (`Named`), and
otherwise continues one that was live, because the refresh under way kept it so (`BeginStep`).
A step that inserts nothing can only end sign-ins: revoking rows ends what the same step has put in
`ended` (`RevokingEnds`), and rotation ends nothing, as the request that revokes goes on to insert
(`RotationEndsNothing`). A request may take up a session only while it is live, so none is revived.
All this holds for overlapping requests and under every fault; only where requests die, or
where a new password or the revocation of all others takes the caller's own session along
(`MayLose`), may a sign-in end unasked. `RotationKeepsLogins` is read off the life cycle: what is over there
has been asked for (`NoneLost`), so at rest a sign-in nobody ended has an unrevoked row. For one request at a time the
session a refresh read is still the login's only unrevoked one when it writes (`Undisturbed`).
Two overlapping refreshes break that: both read the old session before either revokes it,
which is why the theorem asks for one.

*Lockout.* `GuessesCounted` relates the guesses made to the count in the row at every await of a
login: a wrong password is counted, or the request that tried it has the count it is about to
write over still in its hands. That is so only until two logins overlap or one dies, which
`disturbed` records; an administrator may change the status at any time. Stray guesses are
outside the theorem, as no count in this row knows of them; blind failures are inside, as they
only raise the count.

*Registration.* An e-mail that passed its check is still free when the account is inserted,
unless another form with it passed too, or another request wrote it; then the e-mail is in `raced`
(`ChecksHold`). The requests that create staff add no owner, and `updateUser` keeps the number of
owners but not their e-mails apart, which `unchecked` records. Owner,
organization and answer go together because the transaction writes both and the
answer comes after it (`StoredOnce`, `Answered`).

*Circuit breaker.* That only trial calls judge a half-open circuit needs a fact
about the past: while the circuit is open, every call in flight is at least as old
as the last failure (`NoneAdmittedWhileOpen`). With `Latest < Timeout` a circuit
that has rested has no older call left (`RestedIsQuiet`). The assumption is the
configuration in `auth.service.ts`, 10 against 60 seconds; a registration with a
request timeout above the rest would void the theorem.

*Two tiers.* Staleness is a budget: the age of a value in memory and the time its entry has
left never exceed `MemoryTtl + MaxDelay` together (`AgeBudget`). An answer of Redis that is
handled late has used up its delay before the entry starts (`AnswersFresh`). `OwnChangeSeen`
speaks of an instance at rest; `OwnInPlace` says what the request of the change still carries
to Redis while memory shows the change already.

*Rate limiter.* The bound counts the requests between check and INCR with the
counter itself; a lemma on cardinalities gives room for one more whenever a
request passes the check. That no attempt prolongs a window needs `PendingAlone`:
the request about to EXPIRE is the one whose INCR created the key, and there is
only one while the key has no time to live.

*Staff.* A request writes what it judged several awaits ago. That this is harmless for the
chain of command rests on levels and creators never changing; that it is harmless for the
single assignment rests on `AloneUnlessContested`: without `contested`, the assignment
under way for a manager is the only one, so the seat it has read is still free.

*Password history.* The hash a change has read was once the password (`HashesKnown`), and
is still the current one unless two changes overlapped. That three passwords lie between
two uses of one follows from what the history keeps, the last three of `past`.

*Job queue.* Work is covered by a live job or by a dead letter nobody is about to remove.
A letter becomes unsafe in the step that adds its job, so the two never lack at once; a
job leaves the queue only after an attempt that had its effect, which is what `Known`
says of it, or by an operator's hand. `Known` says too that a job about to be moved has
failed for good, and `RestStep` that it stays so unless an operator retries it. That work is
done once needs the opposite count: until it is done, undisturbed work is in one place only,
an open job, a job on its way to the dead letters or a safe letter (`InOnePlace`), and requests
that retry letters of one piece of work have a letter each (`RetriesApart`).

*Rules.* The evaluators stop at the first rule that triggers, in an order of which only the
priorities are known. `FirstHit` says what the loop returns, `OrderExists` that every
rule of the highest priority comes first in some order; both evaluators then have the
answers of `Reference`, for any finite table. The induction over the number of rules is
over a set of numbers (`LeastNumber`, `CountUp`), because the library's induction theorems
cannot be instantiated here.

*Authorization.* `OnRecord` says that what holds, and what fails, now is in the histories of
every request under way; what a request has read was so when it read it, and is therefore
on record for good (`LevelKnown`, `ScopeKnown`, `PermissionKnown`). Nothing another request or
a change does can take that away, so the invariant is proved of one request at a time
(`OthersKeep`), for any number of them.

*Audit, events, scope.* A new row goes in front of an old one, or behind it, where it moves nothing;
the place of a row with a `createdAt` of its own is the same in every order the database may
choose. So such a row, if a reader has yet to see it, moves
away from its offset and never past it (`RestIsAhead`), whatever the clocks of the writers show. How many events the log holds and which
follows from how many there were (`LogHoldsNewest`). The user in the context of a request is the
one its guard has found, so every query is narrowed to the right scope (`ContextIsOwn`).

*Write-behind.* Writes overtake each other only if requests or persisters overlap. Otherwise what
is stored, what a persister is about to store, the armed timers and the write of a request are in
the order in which they were made, and the last write is among them (`InOrder`). A timer
that can no longer be cancelled, because the completion of an older write has deleted its entry
in the queue, does not disturb that order. So no older value replaces a newer one, and the
last is stored when nothing is left.

*Retries.* An operation's delays are capped one after the other, while `Backoff` caps the power:
`NextDelayGrows` says that the two agree. It needs that the recursive function `Growth` is what
its definition says, which is proved by counting up: a finite table of powers exists for every
length, and tables agree where they overlap. `RetryInv` relates `errors`, `slept` and `attempt` at each
await, the error a fallback stands in for included; an attempt that still runs beside the
current one has "timeout" at its place.

*Gates and errors.* Both rest on tables in the code: what the resolvers name, and the errors that
are thrown. The lemmas about them go through the tables (`GroupsAnswerable`, `RaisedKnown`); an
operation that asks for an action that is not registered, or an error whose class and status
disagree, makes them unprovable. That the owner keeps what registration wrote is an invariant
over any staff and any grants, as only a grant to the owner or a revocation from him changes his
rows and both count as touching him. `createWorker` is the exception the service makes: the
theorem says that the owner can create a manager and grant him what its guard asks for.

Some theorems state invariants that no run lists by itself (`ClosedBelowThreshold`,
`HalfOpenBelowThreshold`, `ActiveBelowMax`, `LockCanExpire`, `SomeoneSetsTtl`,
`ManagersAreSeated`, `EveryoneHasScope`, `NotDeadAndAlive`): they hold for every value of
the constants.

Every safety invariant and action property that a passing run checks is stated by a theorem.
Only model-checked are the liveness properties, as liveness and ENABLED are beyond the prover. Of
write-behind's `QueuedWritesStored` the part that is safety is proved (`NewestIsKept`), that a
timer fires and its persister answers is left to TLC.

## 5. Plan

Done: 1 PermissionDelegation, 2 SessionTokens, 3 CircuitBreaker, 4 AccountLockout,
5 RateLimit, 6 CacheStrategies and MultiTierCache, 7 Staff and PasswordHistory, 8 JobQueue,
9 BusinessRules and Authorization, 10 TransactionContext, 11 Registration and Gates,
12 AuditTrail, QueryPipeline, Resilience, EventBus, ErrorReplies, 13 the abstract specification
`LoginLifecycle` and SessionTokens' refinement of it, checked and proved.

Not done: an abstract breaker, which would say no more than the breaker's invariants do.

## 6. Not modelled, and why

bcrypt, JWT signatures and hashing are taken to work. Message formats, the mapping of results,
validation of inputs, logging, metrics, configuration and health probes hold
no state a property is about. Code that nothing calls or registers and that keeps no state of
its own is left out: `registerOwnerWithGoogle`, `StaffProfileService`, `base.repository.ts`,
`CacheInvalidationService` and the cache interceptor, the unimplemented operations of
`UserGrpcController`. `HttpExceptionFilter` is left out: the GraphQL filter catches
what it would. The single-statement reads and writes of
PostgreSQL and Redis commands are atomic; isolation between a transaction's own
statements and others is not modelled finer than the transaction.
