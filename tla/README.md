# GoERP engine in TLA+

A model of the concurrent parts of the GoERP engine (`src/internal/engine`),
checked with TLC and, for the instance pool, proved with TLAPS.  The engine
hosts tenants' WASM modules; Postgres (READ COMMITTED), Redis, River jobs and
several engine replicas are what makes it concurrent.  File names below are
relative to `src/internal/engine` unless they start with `src/`.

## Inventory

| part | state | operations | who it meets |
|---|---|---|---|
| WASM instance pool, `wasm/pool.go` | channels `tokens`, `idle`, counter `borrowed`, `draining`, `stop` | Borrow, Return, replenishLoop, DrainAndClose | every request, hot reload, shutdown |
| Refresh-token sessions, `auth/session`, `auth/sessionrevoke` | rows of `system.sessions`, Redis blocklist | Insert, Rotate, revocations, ClearPasswordChangeRequired | concurrent requests of one user |
| Hot reload, `hotreload`, `modulereload` | registry, reservation, Redis lock, announcements, translations | onChanged, Leader.Run, Follower.Run | other instances, the pool, the registry |
| Module installation and boot, `moduleinstall`, `moduleboot` | module directory, registry, reservation, pools | StartInstall, Work, boot | River, hot reload, crashes |
| Event delivery, `wasm/host_event.go`, `eventdelivery` | River jobs, `event_log`, `event_deliveries` | emit, emit_tx, fan-out, delivery, replay, dead-letter retry | transactions, handlers, operators |
| Role permissions, `permcache`, `permission`, `role`, `auth/authcheck` | role tables, permission map, Redis role cache, stale marks | rebuilds, LISTEN loop, role handlers, assignment, hydration | registry publications, replicas |
| Everything else | see `components` in PROJECT.json | | |

What is hard in them: a statement's snapshot that misses a row committed while
it waits; locks and reservations released before the step they protect; jobs
run again after they succeeded; lost announcements; expired locks; channels
closed while others send or receive.  The hazards are listed in PROJECT.json at
their lines, with the properties that would catch them, or a note where none
does.

## Modules

Each component has one module.  A goroutine, request or job has a program
counter; one action is one channel operation, one SQL statement or row lock, one
Redis call, or the code under one mutex.  `MC*` modules give the constants their
values.  Definitions named `X_Something` are faulty variants of `X` and belong
to no specification.

**InstancePool.**  `tokens` and `idle` are the lengths of the two channels,
`borrowed` the polled counter, `live` the number of open instances; `bpc`, `rpc`
and `dpc` say where borrowers, the replenisher and drainers are.  Instances are
counted, not named.  A Borrow that read `draining` before it was set may still
obtain an instance after a drain has returned; the properties allow for that.

**SessionFamily.**  A statement takes a snapshot, locks its rows one by one,
waits, and re-evaluates its condition on the newest version.  Postgres is
external: snapshot, row lock, deadlock victim and transaction end.  Each request
performs one operation; `ids` holds what it will blocklist.  A replay's SELECT
for the family's holder is such a statement: `hit` is the row it found once it
had the lock, and HolderDevice the device it compares.  Lock cycles between a
replay and a family UPDATE are reachable; Fail is the victim Postgres chooses.

**HotReload.**  One module name on several instances.  `Uploads` says which
triggers happen in one behaviour.  A registry entry has a version, a pool and a
pointer, because `activateTranslations` compares pointers.  `PublishOther` is a
publication of a different module.  Compiling (LoadModule) opens the candidate's
pool and validating and uploading it is a step of its own: a failure there meets
an open pool, which the deferred Discard has to close.

**ModuleInstall.**  Install requests for one module name, their River jobs, the
module directory, the registry, a crash and the boot that follows.  A failing
attempt runs its deferred functions in Go's order: pool, reservation, and only
then the package (pc "cleanup").  A boot entry marked failed after LoadModule
keeps its open pool; `replaced` collects those pools once an install replaces
the entry.

**EventDelivery.**  Emissions of one idempotency key, the fan-out job, delivery
jobs with River's attempts, the log and the ledger.  Time is not modelled: the
24 hours of the emission's uniqueness are taken as for ever.

**RolePermissions.**  One replica's permission map, listener and registry, role
edits here and elsewhere, tenant sync, one user's assignment and requests.
`Calls` says which handlers run in one behaviour.  `behind` collects the tenants
whose lag the code only logs, or never announces; map properties exclude them.
GrantModuleDefaults grants one permission per call.

The modules are checked one by one.  They meet at the registry's reservation
and publication, which HotReload, ModuleInstall and RolePermissions each model
with the same order of steps; their composition is in the plan.

## Runs

| run | instance | distinct states | shows |
|---|---|---|---|
| pool | 3 borrowers, 2 drainers, MaxSize 2, WarmSize 1 | 43,416 | tokens, instances and the counter balance; releases never block; no send on the closed channel; a drain leaks nothing; drains and borrows return |
| session | 3 refreshes, or 2 and 1 other operation; 4 rows, 2 families | 406,217 | chains stay linear, settled revocations end families and are blocklisted, a replay is judged by the holder it locked and revokes the whole family or nothing, revocation is final |
| reload | 2 instances; one version uploaded twice, or two versions | 434,603 | the current pool is never drained, candidates do not leak when a step after compilation fails, others' locks survive, one uploaded version reaches everybody |
| install | 3 installs of 2 versions, 2 attempts, 1 failure, 1 crash | 77,105 | a live module is not replaced, pools and the reservation are accounted for |
| events | 3 emissions (tx, plain, sync), 2 subscribers, 2 failures, 1 replay, 1 retry | 268,071 | an event exists iff its emission committed, one delivery job per subscriber, effects once, everything settles |
| permissions | 2 tenants, 3 roles, 2 permissions, 1 failure, five sets of handlers | 399,711 | the map follows registry and role changes, assignments reach existing sessions |

The runs session_two_revokers, reload_other_module, reload_regression,
install_loser, events_fallback and permissions_indexes each end in a
counterexample; see Findings.

**Bounds.**  Two actors of a kind and one of the others give every pairwise
race; a third borrower or refresh makes one wait while two act.  Two attempts
let a retry meet what the first attempt left.  One failure (two for events)
reaches each error path alone.  Outside the recorded runs the same properties
were tried on other instances and held:

- pool: (MaxSize, WarmSize) = (1,1), (2,2) and (3,1);
- session: restricted and unrestricted logins with 3 rows; one refresh with two
  revokers or a lifting, except SettledRevocationEndsFamily, which fails there
  (session_two_revokers);
- install: 3 attempts, 3 failures, 2 crashes;
- events: two transactional or two synchronous emissions, two asynchronous
  subscribers with one failure, one attempt;
- permissions: a remote edit and a publication; an assignment, a request and a
  publication; two edits and a publication (3.8 million states);
- reload, invariants and OthersLockSurvives: two versions on one instance.

**What the properties leave out on purpose.**  These hold only as narrowed,
because the code does not give the wider form:

- AnnouncementsConverge is about behaviours in which one version is uploaded.
  With two versions it fails without any failure (observation 5).
- SettledRevocationEndsFamily and RevokedAreBlocklisted are not about
  RevokeAllForUser (observations 1 and 2), and the first needs a single revoker
  (finding 1).
- ClearLiftsLockedRows allows a second successor (observation 3).
- UnpublishedCandidatesClosed is not about replaced pools (observation 6).
- PoolsAccounted counts the pools of replaced boot entries apart
  (observation 7).
- The map properties exclude tenants in `behind` (observations 9 to 11).

**Fairness.**  Goroutines that can run do (WF).  In the pool, strong fairness of
the stop, timeout and context cases stands for Go's `select`, which chooses at
random among ready cases; a borrower need never return its instance.  River
works its jobs; failing, crashing, expiring and the operator's actions are never
obligatory.  In HotReload it is enough that some goroutine that can run does,
since every run ends.  In RolePermissions the listener, begun rebuilds and a publisher
that holds the registry lock go on; no request has to arrive.  SessionFamily and
ModuleInstall are checked for safety only.

## Proofs

InstancePoolProofs proves for all finite sets of borrowers and drainers and all
positive MaxSize and WarmSize (SizeAssumption, FiniteAssumption): the inductive
invariant (PoolInvariance), TokensBalance, InstancesBounded, ReleasesNeverBlock,
NeverSendsOnClosed, DrainLeavesNothing and BorrowedBalances.

TokenAccounting is not inductive by itself: a sweep may only return a token if
the channel is closed and one drainer sweeps, and the number of instances has to
be related to the same program counters.  PoolInv adds the instance equation, the
counter, NoSendOnClosed and DrainProtocol (one closer, close before sweep, a
finished close leaves the channel empty).  Steps of one goroutine change a
cardinality by the weight of the states it leaves and enters (MoveCount,
BorrowerMove, DrainerMove); one lemma per kind of goroutine has one step per
action.

Only model-checked: the pool's liveness (liveness under fairness is outside the
prover's reach) and every property of the other five modules.

## Findings

Each has a run whose counterexample TLC finds, and a quoted line in PROJECT.json.

1. session_two_revokers: the settling loop ends one pass early when another
   revoker revoked the row it waited for.
2. reload_other_module: a publication of another module makes a reload skip its
   translations.
3. reload_regression: a follower publishes an older version over a newer one.
4. install_loser: the loser of two installs of one package removes the winner's
   file.
5. events_fallback: a delivery queued for a synchronous subscriber is refused
   until it is dead-lettered.
6. permissions_indexes: a request tests bits with another snapshot's indexes.

## Observations

Behaviours of the code that have no run.  TLC showed 1 to 7 on these models;
8 to 13 come from reading the code while modelling it.

1. RevokeAllForUser is one UPDATE: a successor committed while it waits stays
   live (`auth/session/store.go:323`; comment at :320).
2. It reads the ids to blocklist first, so a row inserted in between is revoked
   and not blocklisted (`auth/sessionrevoke/revoker.go:78`; comment at :74-77).
3. Two rotations in a row during ClearPasswordChangeRequired leave a live row
   restricted (`auth/session/store.go:224`; comment at :195-199).
4. A replay that waits for a holder being rotated answers RotateFamilyRevoked
   for a live family (`auth/session/rotate.go:169`; comment at :25-26).
5. A follower is refused while another version's run has the name reserved, and
   nothing repeats the announcement: the instance stays behind
   (`modulereload/follower.go:51`; comment at `leader.go:39-41`).
6. Two runs that overlap after the reservation drain the same old pool, and the
   pool the first published is never drained (`modulereload/leader.go:169`).
7. A boot entry that fails after LoadModule (routes, permissions, templates)
   keeps its open pool, and an install that replaces the entry never drains it
   (`moduleboot/moduleboot.go:469-496`, `module/module.go:45`; comment at
   `loader/loader.go:117-118`).
8. A failed permission rebuild after publication removes the live module's
   package; a rejected version of a loaded module keeps its own, and at the next
   boot the last file listed wins; a failed enqueue leaves the package
   (`moduleinstall/worker.go:104-106`, `installer.go`).
9. Provisioning and tenant sync change grants and notify nobody
   (`role/defaults.go:18`; comment at `permcache/listener.go:33`).
10. The listener only logs a failed rebuild (`permcache/listener.go:111-113`).
11. A tenant whose queries fail in a full rebuild is left out of the new map, so
    its roles grant nothing until the next rebuild
    (`permcache/role_permission_map.go:66-70`).
12. An error of IsRolesStale counts as not stale
    (`auth/authcheck/checker.go:534-537`).
13. RevokeFamily stops blocklisting at the first Redis error
    (`auth/sessionrevoke/revoker.go`).

## Not modelled

PROJECT.json gives the reason per component: SQL and DDL generation, HTTP
plumbing, rendering, code generation and the CLI are sequential transformations;
Temporal and the guest modules run outside the engine; cron, presence, tenant
life cycle and the configuration cache are protocols left to the plan.

## Plan

1. More modules: cache get_or_set (`wasm/host_cache.go`), the configuration
   resolver's generations (`tenantconfig`), cron ticks and admission
   (`cronsched`, `jobdispatch`), connector inbox (`connectoringress`), presence
   (`ws`), one-time tokens, tenant provisioning and offboarding.
2. Composition: one registry module that reload, install and publication share,
   with an abstract registry they implement; sessions together with the request
   check that reads the blocklist.
3. Proofs: ReservationHeld and PoolsAccounted (ModuleInstall), TransactionalOnce
   and OneDeliveryJob (EventDelivery), MapFollowsRegistry (RolePermissions),
   OneSuccessor (SessionFamily), CurrentPoolOpen (HotReload).
