--------------------------- MODULE RolePermissions ---------------------------
(***************************************************************************)
(* What a role permits, as one engine replica sees it: the in-process role *)
(* permission map and its LISTEN loop (internal/engine/permcache), the     *)
(* index assignment the map is built against (internal/engine/permission,  *)
(* registry), the Redis cache of a user's roles with its stale-session     *)
(* markers, and the handlers that change roles (auth/adminroles),          *)
(* assign them (auth/roleassign), publish modules and hydrate a request's  *)
(* permission set (auth/authcheck).                                        *)
(*                                                                         *)
(* A permission bitfield is kept as the index assignment it was built with *)
(* and the names whose bits it sets: Bits gives the bits themselves.       *)
(* One user's roles are followed; the replica is one of several, and the   *)
(* handlers of the others act on the same Postgres and Redis.              *)
(***************************************************************************)
EXTENDS Integers, Sequences, FiniteSets, Functions

CONSTANTS Tenants,
          Roles, TenantOf, Parent,  \* role ids, their tenant and parent_id
          NoParent,
          InitialRoles, InitialGrants, \* the roles there are at start, and their names
          Held, Open,    \* the roles the user holds and the sessions they have at start
          Defaults,      \* roles modules name as default_roles
          Choices,       \* the sets of permissions an editor may choose
          Perms,         \* permission names modules may declare
          Declared,      \* the sets of permissions a publication may declare
          Editors,       \* requests of the role administration handlers
          Local,         \* the editors served by this replica
          Publishers,    \* module publications on this replica
          Syncs,         \* provisioning and tenant sync runs
          Granters,      \* requests that assign or revoke a role
          Requests,      \* authenticated requests on this replica
          Sessions,      \* the user's sessions
          Listener,      \* this replica's roles_changed goroutine
          Calls,         \* the sets of handlers that may be called in one behaviour
          Nobody,
          MaxFailures    \* bound on failing steps

ASSUME RoleAssumption ==
    /\ TenantOf \in [Roles -> Tenants]
    /\ Parent \in [Roles -> Roles \cup {NoParent}] /\ NoParent \notin Roles
    /\ Held \subseteq InitialRoles /\ InitialRoles \subseteq Roles
    /\ InitialGrants \in [Roles -> SUBSET Perms] /\ Choices \subseteq SUBSET Perms
    /\ Declared \subseteq SUBSET Perms /\ Local \subseteq Editors
    /\ Open \subseteq Sessions /\ Defaults \subseteq Roles
ASSUME BoundAssumption == MaxFailures \in Nat

Builders == Editors \cup Publishers \cup {Listener}
Procs == Builders \cup Syncs \cup Granters \cup Requests
RolesOf(t) == {r \in Roles : TenantOf[r] = t}

\* buildPermissionRegistry walks the modules in map order: a publication
\* numbers the names it declares in any order.
Registries == UNION {Injection(S, 1..Cardinality(S)) : S \in Declared}

VARIABLES
    exists, grants, \* system tables: the roles, and each role's permission names
    userRoles,      \* the user's rows of user_roles
    active,         \* the user's sessions that have been created
    reg,            \* index assignment of the published registry snapshot
    regMu, mapMu,   \* holders of the registry's and of the map's write lock
    map,            \* the role permission map: bitfields by role id
    inbox,          \* notifications the LISTEN connection has yet to read
    cache,          \* Redis: the user's cached role ids
    stale,          \* Redis: sessions with a stale-roles marker
    pc,
    buf,            \* a rebuild's registry, tenants to read, roles read, result
    req,            \* a request's session, snapshot registry, role ids, bitfields
    edited,         \* the role whose holders an editor is to refresh
    before,         \* the sessions there were when a granter committed
    behind,         \* tenants whose entries lag after a logged failure or an
                    \* unannounced change
    since,          \* the values user_roles has had since each request started
    erred,          \* handlers that logged a failure and went on
    failures

dbVars == <<exists, grants, userRoles, active>>
redisVars == <<cache, stale>>
mapVars == <<reg, regMu, mapMu, map, behind>>
ghosts == <<since, erred, before>>
vars == <<dbVars, redisVars, mapVars, inbox, pc, buf, req, edited, ghosts, failures>>

NoCache == [found |-> FALSE, ids |-> {}]
NoEntry == [ix |-> <<>>, names |-> {}, known |-> FALSE]

\* Mutant: a name the registry does not know is not skipped.
Entry_AnyName(ix, names) == [ix |-> ix, names |-> names, known |-> TRUE]

Entry(ix, names) == [ix |-> ix, names |-> names \cap DOMAIN ix, known |-> TRUE]
Bits(e) == {e.ix[n] : n \in e.names}

\* A role, its parents, and NoParent where the chain ends.
Ancestors ==
    [r \in Roles |->
       LET up[n \in 0..Cardinality(Roles)] ==
              IF n = 0 THEN {r}
              ELSE up[n - 1] \cup {Parent[q] : q \in up[n - 1] \cap Roles}
       IN  up[Cardinality(Roles)]]

\* resolveRoleBitfield: the role's own grants and its parent's, unless the
\* chain of parents leaves the roles that were read (or never ends).
Resolve(r, have, perms, ix) ==
    IF (Ancestors[r] \ {NoParent}) \subseteq have /\ NoParent \in Ancestors[r]
    THEN Entry(ix, UNION {perms[q] : q \in Ancestors[r] \ {NoParent}})
    ELSE NoEntry

\* What the map would hold if it were built now.
Truth(r) == IF r \in exists THEN Resolve(r, exists, grants, reg) ELSE NoEntry
MapCurrent(t) == \A r \in RolesOf(t) : map[r] = Truth(r)

FreshBuf == [ix |-> <<>>, todo |-> {}, all |-> FALSE, t |-> Nobody, have |-> {},
             built |-> [r \in Roles |-> NoEntry], skipped |-> {}]

Init ==
    /\ exists = InitialRoles
    /\ grants = InitialGrants
    /\ userRoles = Held
    /\ active = Open
    /\ reg = CHOOSE ix \in Registries : TRUE   \* the numbers are interchangeable
    /\ map = [r \in Roles |-> IF r \in InitialRoles
                             THEN Resolve(r, InitialRoles, InitialGrants, reg) ELSE NoEntry]
    /\ regMu = Nobody /\ mapMu = Nobody
    /\ inbox = <<>>
    /\ cache = NoCache
    /\ stale = {}
    /\ \E called \in Calls :
          pc = [p \in Procs |-> IF p \in called THEN "start" ELSE "idle"]
    /\ buf = [p \in Builders |-> FreshBuf]
    /\ req = [q \in Requests |-> [session |-> Nobody, ix |-> <<>>, due |-> FALSE,
                                  ids |-> {}, todo |-> {}, seen |-> {}]]
    /\ behind = {}
    /\ since = [q \in Requests |-> {}]
    /\ erred = {}
    /\ edited = [e \in Editors |-> Nobody]
    /\ before = [g \in Granters |-> {}]
    /\ failures = 0

Goto(p, s) == pc' = [pc EXCEPT ![p] = s]
MayFail == failures < MaxFailures /\ failures' = failures + 1
LogFailure(p) == MayFail /\ erred' = erred \cup {p}

-----------------------------------------------------------------------------
(* Rebuilding the map *)

\* Mutant: a resync builds against the registry it saw before it had the lock.
BuildRegistry_Early(p) == buf[p].ix

\* RebuildAll is given its registry, the others read it under the map's lock.
BuildRegistry(p) == IF p \in Publishers THEN buf[p].ix ELSE reg

\* A rebuild is asked for: of one tenant, or of all of them.
Begin(p, tenants, all, ix) ==
    buf' = [buf EXCEPT ![p] = [FreshBuf EXCEPT !.todo = tenants, !.all = all, !.ix = ix]]

LockMap(p) ==
    /\ pc[p] = "rebuild"
    /\ mapMu = Nobody /\ mapMu' = p
    /\ buf' = [buf EXCEPT ![p].ix = BuildRegistry(p)]
    /\ Goto(p, "roles")
    /\ UNCHANGED <<dbVars, redisVars, reg, regMu, map, behind, inbox, req, edited, ghosts,
                   failures>>

\* buildTenantRoles, first query: AllRoles.
ReadRoles(p) ==
    /\ pc[p] = "roles"
    /\ LET t == CHOOSE t \in buf[p].todo : TRUE
       IN  buf' = [buf EXCEPT ![p].t = t, ![p].have = exists \cap RolesOf(t)]
    /\ Goto(p, "perms")
    /\ UNCHANGED <<dbVars, redisVars, mapVars, inbox, req, edited, ghosts, failures>>

NextTenant(p, todo) == Goto(p, IF todo = {} THEN "store" ELSE "roles")

\* Second query: AllRolePermissions; every role read is then resolved.
ReadPermissions(p) ==
    LET b == buf[p] IN
    /\ pc[p] = "perms"
    /\ buf' = [buf EXCEPT ![p].todo = @ \ {b.t},
                          ![p].built = [r \in Roles |-> IF r \in b.have
                                           THEN Resolve(r, b.have, grants, b.ix) ELSE @[r]]]
    /\ NextTenant(p, b.todo \ {b.t})
    /\ UNCHANGED <<dbVars, redisVars, mapVars, inbox, req, edited, ghosts, failures>>

\* Either query fails: a full rebuild logs it and leaves the tenant out.
SkipTenant(p) ==
    LET b == buf[p] IN
    /\ pc[p] = "perms" /\ b.all
    /\ MayFail
    /\ buf' = [buf EXCEPT ![p].todo = @ \ {b.t}, ![p].skipped = @ \cup {b.t}]
    /\ NextTenant(p, b.todo \ {b.t})
    /\ UNCHANGED <<dbVars, redisVars, mapVars, inbox, req, edited, ghosts>>

\* Where each caller goes on once its rebuild has succeeded or failed.
AfterRebuild(p) ==
    IF p \in Publishers THEN "unlock" ELSE IF p = Listener THEN "wait" ELSE "refresh"

StillBehind(m, more) ==
    {t \in behind \cup more : \E r \in RolesOf(t) : m[r] # Truth(r)}

\* The new map is stored whole.  A tenant's rebuild copies the other tenants'
\* entries from the current map.
StoreMap(p) ==
    LET b == buf[p]
        m == [r \in Roles |-> IF b.all \/ TenantOf[r] = b.t THEN b.built[r] ELSE map[r]]
    IN
    /\ pc[p] = "store"
    /\ map' = m
    /\ behind' = StillBehind(m, b.skipped)
    /\ mapMu' = Nobody
    /\ Goto(p, AfterRebuild(p))
    /\ buf' = [buf EXCEPT ![p] = FreshBuf]
    /\ UNCHANGED <<dbVars, redisVars, reg, regMu, inbox, req, edited, ghosts, failures>>

\* ActiveTenants fails, or a query of a single tenant's rebuild.  Nothing is
\* stored.  An editor and the listener's loop log it, a publication reports
\* it after the registry has been replaced, a resync ends the connection.
RebuildFails(p) ==
    LET b == buf[p]
        lost == IF p \in Editors THEN {} ELSE IF b.all THEN Tenants ELSE {b.t}
    IN
    /\ \/ b.all /\ pc[p] = "roles" /\ b.todo = Tenants
       \/ ~b.all /\ pc[p] = "perms"
    /\ MayFail
    /\ mapMu' = Nobody
    /\ IF p = Listener /\ b.all
       THEN Goto(p, "start") /\ inbox' = <<>> /\ UNCHANGED behind
       ELSE Goto(p, AfterRebuild(p)) /\ behind' = StillBehind(map, lost) /\ UNCHANGED inbox
    /\ buf' = [buf EXCEPT ![p] = FreshBuf]
    /\ UNCHANGED <<dbVars, redisVars, reg, regMu, map, req, edited, ghosts>>

-----------------------------------------------------------------------------
(* Listener *)

Quiet == <<dbVars, redisVars, regMu, mapMu, map, req, edited, ghosts>>

\* LISTEN, then a resync of every tenant.  What was announced while there was
\* no connection is never heard.
Listen ==
    /\ pc[Listener] = "start"
    /\ inbox' = <<>>
    /\ Begin(Listener, Tenants, TRUE, reg)
    /\ Goto(Listener, "rebuild")
    /\ UNCHANGED <<Quiet, reg, behind, failures>>

Hear ==
    /\ pc[Listener] = "wait" /\ inbox # <<>>
    /\ Begin(Listener, {Head(inbox)}, FALSE, reg)
    /\ inbox' = Tail(inbox)
    /\ Goto(Listener, "rebuild")
    /\ UNCHANGED <<Quiet, reg, behind, failures>>

\* Mutant: the goroutine ends with its connection.
AfterLoss_Ends == "done"

\* Start calls Run again.
AfterLoss == "start"

LoseConnection ==
    /\ pc[Listener] = "wait"
    /\ MayFail
    /\ inbox' = <<>>
    /\ Goto(Listener, AfterLoss)
    /\ UNCHANGED <<Quiet, reg, behind, buf>>

\* Mutant: the connection listens once the resync is over.
Listening_AfterResync == pc[Listener] \notin {"idle", "start"} /\ ~buf[Listener].all

Listening == pc[Listener] \notin {"idle", "start"}

Notify(t) == inbox' = IF Listening THEN Append(inbox, t) ELSE inbox

-----------------------------------------------------------------------------
(* Role administration *)

\* ServeCreate, ServeUpdate and ServeDelete commit the change with its
\* notification; the replica that served the request rebuilds the tenant.  A
\* held role, or one with children, is not deleted.
Commit(e, r) ==
    /\ Notify(TenantOf[r])
    /\ IF e \in Local
       THEN Begin(e, {TenantOf[r]}, FALSE, reg) /\ Goto(e, "rebuild")
       ELSE UNCHANGED buf /\ Goto(e, "refresh")
    /\ UNCHANGED <<userRoles, active, redisVars, mapVars, req, ghosts, failures>>

ServeCreate(e) ==
    /\ pc[e] = "start"
    /\ \E r \in Roles \ exists, S \in Choices :
          /\ exists' = exists \cup {r}
          /\ grants' = [grants EXCEPT ![r] = S]
          /\ Commit(e, r)
    /\ UNCHANGED edited

ServeUpdate(e) ==
    /\ pc[e] = "start"
    /\ \E r \in exists, S \in Choices :
          /\ grants' = [grants EXCEPT ![r] = S]
          /\ edited' = [edited EXCEPT ![e] = r]
          /\ Commit(e, r)
    /\ UNCHANGED exists

ServeDelete(e) ==
    /\ pc[e] = "start"
    /\ \E r \in exists \ userRoles :
          /\ \A c \in exists : Parent[c] # r
          /\ exists' = exists \ {r}
          /\ grants' = [grants EXCEPT ![r] = {}]
          /\ Commit(e, r)
    /\ UNCHANGED edited

\* refreshHolders, after an update.
RefreshHolders(e) ==
    /\ pc[e] = "refresh"
    /\ \/ stale' = (IF edited[e] \in userRoles THEN stale \cup active ELSE stale)
          /\ UNCHANGED <<erred, failures>>
       \/ LogFailure(e) /\ UNCHANGED stale
    /\ Goto(e, "done")
    /\ UNCHANGED <<dbVars, cache, mapVars, inbox, buf, req, edited, since, before>>

\* Provisioning and tenant sync grant a permission of a module to its default
\* roles and announce nothing.  A role the tenant does not have is skipped and
\* a grant it has already is left alone.
GrantModuleDefaults(y) ==
    /\ pc[y] = "start"
    /\ Goto(y, "done")
    /\ \E t \in Tenants, n \in Perms :
          LET given == {r \in Defaults \cap exists : TenantOf[r] = t /\ n \notin grants[r]}
          IN  /\ grants' = [r \in Roles |-> IF r \in given THEN grants[r] \cup {n} ELSE grants[r]]
              /\ behind' = behind \cup {TenantOf[r] : r \in given}
    /\ UNCHANGED <<exists, userRoles, active, redisVars, reg, regMu, mapMu, map, inbox,
                   buf, req, edited, ghosts, failures>>

-----------------------------------------------------------------------------
(* Publication *)

LockRegistry(p) ==
    /\ pc[p] = "start" /\ regMu = Nobody
    /\ regMu' = p
    /\ Goto(p, "publish")
    /\ UNCHANGED <<dbVars, redisVars, reg, mapMu, map, behind, inbox, buf, req, edited,
                   ghosts, failures>>

\* The new snapshot is stored, with a registry numbered anew, and the map is
\* rebuilt from it; or the candidate is rejected.
Publish(p) ==
    /\ pc[p] = "publish"
    /\ \/ \E ix \in Registries :
             /\ reg' = ix
             /\ Begin(p, Tenants, TRUE, ix)
             /\ Goto(p, "rebuild")
       \/ Goto(p, "unlock") /\ UNCHANGED <<reg, buf>>
    /\ UNCHANGED <<dbVars, redisVars, regMu, mapMu, map, behind, inbox, req, edited,
                   ghosts, failures>>

UnlockRegistry(p) ==
    /\ pc[p] = "unlock"
    /\ regMu' = Nobody
    /\ Goto(p, "done")
    /\ UNCHANGED <<dbVars, redisVars, reg, mapMu, map, behind, inbox, buf, req, edited,
                   ghosts, failures>>

-----------------------------------------------------------------------------
(* Role assignment *)

\* AssignRole or RevokeRole commits.
Grant(g) ==
    /\ pc[g] = "start"
    /\ \E r \in exists :
          userRoles' = IF r \in userRoles THEN userRoles \ {r} ELSE userRoles \cup {r}
    /\ since' = [q \in Requests |-> since[q] \cup {userRoles'}]
    /\ before' = [before EXCEPT ![g] = active]
    /\ Goto(g, "invalidate")
    /\ UNCHANGED <<exists, grants, active, redisVars, mapVars, inbox, buf, req, edited,
                   erred, failures>>

\* invalidateAndBroadcast, best effort: the cached roles are dropped ...
Invalidate(g) ==
    /\ pc[g] = "invalidate"
    /\ \/ cache' = NoCache /\ UNCHANGED <<erred, failures>>
       \/ LogFailure(g) /\ UNCHANGED cache
    /\ Goto(g, "mark")
    /\ UNCHANGED <<dbVars, stale, mapVars, inbox, buf, req, edited, since, before>>

\* Mutant: no session is marked.
Marked_None == {}

\* MarkRolesStaleForUserInTenant: every session there is.
Marked == active

\* ... and the user's sessions marked.
MarkRolesStale(g) ==
    /\ pc[g] = "mark"
    /\ \/ stale' = stale \cup Marked /\ UNCHANGED <<erred, failures>>
       \/ LogFailure(g) /\ UNCHANGED stale
    /\ Goto(g, "done")
    /\ UNCHANGED <<dbVars, cache, mapVars, inbox, buf, req, edited, since, before>>

Login ==
    /\ \E s \in Sessions \ active : active' = active \cup {s}
    /\ UNCHANGED <<exists, grants, userRoles, redisVars, mapVars, inbox, pc, buf, req, edited,
                   ghosts, failures>>

\* The cache entry's TTL runs out.  A marker outlives the access tokens of its
\* session.
CacheExpire ==
    /\ cache.found
    /\ cache' = NoCache
    /\ UNCHANGED <<dbVars, stale, mapVars, inbox, pc, buf, req, edited, ghosts, failures>>

-----------------------------------------------------------------------------
(* Hydration of a request's permission set *)

Hydrating == <<dbVars, mapVars, inbox, buf, edited, before>>

\* Routing takes the registry snapshot the request is checked against.  The
\* request is due the current roles when its session existed before an
\* assignment that has returned.
Route(q) ==
    /\ pc[q] = "start"
    /\ \E s \in active :
          req' = [req EXCEPT ![q] =
             [session |-> s, ix |-> reg, ids |-> {}, todo |-> {}, seen |-> {},
              due |-> \E g \in Granters \ erred : pc[g] = "done" /\ s \in before[g]]]
    /\ since' = [since EXCEPT ![q] = {userRoles}]
    /\ Goto(q, "stale")
    /\ UNCHANGED <<Hydrating, redisVars, erred, failures>>

\* A marked session bypasses the cache; an unreadable marker is no marker.
IsRolesStale(q) ==
    /\ pc[q] = "stale"
    /\ \/ /\ Goto(q, IF req[q].session \in stale THEN "db" ELSE "get")
          /\ UNCHANGED <<erred, failures>>
       \/ LogFailure(q) /\ Goto(q, "get")
    /\ UNCHANGED <<Hydrating, redisVars, req, since>>

CacheGet(q) ==
    /\ pc[q] = "get"
    /\ IF cache.found
       THEN /\ req' = [req EXCEPT ![q].ids = cache.ids, ![q].todo = cache.ids]
            /\ Goto(q, "lookup")
       ELSE UNCHANGED req /\ Goto(q, "db")
    /\ UNCHANGED <<Hydrating, redisVars, erred, since, failures>>

RoleIDsForUser(q) ==
    /\ pc[q] = "db"
    /\ req' = [req EXCEPT ![q].ids = userRoles, ![q].todo = userRoles]
    /\ Goto(q, "set")
    /\ UNCHANGED <<Hydrating, redisVars, erred, since, failures>>

\* Best effort: a failure leaves the next request to read Postgres.
CacheSet(q) ==
    /\ pc[q] = "set"
    /\ \/ cache' = [found |-> TRUE, ids |-> req[q].ids] /\ UNCHANGED failures
       \/ MayFail /\ UNCHANGED cache
    /\ Goto(q, "lookup")
    /\ UNCHANGED <<Hydrating, stale, req, erred, since>>

\* Each role is looked up in the map of that moment.
Lookup(q) ==
    /\ pc[q] = "lookup"
    /\ \E r \in req[q].todo :
          req' = [req EXCEPT ![q].todo = @ \ {r},
                             ![q].seen = IF map[r].known THEN @ \cup {map[r]} ELSE @]
    /\ UNCHANGED <<Hydrating, redisVars, pc, erred, since, failures>>

Authorize(q) ==
    /\ pc[q] = "lookup" /\ req[q].todo = {}
    /\ Goto(q, "done")
    /\ UNCHANGED <<Hydrating, redisVars, req, erred, since, failures>>

-----------------------------------------------------------------------------

Rebuild(p) == LockMap(p) \/ ReadRoles(p) \/ ReadPermissions(p) \/ StoreMap(p)
Edit(e) == ServeCreate(e) \/ ServeUpdate(e) \/ ServeDelete(e) \/ RefreshHolders(e)
Publication(p) == LockRegistry(p) \/ Publish(p) \/ UnlockRegistry(p)
Assignment(g) == Grant(g) \/ Invalidate(g) \/ MarkRolesStale(g)
Hydrate(q) ==
    \/ Route(q) \/ IsRolesStale(q) \/ CacheGet(q) \/ RoleIDsForUser(q)
    \/ CacheSet(q) \/ Lookup(q) \/ Authorize(q)

\* Every handler has returned.
AllServed == (\A p \in Procs \ {Listener} : pc[p] \in {"idle", "done"}) /\ UNCHANGED vars

Next ==
    \/ \E p \in Builders : Rebuild(p) \/ SkipTenant(p) \/ RebuildFails(p)
    \/ Listen \/ Hear \/ LoseConnection
    \/ \E e \in Editors : Edit(e)
    \/ \E p \in Publishers : Publication(p)
    \/ \E g \in Granters : Assignment(g)
    \/ \E q \in Requests : Hydrate(q)
    \/ \E y \in Syncs : GrantModuleDefaults(y)
    \/ Login \/ CacheExpire \/ AllServed

Spec == Init /\ [][Next]_vars

\* A goroutine that can go on does: the listener, and a handler once begun.
FairSpec ==
    /\ Spec
    /\ WF_vars(Listen \/ Hear)
    /\ \A p \in Builders : WF_vars(Rebuild(p))
    /\ \A p \in Publishers : WF_vars(UnlockRegistry(p))

-----------------------------------------------------------------------------
(* Properties *)

Entries == [ix : Registries, names : SUBSET Perms, known : {TRUE}] \cup {NoEntry}

\* Types; a bitfield only sets bits its registry has given out.
TypeOK ==
    /\ \A r \in Roles : map[r].names \subseteq DOMAIN map[r].ix
    /\ exists \subseteq Roles /\ grants \in [Roles -> SUBSET Perms]
    /\ userRoles \subseteq Roles /\ active \subseteq Sessions /\ stale \subseteq Sessions
    /\ reg \in Registries
    /\ regMu \in Publishers \cup {Nobody} /\ mapMu \in Builders \cup {Nobody}
    /\ map \in [Roles -> Entries]
    /\ inbox \in Seq(Tenants) /\ Len(inbox) <= Cardinality(Editors)
    /\ cache \in [found : BOOLEAN, ids : SUBSET Roles]
    /\ behind \subseteq Tenants /\ erred \subseteq Procs
    /\ failures \in 0..MaxFailures

\* Outside a publication every bitfield of the map was built with the indexes
\* the registry gives out now: no rebuild of a tenant or resync puts older
\* ones back (the map's lock, and reading the registry under it).
MapFollowsRegistry ==
    regMu = Nobody =>
       \A r \in Roles : map[r].known /\ TenantOf[r] \notin behind => map[r].ix = reg

\* Once the listener has handled what it heard, the map holds every committed
\* role change, whatever was announced while it was reconnecting, and
\* whichever rebuilds overlapped (LISTEN before the resync, rebuilds
\* serialized).
MapSettles ==
    regMu = Nobody /\ pc[Listener] = "wait" /\ inbox = <<>> =>
       \A t \in Tenants \ behind : MapCurrent(t)

\* A session that existed before a role was assigned or revoked is served
\* with the user's current roles from the moment that call has returned, even
\* if another request has put the old ones back into the cache meanwhile.
AssignmentReachesSessions ==
    \A q \in Requests \ erred :
       pc[q] = "done" /\ req[q].due => req[q].ids \in since[q]

\* Every role change reaches the map, unless a failure was only logged.
ChangesReachMap == \A t \in Tenants : []<>(MapCurrent(t) \/ t \in behind)

\* An existing bitfield keeps its meaning: a request is permitted what some
\* role it holds is granted, and nothing else.
BitfieldsKeepMeaning ==
    \A q \in Requests : pc[q] = "done" =>
       \A n \in DOMAIN req[q].ix :
          (req[q].ix[n] \in UNION {Bits(e) : e \in req[q].seen})
             <=> (\E e \in req[q].seen : n \in e.names)
=============================================================================
