---------------------------- MODULE ModuleInstall ----------------------------
(***************************************************************************)
(* Installing a module package at run time (internal/engine/moduleinstall) *)
(* and finding it again at the next start (internal/engine/moduleboot).    *)
(*                                                                         *)
(* POST /admin/modules/install persists the package in the module          *)
(* directory under a name made of the module's name and version and        *)
(* enqueues a River job; the job loads the package, syncs the tenants and  *)
(* publishes the module into the registry.  A failed attempt removes the   *)
(* package, unless a module of that name was already loaded, and River     *)
(* tries the job again.  A crash loses the registry; at boot the module    *)
(* directory is all there is.                                              *)
(* The packages here all declare one module name.  A version is a number,  *)
(* in the order in which its file is listed.                               *)
(***************************************************************************)
EXTENDS Integers, FiniteSets, FiniteSetsExt

CONSTANTS Installs,     \* install requests, each with its job
          Ver,          \* the version each package declares
          MaxAttempts,  \* River's attempts per job
          MaxFailures,  \* bound on failing steps
          MaxCrashes    \* bound on engine crashes

ASSUME VerAssumption == Ver \in [Installs -> Nat \ {0}]
ASSUME BoundAssumption == {MaxAttempts, MaxFailures, MaxCrashes} \subseteq Nat

Versions == {Ver[j] : j \in Installs}

VARIABLES
    up,        \* the engine is running
    files,     \* versions whose package is in the module directory
    live,      \* the registry's entry: version, pool, and whether it loaded
    reserved,  \* the registry's reservation of the name
    open,      \* instance pools that have not been drained
    pc,        \* where each install is
    pool,      \* the pool its running attempt loaded, 0 if none
    replaced,  \* pools of failed boot entries that a publication replaced
    attempts, failures, crashes

vars == <<up, files, live, reserved, open, pc, pool, replaced, attempts, failures, crashes>>

None == [ver |-> 0, pool |-> 0, ok |-> FALSE]

Init ==
    /\ up = TRUE
    /\ files = {}
    /\ live = None
    /\ reserved = FALSE
    /\ open = {}
    /\ pc = [j \in Installs |-> "idle"]
    /\ pool = [j \in Installs |-> 0]
    /\ replaced = {}
    /\ attempts = [j \in Installs |-> 0]
    /\ failures = 0
    /\ crashes = 0

Goto(j, s) == pc' = [pc EXCEPT ![j] = s]
MayFail == failures < MaxFailures /\ failures' = failures + 1
NewPool == Max(open \cup {live.pool} \cup {pool[j] : j \in Installs}) + 1

-----------------------------------------------------------------------------
(* Installer.StartInstall *)

\* writeFileAtomic renames the complete package into place.
PersistPackage(j) ==
    /\ up /\ pc[j] = "idle"
    /\ files' = files \cup {Ver[j]}
    /\ Goto(j, "persisted")
    /\ UNCHANGED <<up, live, reserved, open, pool, replaced, attempts, failures, crashes>>

\* The job is inserted, or the request fails and the package stays behind.
EnqueueJob(j) ==
    /\ up /\ pc[j] = "persisted"
    /\ \/ Goto(j, "queued") /\ UNCHANGED failures
       \/ MayFail /\ Goto(j, "refused")
    /\ UNCHANGED <<up, files, live, reserved, open, pool, replaced, attempts, crashes>>

-----------------------------------------------------------------------------
(* Worker.run *)

\* Mutant: one attempt too many.
Retry_OneMore(j) == Goto(j, IF attempts[j] <= MaxAttempts THEN "queued" ELSE "discarded")

\* River retries a failed attempt until there are none left.
Retry(j) == Goto(j, IF attempts[j] < MaxAttempts THEN "queued" ELSE "discarded")

\* The attempt returns an error other than errAlreadyLoaded.
GiveUp(j) == Goto(j, "cleanup")

\* The deferred DrainAndClose of a candidate that was not published.
DiscardPool(j) == open' = open \ {pool[j]} /\ pool' = [pool EXCEPT ![j] = 0]

\* Mutant: a failing attempt keeps the reservation.
ReleaseOnError_Kept == UNCHANGED reserved

\* The deferred releaseOnce.
ReleaseOnError == reserved' = FALSE

\* The attempt starts and reads the package, which may be gone.
ReadPackage(j) ==
    /\ up /\ pc[j] = "queued"
    /\ attempts' = [attempts EXCEPT ![j] = @ + 1]
    /\ IF Ver[j] \in files THEN Goto(j, "check") ELSE GiveUp(j)
    /\ UNCHANGED <<up, files, live, reserved, open, pool, replaced, failures, crashes>>

\* reserve, first half: a module of that name is already loaded.
CheckLoaded(j) ==
    /\ up /\ pc[j] = "check"
    /\ IF live.ok THEN Retry(j) ELSE Goto(j, "claim")
    /\ UNCHANGED <<up, files, live, reserved, open, pool, replaced, attempts, failures, crashes>>

\* reserve, second half: the name is claimed, or another run has it.
Reserve(j) ==
    /\ up /\ pc[j] = "claim"
    /\ IF reserved
       THEN GiveUp(j) /\ UNCHANGED reserved
       ELSE Goto(j, "load") /\ reserved' = TRUE
    /\ UNCHANGED <<up, files, live, open, pool, replaced, attempts, failures, crashes>>

\* LoadModule, which closes its pool when it fails, and the publication of the
\* frontend files, which never fails the install.
LoadModule(j) ==
    /\ up /\ pc[j] = "load"
    /\ \/ /\ pool' = [pool EXCEPT ![j] = NewPool]
          /\ open' = open \cup {NewPool}
          /\ Goto(j, "sync")
          /\ UNCHANGED <<reserved, failures>>
       \/ /\ MayFail /\ GiveUp(j) /\ ReleaseOnError
          /\ UNCHANGED <<pool, open>>
    /\ UNCHANGED <<up, files, live, replaced, attempts, crashes>>

\* Validation, templates and tenant sync; then the reservation is released.
SyncModule(j) ==
    /\ up /\ pc[j] = "sync"
    /\ \/ /\ Goto(j, "publish") /\ reserved' = FALSE
          /\ UNCHANGED <<open, pool, failures>>
       \/ MayFail /\ GiveUp(j) /\ DiscardPool(j) /\ ReleaseOnError
    /\ UNCHANGED <<up, files, live, replaced, attempts, crashes>>

\* Mutant: the name is not looked at again under the registry lock.
NameTaken_Unchecked == FALSE

\* publish's recheck under the registry lock.
NameTaken == live.ok

\* Mutant: the pool is kept only when publish returned no error.
KeepsPool_OnSuccess(committed, failed) == committed /\ ~failed

\* published = committed
KeepsPool(committed, failed) == committed

\* The module replaces nothing or a failed entry, whose pool nobody drains; a
\* failing permission rebuild is an error after the module is live.
Publish(j) ==
    /\ up /\ pc[j] = "publish"
    /\ \/ /\ NameTaken
          /\ Retry(j) /\ DiscardPool(j)
          /\ UNCHANGED <<live, replaced, failures>>
       \/ /\ ~NameTaken
          /\ MayFail /\ GiveUp(j) /\ DiscardPool(j)
          /\ UNCHANGED <<live, replaced>>
       \/ /\ ~NameTaken
          /\ live' = [ver |-> Ver[j], pool |-> pool[j], ok |-> TRUE]
          /\ replaced' = replaced \cup ({live.pool} \ {0})
          /\ pool' = [pool EXCEPT ![j] = 0]
          /\ \E rebuildFails \in BOOLEAN :
                /\ open' = IF KeepsPool(TRUE, rebuildFails) THEN open ELSE open \ {pool[j]}
                /\ IF rebuildFails
                   THEN MayFail /\ GiveUp(j)
                   ELSE Goto(j, "published") /\ UNCHANGED failures
    /\ UNCHANGED <<up, files, reserved, attempts, crashes>>

\* The first deferred function runs last: the package is removed, the
\* reservation being released by then, and River decides about a retry.
RemovePackage(j) ==
    /\ up /\ pc[j] = "cleanup"
    /\ files' = files \ {Ver[j]}
    /\ Retry(j)
    /\ UNCHANGED <<up, live, reserved, open, pool, replaced, attempts, failures, crashes>>

\* Notifications, migrations and worker spawn report no error; River records
\* the job as completed.
Complete(j) ==
    /\ up /\ pc[j] = "published"
    /\ Goto(j, "completed")
    /\ UNCHANGED <<up, files, live, reserved, open, pool, replaced, attempts, failures, crashes>>

-----------------------------------------------------------------------------
(* Crash and boot *)

Running == {"check", "claim", "load", "sync", "publish", "cleanup", "published"}

\* Memory is lost; River later rescues the jobs that were running.
Crash ==
    /\ up /\ crashes < MaxCrashes
    /\ up' = FALSE
    /\ crashes' = crashes + 1
    /\ live' = None
    /\ reserved' = FALSE
    /\ open' = {}
    /\ pool' = [j \in Installs |-> 0]
    /\ replaced' = {}
    /\ pc' = [j \in Installs |->
                CASE pc[j] = "persisted" -> "refused"
                  [] pc[j] \in Running -> IF attempts[j] < MaxAttempts THEN "queued" ELSE "discarded"
                  [] OTHER -> pc[j]]
    /\ UNCHANGED <<files, attempts, failures>>

\* The pool of an entry that failed: none when LoadModule failed or was not
\* called, an open one when routes, permissions, templates or the module set
\* were refused after it, because Fail only sets the status.
BootPools == {0, 1}

\* Discover lists the directory, Order keeps the last source of a name, and
\* LoadCascading loads it or marks it failed.
Boot ==
    /\ ~up
    /\ up' = TRUE
    /\ \/ /\ files = {} /\ UNCHANGED <<live, open, failures>>
       \/ /\ files # {}
          /\ live' = [ver |-> Max(files), pool |-> 1, ok |-> TRUE]
          /\ open' = {1}
          /\ UNCHANGED failures
       \/ /\ files # {} /\ MayFail
          /\ \E q \in BootPools :
                /\ live' = [ver |-> Max(files), pool |-> q, ok |-> FALSE]
                /\ open' = {q} \ {0}
    /\ UNCHANGED <<files, reserved, pc, pool, replaced, attempts, crashes>>

JobStep(j) ==
    \/ ReadPackage(j) \/ CheckLoaded(j) \/ Reserve(j) \/ LoadModule(j)
    \/ SyncModule(j) \/ Publish(j) \/ RemovePackage(j) \/ Complete(j)

Settled == {"completed", "discarded", "refused"}

\* Every install is settled.
AllSettled == (\A j \in Installs : pc[j] \in Settled) /\ UNCHANGED vars

Next ==
    \/ \E j \in Installs : PersistPackage(j) \/ EnqueueJob(j) \/ JobStep(j)
    \/ Crash \/ Boot
    \/ AllSettled

Spec == Init /\ [][Next]_vars

-----------------------------------------------------------------------------
(* Properties *)

\* Types; a job never exceeds its attempts.
TypeOK ==
    /\ up \in BOOLEAN /\ reserved \in BOOLEAN
    /\ files \subseteq Versions
    /\ live \in [ver : Versions \cup {0}, pool : Nat, ok : BOOLEAN]
    /\ open \subseteq Nat
    /\ pc \in [Installs -> {"idle", "persisted", "queued"} \cup Running \cup Settled]
    /\ pool \in [Installs -> Nat]
    /\ replaced \subseteq Nat
    /\ attempts \in [Installs -> 0..MaxAttempts]
    /\ failures \in 0..MaxFailures /\ crashes \in 0..MaxCrashes

\* Racing installs never replace a module that is live: the name is rechecked
\* under the registry lock, the reservation being released before.
LiveModuleKept == [][live.ok /\ up' => live' = live]_vars

\* Every open pool is the registry entry's, a failed entry's included, or that
\* of an attempt that has loaded and not yet published, and these are open: none
\* leaks on an error path, and an attempt whose permission rebuild failed does
\* not close the pool it made live.  The one exception is the code's: the pool
\* a failed boot entry was left with stays open when an install replaces it.
PoolsAccounted ==
    open = ({live.pool} \ {0}) \cup replaced
              \cup {pool[j] : j \in {i \in Installs : pc[i] \in {"sync", "publish"}}}

\* The name is reserved exactly while one attempt loads and syncs, so no
\* error path leaves it reserved for ever.
ReservationHeld ==
    LET holders == {j \in Installs : pc[j] \in {"load", "sync"}}
    IN  Cardinality(holders) <= 1 /\ (reserved <=> holders # {})

(* What the comments say *)

\* "installed modules survive engine restarts": the package of the live module
\* is in the module directory.  "the loser's package file is not anyone's
\* backing file and run's cleanup must still remove it".
LiveModuleSurvives == live.ok => live.ver \in files
=============================================================================
