------------------------------ MODULE HotReload ------------------------------
(***************************************************************************)
(* Hot reload of one module across the engine instances of a cluster       *)
(* (internal/engine/hotreload, internal/engine/modulereload and the        *)
(* reservation and publication of internal/engine/registry).               *)
(*                                                                         *)
(* A trigger (a changed file, an upload) runs Coordinator.onChanged on one *)
(* instance: the winner of the Redis lock of its (module, version) pair    *)
(* leads, the others wait.  The leader publishes into its own registry and *)
(* announces the version; each instance's subscriber goroutine handles the *)
(* announcements it receives, one after the other, and follows.  A run     *)
(* holds the instance's reservation of the module name from its first step *)
(* until just before it publishes.                                         *)
(* Versions are numbers; the instances boot on version 1.                  *)
(***************************************************************************)
EXTENDS Integers, Sequences, FiniteSets, FiniteSetsExt

CONSTANTS Instances,
          Triggers,      \* goroutines that run onChanged, once each
          Home, Want,    \* the instance and the version of each trigger
          Uploads,       \* the sets of triggers that happen in one behaviour
          DevMode,       \* TRUE: a dev tenant is set, nothing is announced
          MaxFailures,   \* bound on failing steps and lost announcements
          MaxExpiries,   \* bound on lock expiries
          MaxOthers,     \* bound on publications of another module
          Nobody

ASSUME TriggerAssumption ==
    /\ Home \in [Triggers -> Instances]
    /\ Want \in [Triggers -> Nat \ {0}]
    /\ Uploads \subseteq SUBSET Triggers
    /\ Nobody \notin Instances /\ Triggers \cap Instances = {}
ASSUME BoundAssumption ==
    DevMode \in BOOLEAN /\ MaxFailures \in Nat /\ MaxExpiries \in Nat /\ MaxOthers \in Nat

\* The subscriber goroutine of instance i is process i.
Procs == Triggers \cup Instances
Versions == {1} \cup {Want[t] : t \in Triggers}
Inst(p) == IF p \in Triggers THEN Home[p] ELSE p

VARIABLES
    reg,        \* reg[i]: version, pool and pointer of the published module
    reserved,   \* instances whose registry holds a reservation of the name
    lock,       \* lock[v]: the instance holding the Redis lock of version v
    stored,     \* versions whose binary is in object storage
    inbox,      \* inbox[i]: announcements not yet handled
    open,       \* open[i]: instance pools that have not been drained
    published,  \* published[i]: pools that were published once
    translations, \* version whose frontend strings are live in object storage
    transMu,    \* instances whose Leader.translationsMu is held
    pc, ver,    \* where each process is, and the version it works on
    mine, old,  \* the pool it loaded, and the one it read as oldMod
    failures, expiries, others

vars == <<reg, reserved, lock, stored, inbox, open, published, translations,
          transMu, pc, ver, mine, old, failures, expiries, others>>

Init ==
    /\ reg = [i \in Instances |-> [ver |-> 1, pool |-> 1, ptr |-> 1]]
    /\ reserved = {}
    /\ lock = [v \in Versions |-> Nobody]
    /\ stored = {}
    /\ inbox = [i \in Instances |-> <<>>]
    /\ open = [i \in Instances |-> {1}]
    /\ published = [i \in Instances |-> {1}]
    /\ translations = 1
    /\ transMu = {}
    /\ \E u \in Uploads :
          /\ pc = [p \in Procs |-> IF p \in u THEN "check"
                                  ELSE IF p \in Triggers THEN "done" ELSE "idle"]
          /\ ver = [p \in Procs |-> IF p \in u THEN Want[p] ELSE 0]
    /\ mine = [p \in Procs |-> 0]
    /\ old = [p \in Procs |-> 0]
    /\ failures = 0
    /\ expiries = 0
    /\ others = 0

MayFail == failures < MaxFailures /\ failures' = failures + 1
Goto(p, s) == pc' = [pc EXCEPT ![p] = s]
CurrentVersionAtLeast(i, v) == reg[i].ver >= v

\* A leader goes on to release the lock, a subscriber to the next message.
Over(p) == IF p \in Triggers THEN "unlock" ELSE "idle"

-----------------------------------------------------------------------------
(* Coordinator *)

\* onChanged: nothing to do when the version is already running.
OnChanged(t) ==
    /\ pc[t] = "check"
    /\ Goto(t, IF CurrentVersionAtLeast(Home[t], ver[t]) THEN "done" ELSE "lock")
    /\ UNCHANGED <<reg, reserved, lock, stored, inbox, open, published, translations,
                   transMu, ver, mine, old, failures, expiries, others>>

\* SET NX EX under the instance's id: the winner leads, a loser waits.
AcquireLock(t) ==
    /\ pc[t] = "lock"
    /\ \/ /\ lock[ver[t]] = Nobody
          /\ lock' = [lock EXCEPT ![ver[t]] = Home[t]]
          /\ Goto(t, "reserve")
          /\ UNCHANGED failures
       \/ lock[ver[t]] # Nobody /\ Goto(t, "waiting") /\ UNCHANGED <<lock, failures>>
       \/ MayFail /\ Goto(t, "done") /\ UNCHANGED lock
    /\ UNCHANGED <<reg, reserved, stored, inbox, open, published, translations,
                   transMu, ver, mine, old, expiries, others>>

\* waitForReloadAnnouncement returns when the version is running or at its
\* deadline, whichever comes first; time is not modelled.
WaitForReloadAnnouncement(t) ==
    /\ pc[t] = "waiting"
    /\ Goto(t, "done")
    /\ UNCHANGED <<reg, reserved, lock, stored, inbox, open, published, translations,
                   transMu, ver, mine, old, failures, expiries, others>>

\* Mutant: an unconditional DELETE.
ReleaseLock_Delete(t) ==
    /\ pc[t] = "unlock" /\ t \in Triggers
    /\ lock' = [lock EXCEPT ![ver[t]] = Nobody]
    /\ Goto(t, "done")
    /\ UNCHANGED <<reg, reserved, stored, inbox, open, published, translations,
                   transMu, ver, mine, old, failures, expiries, others>>

\* DeleteIfEqual on the instance's id.
ReleaseLock(t) ==
    /\ pc[t] = "unlock" /\ t \in Triggers
    /\ lock' = [lock EXCEPT ![ver[t]] = IF @ = Home[t] THEN Nobody ELSE @]
    /\ Goto(t, "done")
    /\ UNCHANGED <<reg, reserved, stored, inbox, open, published, translations,
                   transMu, ver, mine, old, failures, expiries, others>>

\* The lock outlives its TTL while a leader is still running.
LockExpires(v) ==
    /\ lock[v] # Nobody
    /\ expiries < MaxExpiries
    /\ lock' = [lock EXCEPT ![v] = Nobody]
    /\ expiries' = expiries + 1
    /\ UNCHANGED <<reg, reserved, stored, inbox, open, published, translations,
                   transMu, pc, ver, mine, old, failures, others>>

\* OnReloadAnnouncement: an echo or an older version is dropped, and any
\* other announcement runs the follower.
OnReloadAnnouncement(i) ==
    /\ pc[i] = "idle"
    /\ inbox[i] # <<>>
    /\ ver' = [ver EXCEPT ![i] = Head(inbox[i])]
    /\ inbox' = [inbox EXCEPT ![i] = Tail(@)]
    /\ Goto(i, IF CurrentVersionAtLeast(i, Head(inbox[i])) THEN "idle" ELSE "reserve")
    /\ UNCHANGED <<reg, reserved, lock, stored, open, published, translations,
                   transMu, mine, old, failures, expiries, others>>

-----------------------------------------------------------------------------
(* Leader.Run and Follower.Run *)

\* reserveModule fails at once when another run holds the name.
ReserveModule(p) ==
    /\ pc[p] = "reserve"
    /\ IF Inst(p) \in reserved
       THEN Goto(p, Over(p)) /\ UNCHANGED reserved
       ELSE Goto(p, "load") /\ reserved' = reserved \cup {Inst(p)}
    /\ UNCHANGED <<reg, lock, stored, inbox, open, published, translations,
                   transMu, ver, mine, old, failures, expiries, others>>

NewPool(i) == Max(open[i] \cup published[i] \cup {mine[p] : p \in Procs}) + 1

\* A follower downloads the binary, then LoadModule compiles it and opens a
\* pool, which its own deferred cleanup closes again when it fails.
LoadModule(p) ==
    /\ pc[p] = "load"
    /\ \/ /\ p \in Triggers \/ ver[p] \in stored
          /\ mine' = [mine EXCEPT ![p] = NewPool(Inst(p))]
          /\ open' = [open EXCEPT ![Inst(p)] = @ \cup {NewPool(Inst(p))}]
          /\ Goto(p, "validate")
          /\ UNCHANGED <<reserved, failures>>
       \/ /\ MayFail
          /\ reserved' = reserved \ {Inst(p)}
          /\ Goto(p, Over(p))
          /\ UNCHANGED <<mine, open>>
    /\ UNCHANGED <<reg, lock, stored, inbox, published, translations,
                   transMu, ver, old, expiries, others>>

\* The deferred cleanup of a module that was not published.
Discard(p) == open' = [open EXCEPT ![Inst(p)] = @ \ {mine[p]}]

\* Mutant: the cleanup is deferred only once the candidate is validated.
ValidateAndUpload_LateDefer(p) ==
    /\ pc[p] = "validate"
    /\ \/ /\ stored' = IF p \in Triggers THEN stored \cup {ver[p]} ELSE stored
          /\ old' = [old EXCEPT ![p] = reg[Inst(p)].pool]
          /\ Goto(p, "release")
          /\ UNCHANGED <<reserved, failures>>
       \/ /\ MayFail
          /\ reserved' = reserved \ {Inst(p)}
          /\ Goto(p, Over(p))
          /\ UNCHANGED <<stored, old>>
    /\ UNCHANGED <<reg, lock, inbox, open, published, translations,
                   transMu, ver, mine, expiries, others>>

\* The candidate is validated (a follower compares its version too) and the
\* leader uploads its files; then oldMod is read from the registry.  On a
\* failure the candidate is discarded; a binary that was uploaded stays.
ValidateAndUpload(p) ==
    /\ pc[p] = "validate"
    /\ \/ /\ stored' = IF p \in Triggers THEN stored \cup {ver[p]} ELSE stored
          /\ old' = [old EXCEPT ![p] = reg[Inst(p)].pool]
          /\ Goto(p, "release")
          /\ UNCHANGED <<reserved, open, failures>>
       \/ /\ MayFail
          /\ stored' \in {stored} \cup {stored \cup {ver[t]} : t \in Triggers \cap {p}}
          /\ Discard(p)
          /\ reserved' = reserved \ {Inst(p)}
          /\ Goto(p, Over(p))
          /\ UNCHANGED old
    /\ UNCHANGED <<reg, lock, inbox, published, translations,
                   transMu, ver, mine, expiries, others>>

\* Downgrade check and schema sync, then the reservation is given up.
ReleaseReservation(p) ==
    /\ pc[p] = "release"
    /\ reserved' = reserved \ {Inst(p)}
    /\ \/ Goto(p, "publish") /\ UNCHANGED <<open, failures>>
       \/ MayFail /\ p \in Triggers /\ Discard(p) /\ Goto(p, Over(p))
    /\ UNCHANGED <<reg, lock, stored, inbox, published, translations,
                   transMu, ver, mine, old, expiries, others>>

\* Mutant: the entry keeps no version.
NewEntry_NoVersion(p) == [ver |-> 0, pool |-> mine[p], ptr |-> mine[p]]

NewEntry(p) == [ver |-> ver[p], pool |-> mine[p], ptr |-> mine[p]]

\* publishModule under the registry lock, or a rejected candidate.
PublishModule(p) ==
    /\ pc[p] = "publish"
    /\ \/ /\ reg' = [reg EXCEPT ![Inst(p)] = NewEntry(p)]
          /\ published' = [published EXCEPT ![Inst(p)] = @ \cup {mine[p]}]
          /\ Goto(p, IF p \in Triggers THEN "translate" ELSE "drain")
          /\ UNCHANGED <<open, failures>>
       \/ MayFail /\ Discard(p) /\ Goto(p, Over(p)) /\ UNCHANGED <<reg, published>>
    /\ UNCHANGED <<reserved, lock, stored, inbox, translations,
                   transMu, ver, mine, old, expiries, others>>

\* The registry still holds this very module, compared by pointer.
TranslationsWanted(p) == reg[Inst(p)].ptr = mine[p]

\* activateTranslations: the check and the activation are under one mutex,
\* the registry is not.
CheckTranslations(p) ==
    /\ pc[p] = "translate"
    /\ Inst(p) \notin transMu
    /\ IF TranslationsWanted(p)
       THEN transMu' = transMu \cup {Inst(p)} /\ Goto(p, "activate")
       ELSE UNCHANGED transMu /\ Goto(p, "drain")
    /\ UNCHANGED <<reg, reserved, lock, stored, inbox, open, published, translations,
                   ver, mine, old, failures, expiries, others>>

ActivateTranslations(p) ==
    /\ pc[p] = "activate"
    /\ translations' = ver[p]
    /\ transMu' = transMu \ {Inst(p)}
    /\ Goto(p, "drain")
    /\ UNCHANGED <<reg, reserved, lock, stored, inbox, open, published,
                   ver, mine, old, failures, expiries, others>>

\* Mutant: the module to drain is looked up after publication.
DrainTarget_Late(p) == reg[Inst(p)].pool

DrainTarget(p) == old[p]

\* Mutant: the leader does not announce.
Announced_Never(p) == {}

\* Instances that receive the leader's announcement: pub/sub delivers at most
\* once, and the leader receives its own.
Announced(p) == IF p \in Triggers /\ ~DevMode THEN Instances ELSE {}

\* The replaced module is drained in the background, then the leader
\* announces.  A lost message is a subscriber that was not connected.
DrainAndAnnounce(p) ==
    /\ pc[p] = "drain"
    /\ open' = [open EXCEPT ![Inst(p)] = @ \ {DrainTarget(p)}]
    /\ \E to \in SUBSET Announced(p) :
          /\ inbox' = [i \in Instances |-> IF i \in to THEN Append(inbox[i], ver[p]) ELSE inbox[i]]
          /\ IF to = Announced(p) THEN UNCHANGED failures ELSE MayFail
    /\ Goto(p, Over(p))
    /\ UNCHANGED <<reg, reserved, lock, stored, published, translations,
                   transMu, ver, mine, old, expiries, others>>

\* A publication of another module: ValidateCandidate stores a copy of every
\* module but the candidate.
PublishOther(i) ==
    /\ others < MaxOthers
    /\ others' = others + 1
    /\ reg' = [reg EXCEPT ![i].ptr = 0]
    /\ UNCHANGED <<reserved, lock, stored, inbox, open, published, translations,
                   transMu, pc, ver, mine, old, failures, expiries>>

Step(p) ==
    \/ ReserveModule(p) \/ LoadModule(p) \/ ValidateAndUpload(p)
    \/ ReleaseReservation(p) \/ PublishModule(p) \/ CheckTranslations(p) \/ ActivateTranslations(p)
    \/ DrainAndAnnounce(p)

TriggerStep(t) ==
    OnChanged(t) \/ AcquireLock(t) \/ WaitForReloadAnnouncement(t) \/ ReleaseLock(t) \/ Step(t)
SubscriberStep(i) == OnReloadAnnouncement(i) \/ Step(i)

Quiet == /\ \A t \in Triggers : pc[t] = "done"
         /\ \A i \in Instances : pc[i] = "idle" /\ inbox[i] = <<>>

\* Every trigger has run and every announcement has been handled.
AllDone == Quiet /\ UNCHANGED vars

Next ==
    \/ \E t \in Triggers : TriggerStep(t)
    \/ \E i \in Instances : SubscriberStep(i) \/ PublishOther(i)
    \/ \E v \in Versions : LockExpires(v)
    \/ AllDone

Spec == Init /\ [][Next]_vars

\* While goroutines can take a step, one of them takes one.  The scheduler is
\* fair to each; this much is enough, because every run ends.
FairSpec ==
    Spec /\ WF_vars(\/ \E t \in Triggers : TriggerStep(t)
                    \/ \E i \in Instances : SubscriberStep(i))

-----------------------------------------------------------------------------
(* Properties *)

\* Types of the variables.
TypeOK ==
    /\ reg \in [Instances -> [ver : Versions, pool : Nat, ptr : Nat]]
    /\ reserved \subseteq Instances
    /\ lock \in [Versions -> Instances \cup {Nobody}]
    /\ stored \subseteq Versions
    /\ \A i \in Instances : inbox[i] \in Seq(Versions)
    /\ open \in [Instances -> SUBSET Nat]
    /\ published \in [Instances -> SUBSET Nat]
    /\ translations \in Versions
    /\ transMu \subseteq Instances
    /\ pc \in [Procs -> {"check", "lock", "waiting", "reserve", "load", "validate", "release",
                         "publish", "translate", "activate", "drain", "unlock", "done", "idle"}]
    /\ ver \in [Procs -> Versions \cup {0}]
    /\ mine \in [Procs -> Nat]
    /\ old \in [Procs -> Nat]
    /\ failures \in 0..MaxFailures
    /\ expiries \in 0..MaxExpiries
    /\ others \in 0..MaxOthers

InFlight(i) == {p \in Procs : Inst(p) = i /\ pc[p] \notin {"idle", "done", "check", "lock", "waiting", "unlock"}}

\* The pool of the published module is never drained, whichever runs overlap:
\* each run drains what it read as oldMod before it published.
CurrentPoolOpen == \A i \in Instances : reg[i].pool \in open[i]

\* A candidate that was not published is closed by the run that loaded it,
\* wherever after the compilation it gave up: validation, version check, upload,
\* downgrade check or publication (the deferred cleanup of Run).
UnpublishedCandidatesClosed ==
    \A i \in Instances : InFlight(i) = {} => open[i] \subseteq published[i]

\* Releasing a lock never removes the lock another instance has taken after
\* this one's expired (the reason onChanged uses DeleteIfEqual).
OthersLockSurvives ==
    [][\A v \in Versions : \A i \in Instances :
         lock[v] = i /\ lock'[v] = Nobody
            => expiries' # expiries \/ \E t \in Triggers : Home[t] = i /\ pc[t] = "unlock" /\ pc'[t] = "done"]_vars

Uploaded == {ver[t] : t \in Triggers} \ {0}
RunsUpload(i) == \A v \in Uploaded : reg[i].ver >= v

\* When one version is uploaded, to however many instances, and it runs on one
\* of them, it ends up running on every instance, unless a step failed or an
\* announcement was lost: a loser of the election, a subscriber and the
\* leader's own echo all converge on it.  With two versions this does not hold:
\* a follower is refused while the other version's run has the name reserved
\* (ReserveModule), and nothing repeats the announcement.
AnnouncementsConverge ==
    (Cardinality(Uploaded) = 1 /\ \E i \in Instances : RunsUpload(i))
       ~> (failures > 0 \/ \A i \in Instances : RunsUpload(i))

(* What the comments say *)

\* Once the runs of an instance are over, the frontend strings that are live
\* are the ones of the module in the registry: activateTranslations "makes
\* mod's frontend translation set live, unless a later reload of the same
\* module has already replaced mod in the registry".
TranslationsMatchRegistry ==
    \A i \in Instances : InFlight(i) = {} => translations = reg[i].ver

\* CurrentVersionAtLeast "stops a stale or reordered announcement from
\* regressing an instance that's already moved past it".
NoRegression == [][\A i \in Instances : reg'[i].ver >= reg[i].ver]_vars
=============================================================================
