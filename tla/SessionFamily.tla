---------------------------- MODULE SessionFamily ----------------------------
(***************************************************************************)
(* Refresh-token sessions in system.sessions: rotation, replay, bulk       *)
(* revocation and the Redis blocklist (internal/engine/auth/session,       *)
(* auth/sessionrevoke, auth/authtoken).                                    *)
(*                                                                         *)
(* A login inserts the first row of a family; each refresh marks the row   *)
(* it was given rotated and inserts a successor.  Requests run             *)
(* concurrently at READ COMMITTED, which is what the module keeps of       *)
(* Postgres: a statement sees the rows committed when it started, then     *)
(* locks them one by one, waits for a lock another transaction holds, and  *)
(* re-evaluates its WHERE clause on the newest committed version of the    *)
(* row it waited for.  A row inserted meanwhile is not seen.               *)
(* Each request performs one operation.  Variables hold committed data; a  *)
(* transaction's own writes are in hit and ids until it commits.           *)
(***************************************************************************)
EXTENDS Integers, FiniteSets, FiniteSetsExt

CONSTANTS Requests,    \* concurrent HTTP requests
          Kinds,       \* Kinds[p]: the operations request p may perform
          Devices,     \* device_id values
          NoDevice,    \* a request that presents no device_id
          NoOne,       \* nobody: an unlocked row, an unrevoked row
          Restrictions, \* password_change_required values a login may set
          MaxRows,     \* bound on the rows of system.sessions
          MaxFamilies  \* bound on logins

Rows == 1..MaxRows

RevokingKinds == {"revoke", "family", "others", "all", "allTx"}
SettledKinds == {"family", "others", "allTx"}
AllKinds == RevokingKinds \cup {"rotate", "clear"}

ASSUME KindsAssumption == Kinds \in [Requests -> SUBSET AllKinds]
ASSUME NobodyAssumption == NoOne \notin Requests /\ NoDevice \notin Devices
ASSUME BoundAssumption ==
    MaxRows \in Nat /\ MaxFamilies \in Nat /\ Restrictions \subseteq BOOLEAN

VARIABLES
    fam,         \* family_id of each committed row, 0 while there is none
    dev,         \* device_id
    rotated,     \* rows with rotated_at set
    revokedBy,   \* the request that set revoked_at, or NoOne
    restricted,  \* rows with password_change_required
    blocked,     \* session ids on the Redis blocklist
    lock,        \* the transaction holding each row's lock
    pc,          \* where each request is
    op,          \* its operation and arguments
    snap,        \* rows the current statement (or blocklist loop) has yet to visit
    hit,         \* rows the current statement has matched and locked
    ids,         \* session ids the operation has collected
    res          \* what the operation returned

vars == <<fam, dev, rotated, revokedBy, restricted, blocked, lock, pc, op, snap, hit, ids, res>>
table == <<fam, dev, rotated, revokedBy, restricted>>

Committed == {r \in Rows : fam[r] # 0}
Revoked == {r \in Rows : revokedBy[r] # NoOne}
Family(f) == {r \in Committed : fam[r] = f}
Live(r) == r \in Committed \ (rotated \cup Revoked)

\* The bound on rows leaves room for the rotations in flight and one more.
Room == Cardinality(Rows \ Committed) > Cardinality({p \in Requests : pc[p] = "rotating"})
Fresh == CHOOSE r \in Rows \ Committed : \A q \in Rows \ Committed : r <= q

Init ==
    /\ fam = [r \in Rows |-> 0]
    /\ dev = [r \in Rows |-> NoDevice]
    /\ rotated = {}
    /\ revokedBy = [r \in Rows |-> NoOne]
    /\ restricted = {}
    /\ blocked = {}
    /\ lock = [r \in Rows |-> NoOne]
    /\ pc = [p \in Requests |-> "idle"]
    /\ op = [p \in Requests |-> [kind |-> "none", row |-> 0, dev |-> NoDevice]]
    /\ snap = [p \in Requests |-> {}]
    /\ hit = [p \in Requests |-> {}]
    /\ ids = [p \in Requests |-> {}]
    /\ res = [p \in Requests |-> "none"]

Goto(p, s) == pc' = [pc EXCEPT ![p] = s]
Return(p, r) == Goto(p, "done") /\ res' = [res EXCEPT ![p] = r]

\* The row locks once p's transaction has committed or rolled back.
Unlocked(p) == [r \in Rows |-> IF lock[r] = p THEN NoOne ELSE lock[r]]

FamilyOf(p) == fam[op[p].row]

-----------------------------------------------------------------------------
(* Login *)

\* Insert: the first row of a fresh family has id = family_id.
Insert ==
    /\ Cardinality({fam[r] : r \in Committed}) < MaxFamilies
    /\ Room
    /\ \E d \in Devices, pcr \in Restrictions :
          /\ fam' = [fam EXCEPT ![Fresh] = Fresh]
          /\ dev' = [dev EXCEPT ![Fresh] = d]
          /\ restricted' = IF pcr THEN restricted \cup {Fresh} ELSE restricted
    /\ UNCHANGED <<rotated, revokedBy, blocked, lock, pc, op, snap, hit, ids, res>>

-----------------------------------------------------------------------------
(* Rotate *)

\* Mutant: the row is read without FOR UPDATE.
LookupLockFree_NoWait(r) == TRUE

\* FOR UPDATE waits until no other transaction holds the row.
LookupLockFree(r) == lock[r] = NoOne

\* Mutant: revoked_at is not looked at.
AlreadyRevoked_Ignored(r) == FALSE

AlreadyRevoked(r) == r \in Revoked

Operation(p, kind, r, d) == op' = [op EXCEPT ![p] = [kind |-> kind, row |-> r, dev |-> d]]

\* The presented token's row is locked and read.  A revoked or expired row
\* (or a family past its absolute maximum) ends the transaction at once: time
\* is not modelled, so any live row may turn out to have expired.
RotateLookup(p) ==
    /\ pc[p] = "idle" /\ "rotate" \in Kinds[p]
    /\ \/ /\ Return(p, "NotFound") /\ Operation(p, "rotate", 0, NoDevice)
          /\ UNCHANGED lock
       \/ \E r \in Committed :
             /\ LookupLockFree(r)
             /\ \/ /\ AlreadyRevoked(r) /\ Return(p, "FamilyRevoked")
                   /\ Operation(p, "rotate", r, NoDevice)
                   /\ UNCHANGED lock
                \/ /\ ~AlreadyRevoked(r) /\ r \notin rotated /\ Return(p, "Expired")
                   /\ Operation(p, "rotate", r, NoDevice)
                   /\ UNCHANGED lock
                \/ /\ ~AlreadyRevoked(r) /\ (r \in rotated \/ Room)
                   /\ \E d \in Devices \cup {NoDevice} : Operation(p, "rotate", r, d)
                   /\ Goto(p, IF r \in rotated THEN "select" ELSE "rotating")
                   /\ lock' = [lock EXCEPT ![r] = p]
                   /\ UNCHANGED res
    /\ UNCHANGED <<table, blocked, snap, hit, ids>>

\* Mutant: a request without a device leaves the successor without one.
NewDevice_RequestOnly(p) == op[p].dev

\* cmp.Or(requestDeviceID, deviceID)
NewDevice(p) == IF op[p].dev = NoDevice THEN dev[op[p].row] ELSE op[p].dev

\* The old row is marked rotated and the successor inserted, in one commit.
\* The successor inherits the family, the restriction and, when the request
\* presented none, the device.
RotateCommit(p) ==
    /\ pc[p] = "rotating"
    /\ LET old == op[p].row
           new == Fresh
       IN  /\ rotated' = rotated \cup {old}
           /\ fam' = [fam EXCEPT ![new] = fam[old]]
           /\ dev' = [dev EXCEPT ![new] = NewDevice(p)]
           /\ restricted' = IF old \in restricted THEN restricted \cup {new} ELSE restricted
    /\ lock' = Unlocked(p)
    /\ Return(p, "OK")
    /\ UNCHANGED <<revokedBy, blocked, op, snap, hit, ids>>

-----------------------------------------------------------------------------
(* The other operations' first steps *)

Start(p, kind, r) ==
    /\ pc[p] = "idle" /\ kind \in Kinds[p]
    /\ Operation(p, kind, r, NoDevice)
    /\ UNCHANGED <<table, blocked, lock, snap, hit>>

\* Logout revokes the row its access token names.
RevokeBegin(p) ==
    \E r \in Rows :
       Start(p, "revoke", r) /\ Goto(p, "update") /\ UNCHANGED <<ids, res>>

\* One family, or every family but the caller's own.
RevokeFamilyBegin(p) ==
    \E r \in Committed, k \in {"family", "others"} :
       Start(p, k, r) /\ Goto(p, "update") /\ UNCHANGED <<ids, res>>

RevokeAllForUserTxBegin(p) ==
    Start(p, "allTx", 0) /\ Goto(p, "update") /\ UNCHANGED <<ids, res>>

\* NonRevokedIDsForUser reads the ids before the UPDATE is issued.
RevokeAllForUserBegin(p) ==
    /\ Start(p, "all", 0)
    /\ ids' = [ids EXCEPT ![p] = Committed \ Revoked]
    /\ Goto(p, "update")
    /\ UNCHANGED res

\* Mutant: the family is updated without being locked first.
ClearEntry_Unlocked == "update"

\* The locking SELECT comes before the UPDATE.
ClearEntry == "select"

\* ClearPasswordChangeRequired looks its own row up first.
ClearBegin(p) ==
    \E r \in Rows :
       /\ Start(p, "clear", r)
       /\ IF r \in Committed \ Revoked
          THEN Goto(p, ClearEntry) /\ UNCHANGED res
          ELSE Return(p, "NotFound")
       /\ UNCHANGED ids

-----------------------------------------------------------------------------
(* Statements *)

\* WHERE clauses of the locking SELECTs.
CurrentHolder(p, q) == op[p].kind = "rotate" /\ q \in Family(FamilyOf(p)) /\ Live(q)
ClearLocks(p, q) == op[p].kind = "clear" /\ q \in Family(FamilyOf(p)) \ Revoked
Selects(p, q) == CurrentHolder(p, q) \/ ClearLocks(p, q)

\* WHERE clauses of the UPDATEs.  A transaction sees its own earlier passes.
ReplayRevokes(p, q) == op[p].kind = "rotate" /\ q \in Family(FamilyOf(p))
RevokeOne(p, q) == op[p].kind = "revoke" /\ q \in Committed /\ q = op[p].row
RevokeFamily(p, q) == op[p].kind = "family" /\ q \in Family(FamilyOf(p)) \ Revoked
RevokeOthers(p, q) ==
    op[p].kind = "others" /\ q \in Committed \ Revoked /\ fam[q] # FamilyOf(p)
RevokeAll(p, q) == op[p].kind = "all" /\ q \in Committed \ Revoked
RevokeAllTx(p, q) == op[p].kind = "allTx" /\ q \in (Committed \ Revoked) \ ids[p]
ClearUpdates(p, q) == op[p].kind = "clear" /\ q \in Family(FamilyOf(p)) \ Revoked
Updates(p, q) ==
    \/ ReplayRevokes(p, q) \/ RevokeOne(p, q) \/ RevokeFamily(p, q)
    \/ RevokeOthers(p, q) \/ RevokeAll(p, q) \/ RevokeAllTx(p, q)
    \/ ClearUpdates(p, q)

Matches(p, q) == IF pc[p] \in {"select", "selecting"} THEN Selects(p, q) ELSE Updates(p, q)

\* The statement starts: its snapshot is what is committed now.
StatementSnapshot(p) ==
    /\ pc[p] \in {"select", "update"}
    /\ snap' = [snap EXCEPT ![p] = {q \in Rows : Matches(p, q)}]
    /\ hit' = [hit EXCEPT ![p] = {}]
    /\ Goto(p, IF pc[p] = "select" THEN "selecting" ELSE "updating")
    /\ UNCHANGED <<table, blocked, lock, op, ids, res>>

\* A row is locked once nobody else holds it, and kept if its newest version
\* still satisfies the WHERE clause.
LockRow(p, q) ==
    /\ lock[q] \in {NoOne, p}
    /\ snap' = [snap EXCEPT ![p] = @ \ {q}]
    /\ IF Matches(p, q)
       THEN /\ lock' = [lock EXCEPT ![q] = p]
            /\ hit' = [hit EXCEPT ![p] = @ \cup {q}]
       ELSE UNCHANGED <<lock, hit>>

\* Mutant: rotateReplay reads the current holder without FOR UPDATE.
StatementRow_HolderUnlocked(p) ==
    /\ pc[p] \in {"selecting", "updating"}
    /\ \E q \in snap[p] :
          IF pc[p] = "selecting" /\ op[p].kind = "rotate"
          THEN /\ snap' = [snap EXCEPT ![p] = @ \ {q}]
               /\ hit' = [hit EXCEPT ![p] = @ \cup {q}]
               /\ UNCHANGED lock
          ELSE LockRow(p, q)
    /\ UNCHANGED <<table, blocked, pc, op, ids, res>>

\* Both SELECTs say FOR UPDATE and an UPDATE locks what it changes, so every
\* statement locks the rows of its snapshot, in no fixed order.
StatementRow(p) ==
    /\ pc[p] \in {"selecting", "updating"}
    /\ \E q \in snap[p] : LockRow(p, q)
    /\ UNCHANGED <<table, blocked, pc, op, ids, res>>

StatementOver(p, s) == pc[p] = s /\ snap[p] = {}

\* Mutant: the request is compared with the device of the token it presents.
HolderDevice_Presented(p) == {dev[op[p].row]}

\* currentDeviceID, the device of the row the SELECT locked.
HolderDevice(p) == {dev[q] : q \in hit[p]}

\* rotateReplay: no holder, the holder's own device, or another device.
RotateReplay(p) ==
    /\ StatementOver(p, "selecting") /\ op[p].kind = "rotate"
    /\ IF hit[p] = {} THEN Return(p, "FamilyRevoked") /\ lock' = Unlocked(p)
       ELSE IF op[p].dev \in HolderDevice(p)
            THEN Return(p, "ReplaySameDevice") /\ lock' = Unlocked(p)
            ELSE Goto(p, "update") /\ UNCHANGED <<lock, res>>
    /\ UNCHANGED <<table, blocked, op, snap, hit, ids>>

\* ids remembers the rows the SELECT locked.
ClearLocked(p) ==
    /\ StatementOver(p, "selecting") /\ op[p].kind = "clear"
    /\ ids' = [ids EXCEPT ![p] = hit[p]]
    /\ Goto(p, "update")
    /\ UNCHANGED <<table, blocked, lock, op, snap, hit, res>>

ClearCommit(p) ==
    /\ StatementOver(p, "updating") /\ op[p].kind = "clear"
    /\ restricted' = restricted \ hit[p]
    /\ lock' = Unlocked(p)
    /\ Return(p, "OK")
    /\ UNCHANGED <<fam, dev, rotated, revokedBy, blocked, op, snap, hit, ids>>

MarkRevoked(p, rows) ==
    /\ revokedBy' = [r \in Rows |-> IF r \in rows THEN p ELSE revokedBy[r]]
    /\ UNCHANGED <<fam, dev, rotated, restricted>>

\* The replayed token's family is revoked in the rotation's own transaction.
ReplayCommit(p) ==
    /\ StatementOver(p, "updating") /\ op[p].kind = "rotate"
    /\ MarkRevoked(p, hit[p])
    /\ lock' = Unlocked(p)
    /\ Return(p, "ReplayDifferentDevice")
    /\ UNCHANGED <<blocked, op, snap, hit, ids>>

\* Logout and RevokeAllForUser commit after their single UPDATE.
RevokeOnceCommit(p) ==
    /\ StatementOver(p, "updating") /\ op[p].kind \in {"revoke", "all"}
    /\ MarkRevoked(p, hit[p])
    /\ lock' = Unlocked(p)
    /\ IF op[p].kind = "revoke" /\ hit[p] = {}
       THEN Return(p, "NotFound") /\ UNCHANGED <<ids, snap>>
       ELSE /\ ids' = [ids EXCEPT ![p] = IF op[p].kind = "revoke" THEN hit[p] ELSE @]
            /\ snap' = [snap EXCEPT ![p] = ids'[p]]
            /\ Goto(p, "blocklist")
            /\ UNCHANGED res
    /\ UNCHANGED <<blocked, op, hit>>

MarkPass(p, all) ==
    IF op[p].kind # "allTx"
    THEN MarkRevoked(p, hit[p]) /\ lock' = Unlocked(p)
    ELSE IF hit[p] = {}
         THEN MarkRevoked(p, all) /\ lock' = Unlocked(p)
         ELSE UNCHANGED <<table, lock>>

PassOver(p, all, settled) ==
    /\ StatementOver(p, "updating") /\ op[p].kind \in SettledKinds
    /\ MarkPass(p, all)
    /\ ids' = [ids EXCEPT ![p] = all]
    /\ snap' = [snap EXCEPT ![p] = IF settled THEN all ELSE {}]
    /\ Goto(p, IF settled THEN "blocklist" ELSE "update")
    /\ UNCHANGED <<blocked, op, hit, res>>

\* Mutant: one pass is taken to be enough.
RevokeSettlePass_Once(p) == PassOver(p, ids[p] \cup hit[p], TRUE)

\* Mutant: the ids of the last pass alone are returned.
RevokeSettlePass_LastIds(p) == PassOver(p, hit[p], hit[p] = {})

\* revokeUntilSettled repeats its UPDATE until a pass matches no row.  On the
\* database handle every pass commits; inside a caller's transaction the
\* locks and the writes are held until the caller commits.
RevokeSettlePass(p) == PassOver(p, ids[p] \cup hit[p], hit[p] = {})

\* The revoked ids are put on the Redis blocklist one at a time.
Blocklist(p) ==
    /\ pc[p] = "blocklist"
    /\ IF snap[p] = {}
       THEN Return(p, "OK") /\ UNCHANGED <<blocked, snap>>
       ELSE /\ \E i \in snap[p] :
                  /\ blocked' = blocked \cup {i}
                  /\ snap' = [snap EXCEPT ![p] = @ \ {i}]
            /\ UNCHANGED <<pc, res>>
    /\ UNCHANGED <<table, lock, op, hit, ids>>

\* A failing statement or Redis call: the open transaction rolls back and the
\* operation returns the error.  Passes already committed stay.
Fail(p) ==
    /\ pc[p] \notin {"idle", "done"}
    /\ lock' = Unlocked(p)
    /\ Return(p, "error")
    /\ snap' = [snap EXCEPT ![p] = {}]
    /\ hit' = [hit EXCEPT ![p] = {}]
    /\ UNCHANGED <<table, blocked, op, ids>>

Step(p) ==
    \/ RotateLookup(p) \/ RotateCommit(p)
    \/ RevokeBegin(p) \/ RevokeFamilyBegin(p)
    \/ RevokeAllForUserTxBegin(p) \/ RevokeAllForUserBegin(p) \/ ClearBegin(p)
    \/ StatementSnapshot(p) \/ StatementRow(p)
    \/ RotateReplay(p) \/ ClearLocked(p) \/ ClearCommit(p) \/ ReplayCommit(p)
    \/ RevokeOnceCommit(p) \/ RevokeSettlePass(p) \/ Blocklist(p)

\* Every request has been answered.
AllAnswered == (\A p \in Requests : pc[p] = "done") /\ UNCHANGED vars

Next ==
    \/ Insert
    \/ \E p \in Requests : Step(p) \/ Fail(p)
    \/ AllAnswered

Spec == Init /\ [][Next]_vars

-----------------------------------------------------------------------------
(* Properties *)

\* Types; a committed row always names a device (device_id is NOT NULL).
TypeOK ==
    /\ \A r \in Committed : dev[r] \in Devices
    /\ fam \in [Rows -> 0..MaxRows]
    /\ dev \in [Rows -> Devices \cup {NoDevice}]
    /\ rotated \in SUBSET Rows
    /\ revokedBy \in [Rows -> Requests \cup {NoOne}]
    /\ restricted \in SUBSET Rows
    /\ blocked \in SUBSET Rows
    /\ lock \in [Rows -> Requests \cup {NoOne}]
    /\ pc \in [Requests -> {"idle", "rotating", "select", "selecting", "update",
                            "updating", "blocklist", "done"}]
    /\ op \in [Requests -> [kind : AllKinds \cup {"none"}, row : 0..MaxRows,
                            dev : Devices \cup {NoDevice}]]
    /\ snap \in [Requests -> SUBSET Rows]
    /\ hit \in [Requests -> SUBSET Rows]
    /\ ids \in [Requests -> SUBSET Rows]
    /\ res \in [Requests -> {"none", "OK", "NotFound", "FamilyRevoked", "Expired",
                             "ReplaySameDevice", "ReplayDifferentDevice", "error"}]

Done(p, k, r) == pc[p] = "done" /\ op[p].kind = k /\ res[p] = r

\* A family is a chain: exactly one of its rows has not been rotated, however
\* many refreshes present the same token at once (Rotate's FOR UPDATE).
OneSuccessor ==
    \A f \in {fam[r] : r \in Committed} :
       Cardinality(Family(f) \ rotated) = 1

\* A revocation that repeats its UPDATE until it settles leaves no row of the
\* families it touched unrevoked, and none appears later: a concurrent refresh
\* cannot keep a session alive (revokeUntilSettled).
SettledRevocationEndsFamily ==
    \A p \in Requests :
       /\ \A k \in SettledKinds : Done(p, k, "OK") =>
             \A i \in ids[p] : Family(fam[i]) \subseteq Revoked
       /\ Done(p, "family", "OK") => Family(FamilyOf(p)) \subseteq Revoked

\* Once such a revocation has returned, every session id it revoked is on the
\* blocklist, the ones of later passes and of earlier passes included.
RevokedAreBlocklisted ==
    \A p \in Requests : \A k \in SettledKinds \cup {"revoke"} :
       Done(p, k, "OK") => {r \in Rows : revokedBy[r] = p} \subseteq blocked

\* RotateReplayDifferentDevice is only ever returned with the whole family
\* revoked: the holder's row is locked before the revoking UPDATE takes its
\* snapshot, so no successor of it can be inserted behind the snapshot.
ReplayRevokesFamily ==
    \A p \in Requests :
       Done(p, "rotate", "ReplayDifferentDevice") => Family(FamilyOf(p)) \subseteq Revoked

\* A replay is judged by who holds the family at the moment it is answered:
\* it is spared only when the live row has the device it presents, and revokes
\* only when it has another, even if the holder rotated, on whatever device,
\* while the replay waited (rotateReplay).
ReplayJudgedByHolder ==
    [][\A p \in Requests : pc[p] # "done" =>
         LET holders == {dev[q] : q \in {r \in Family(FamilyOf(p)) : Live(r)}}
         IN  /\ res'[p] = "ReplaySameDevice" => holders = {op[p].dev}
             /\ res'[p] = "ReplayDifferentDevice"
                   => holders # {} /\ op[p].dev \notin holders]_vars

\* Revocation is final: no step clears revoked_at or rotates a revoked row.
RevocationIsFinal ==
    [][\A r \in Revoked : r \in Revoked' /\ (r \in rotated' => r \in rotated)]_vars

\* ClearPasswordChangeRequired lifts the restriction from every live row that
\* its SELECT locked and from the successor a rotation in flight inserted for
\* one of them: a row that keeps it has another row between.
ClearLiftsLockedRows ==
    \A p \in Requests : Done(p, "clear", "OK") =>
       \A r \in (Family(FamilyOf(p)) \ Revoked) \cap restricted :
          \E s \in Family(FamilyOf(p)) : Max(ids[p] \cup {op[p].row}) < s /\ s < r
=============================================================================
