------------------------------ MODULE WebhookStore ------------------------------
(***************************************************************************)
(* The Postgres side of API keys and webhook subscriptions: each operation *)
(* as the statements its transaction runs, interleaved with those of the   *)
(* other HTTP handlers, of the revoke-key command (another process) and of *)
(* the single-statement writers (delivery outcomes, purge).                *)
(*                                                                         *)
(* PostgreSQL is external.  What the code relies on is modelled: READ      *)
(* COMMITTED visibility (keys and subs are the committed tables, what a    *)
(* transaction has written stays in its own record until COMMIT), the      *)
(* advisory lock per owner, the FOR UPDATE lock on the row of a key        *)
(* against the KEY SHARE lock of a foreign-key check, the row locks of a   *)
(* DELETE, and ON DELETE CASCADE.                                          *)
(***************************************************************************)
EXTENDS Naturals, FiniteSets

CONSTANTS
    Keys, Ids, None, MaxPerOwner, MaxFailures, PurgeDays,
    Requests,   \* concurrent HTTP requests on /v1/webhooks
    Revokers    \* concurrent revoke-key commands

VARIABLES
    keys, subs,  \* the committed tables
    req,         \* req[r]: where request r is, its owner key and its new id
    rev          \* rev[v]: where command v is, its key and the rows it deleted

vars == <<keys, subs, req, rev>>

Registry == INSTANCE SubscriptionRegistry
    WITH Keys <- Keys, Ids <- Ids, None <- None, MaxPerOwner <- MaxPerOwner, MaxFailures <- MaxFailures,
         PurgeDays <- PurgeDays, keys <- keys, subs <- subs

ASSUME StoreAssumption ==
    /\ IsFiniteSet(Ids)
    /\ MaxPerOwner \in Nat \ {0}
    /\ MaxFailures \in Nat \ {0}
    /\ PurgeDays \in Nat \ {0}
    /\ None \notin Keys
    /\ None \notin Ids
    /\ None \notin Registry!Row

Tx(pc, k, i) == [pc |-> pc, key |-> k, id |-> i]
Idle == Tx("idle", None, None)

Revoking(pc, k, rows, more) == [pc |-> pc, key |-> k, removed |-> rows, cascaded |-> more]
NotRevoking == Revoking("idle", None, {}, {})

-----------------------------------------------------------------------------
(* Locks, read off the transactions that hold them. *)

(* pg_advisory_xact_lock on the owner: from the lock statement to the end   *)
HoldsAdvisory(r, k) == req[r].key = k /\ req[r].pc \in {"locked", "counted", "inserted"}

(* KEY SHARE on the key's row, taken by the foreign-key check of the INSERT *)
HoldsKeyShare(r, k) == req[r].key = k /\ req[r].pc = "inserted"

(* FOR UPDATE on the key's row: from revoke_key's first statement to its end *)
HoldsForUpdate(v, k) == rev[v].key = k /\ rev[v].pc # "idle"

(* Rows deleted by a revocation that has not committed yet. *)
RowLocked(i) == \E v \in Revokers : i \in rev[v].removed \cup rev[v].cascaded

(* Keys and identifiers that somebody still refers to. *)
KeyInUse(k) == (\E r \in Requests : req[r].key = k) \/ (\E v \in Revokers : rev[v].key = k)
IdInUse(i) == Registry!Live(i) \/ \E r \in Requests : req[r].id = i

-----------------------------------------------------------------------------
Init ==
    /\ Registry!Init
    /\ req = [r \in Requests |-> Idle]
    /\ rev = [v \in Revokers |-> NotRevoking]

(* mint-key: one INSERT, with a key nobody has seen before. *)
InsertKey(k) ==
    /\ ~KeyInUse(k)
    /\ Registry!InsertKey(k)
    /\ UNCHANGED <<req, rev>>

(* authenticate_owner, the first statement of both handlers: the key is     *)
(* read in the register.  An unknown key is answered 401, without effect.   *)
Authenticate(r, k, next) ==
    /\ req[r].pc = "idle"
    /\ k \in keys
    /\ req' = [req EXCEPT ![r] = Tx(next, k, None)]
    /\ UNCHANGED <<keys, subs, rev>>

(* A request ends without effect: a rejected parameter (400), a lost        *)
(* connection, a statement that fails, a crash of the server.  Dropping the *)
(* transaction rolls it back and releases its locks.                        *)
Abort(r) ==
    /\ req[r].pc # "idle"
    /\ req' = [req EXCEPT ![r] = Idle]
    /\ UNCHANGED <<keys, subs, rev>>

-----------------------------------------------------------------------------
(* create: BEGIN; advisory lock; count; INSERT; COMMIT. *)

LockOwnerNone(r) ==
    /\ req[r].pc = "create"
    /\ req' = [req EXCEPT ![r] = Tx("locked", req[r].key, None)]
    /\ UNCHANGED <<keys, subs, rev>>

LockOwner(r) ==
    /\ req[r].pc = "create"
    /\ ~\E q \in Requests : HoldsAdvisory(q, req[r].key)
    /\ req' = [req EXCEPT ![r] = Tx("locked", req[r].key, None)]
    /\ UNCHANGED <<keys, subs, rev>>

(* count >= max_per_owner: ROLLBACK and "quota reached" (400). *)
CountOwned(r) ==
    /\ req[r].pc = "locked"
    /\ req' = [req EXCEPT ![r] =
                 IF Cardinality(Registry!SubsOf(req[r].key)) >= MaxPerOwner
                 THEN Idle
                 ELSE Tx("counted", req[r].key, None)]
    /\ UNCHANGED <<keys, subs, rev>>

InsertRowNoForeignKey(r) ==
    /\ req[r].pc = "counted"
    /\ \E i \in Ids : /\ ~IdInUse(i)
                      /\ req' = [req EXCEPT ![r] = Tx("inserted", req[r].key, i)]
    /\ UNCHANGED <<keys, subs, rev>>

(* The foreign-key check waits for a revocation that holds the key, then    *)
(* fails when the key is gone.                                              *)
InsertRow(r) ==
    LET k == req[r].key
    IN  /\ req[r].pc = "counted"
        /\ ~\E v \in Revokers : HoldsForUpdate(v, k)
        /\ \/ /\ k \notin keys
              /\ req' = [req EXCEPT ![r] = Idle]
           \/ /\ k \in keys
              /\ \E i \in Ids :
                    /\ ~IdInUse(i)
                    /\ req' = [req EXCEPT ![r] = Tx("inserted", k, i)]
        /\ UNCHANGED <<keys, subs, rev>>

CommitCreate(r) ==
    /\ req[r].pc = "inserted"
    /\ subs' = [subs EXCEPT ![req[r].id] = Registry!NewRow(req[r].key)]
    /\ req' = [req EXCEPT ![r] = Idle]
    /\ UNCHANGED <<keys, rev>>

(* delete: one statement, filtered on the identifier and the owner; waits   *)
(* for a revocation that has deleted the row.  No such row: 404.            *)
DeleteRowAnyOwner(r, i) ==
    /\ req[r].pc = "delete"
    /\ ~RowLocked(i)
    /\ subs' = [subs EXCEPT ![i] = None]
    /\ req' = [req EXCEPT ![r] = Idle]
    /\ UNCHANGED <<keys, rev>>

DeleteRow(r, i) ==
    /\ req[r].pc = "delete"
    /\ i \in Registry!SubsOf(req[r].key) => ~RowLocked(i)
    /\ subs' = IF i \in Registry!SubsOf(req[r].key) THEN [subs EXCEPT ![i] = None] ELSE subs
    /\ req' = [req EXCEPT ![r] = Idle]
    /\ UNCHANGED <<keys, rev>>

-----------------------------------------------------------------------------
(* revoke_key: BEGIN; SELECT ... FOR UPDATE; DELETE of the subscriptions;   *)
(* DELETE of the key, which cascades; COMMIT.  An unknown key: None.        *)

RevokeLockNone(v, k) ==
    /\ rev[v].pc = "idle"
    /\ k \in keys
    /\ ~\E w \in Revokers : HoldsForUpdate(w, k)
    /\ rev' = [rev EXCEPT ![v] = Revoking("keyLocked", k, {}, {})]
    /\ UNCHANGED <<keys, subs, req>>

RevokeLock(v, k) ==
    /\ rev[v].pc = "idle"
    /\ k \in keys
    /\ ~\E r \in Requests : HoldsKeyShare(r, k)
    /\ ~\E w \in Revokers : HoldsForUpdate(w, k)
    /\ rev' = [rev EXCEPT ![v] = Revoking("keyLocked", k, {}, {})]
    /\ UNCHANGED <<keys, subs, req>>

(* As if the command also took the owner's advisory lock, after the row's. *)
RevokeDeleteSubsUnderAdvisory(v) ==
    /\ rev[v].pc = "keyLocked"
    /\ ~\E r \in Requests : HoldsAdvisory(r, rev[v].key)
    /\ rev' = [rev EXCEPT ![v] =
                 Revoking("subsDeleted", rev[v].key, Registry!SubsOf(rev[v].key), {})]
    /\ UNCHANGED <<keys, subs, req>>

RevokeDeleteSubs(v) ==
    /\ rev[v].pc = "keyLocked"
    /\ rev' = [rev EXCEPT ![v] =
                 Revoking("subsDeleted", rev[v].key, Registry!SubsOf(rev[v].key), {})]
    /\ UNCHANGED <<keys, subs, req>>

RevokeDeleteKey(v) ==
    /\ rev[v].pc = "subsDeleted"
    /\ rev' = [rev EXCEPT ![v] =
                 Revoking("keyDeleted", rev[v].key, rev[v].removed,
                          Registry!SubsOf(rev[v].key) \ rev[v].removed)]
    /\ UNCHANGED <<keys, subs, req>>

RevokeCommit(v) ==
    /\ rev[v].pc = "keyDeleted"
    /\ keys' = keys \ {rev[v].key}
    /\ subs' = [i \in Ids |-> IF i \in rev[v].removed \cup rev[v].cascaded
                              THEN None ELSE subs[i]]
    /\ rev' = [rev EXCEPT ![v] = NotRevoking]
    /\ UNCHANGED req

(* The command fails or is interrupted: ROLLBACK. *)
RevokeAbort(v) ==
    /\ rev[v].pc # "idle"
    /\ rev' = [rev EXCEPT ![v] = NotRevoking]
    /\ UNCHANGED <<keys, subs, req>>

-----------------------------------------------------------------------------
(* Single statements of the background tasks.  Each waits for the rows that *)
(* a revocation has deleted and not committed.                              *)

(* record_delivery, for the outcome of any delivery ever started *)
RecordDelivery(i, delivered) ==
    /\ Registry!Active(i) => ~RowLocked(i)
    /\ Registry!RecordDelivery(i, delivered)
    /\ UNCHANGED <<req, rev>>

(* purge_disabled, at start-up and every six hours *)
PurgeDisabled ==
    /\ \A i \in Ids : Registry!Live(i) /\ Registry!Purgeable(subs[i]) => ~RowLocked(i)
    /\ Registry!PurgeDisabled
    /\ UNCHANGED <<req, rev>>

Day == Registry!Day /\ UNCHANGED <<req, rev>>

-----------------------------------------------------------------------------
CreateStep(r) == LockOwner(r) \/ CountOwned(r) \/ InsertRow(r) \/ CommitCreate(r)
RevokeStep(v) == RevokeDeleteSubs(v) \/ RevokeDeleteKey(v) \/ RevokeCommit(v)

Next ==
    \/ \E k \in Keys : InsertKey(k)
    \/ \E r \in Requests :
          \/ \E k \in Keys, op \in {"create", "delete"} : Authenticate(r, k, op)
          \/ CreateStep(r)
          \/ \E i \in Ids : DeleteRow(r, i)
          \/ Abort(r)
    \/ \E v \in Revokers :
          \/ \E k \in Keys : RevokeLock(v, k)
          \/ RevokeStep(v)
          \/ RevokeAbort(v)
    \/ \E i \in Ids, delivered \in BOOLEAN : RecordDelivery(i, delivered)
    \/ PurgeDisabled
    \/ Day

Spec == Init /\ [][Next]_vars

(* Every statement eventually runs: the pool and the server make progress,  *)
(* and PostgreSQL grants a contended lock in arrival order, so a statement  *)
(* that can get its lock again and again does get it (strong fairness for   *)
(* the two statements that wait).                                           *)
Fairness ==
    /\ \A r \in Requests :
          /\ SF_vars(LockOwner(r))
          /\ WF_vars(CountOwned(r))
          /\ SF_vars(InsertRow(r))
          /\ WF_vars(CommitCreate(r))
          /\ SF_vars(\E i \in Ids : DeleteRow(r, i))
    /\ \A v \in Revokers : WF_vars(RevokeStep(v))

FairSpec == Spec /\ Fairness

-----------------------------------------------------------------------------
RequestState ==
    [pc  : {"idle", "create", "locked", "counted", "inserted", "delete"},
     key : Keys \cup {None},
     id  : Ids \cup {None}]

RevokerState ==
    [pc       : {"idle", "keyLocked", "subsDeleted", "keyDeleted"},
     key      : Keys \cup {None},
     removed  : SUBSET Ids,
     cascaded : SUBSET Ids]

(* Shape of the tables and of the open transactions. *)
TypeOK ==
    /\ Registry!TypeOK
    /\ req \in [Requests -> RequestState]
    /\ rev \in [Revokers -> RevokerState]

(* Migration 0013: no subscription outlives the key that owns it, whatever  *)
(* the order in which creations and revocations run their statements.       *)
NoOrphan == \A i \in Ids : Registry!Live(i) => subs[i].owner \in keys

(* create counts and inserts under the owner's lock: concurrent creations   *)
(* of one key never exceed the quota (audit F22).                           *)
QuotaRespected == \A k \in Keys : Cardinality(Registry!SubsOf(k)) <= MaxPerOwner

(* An active subscription is strictly below the threshold, a disabled one   *)
(* reached it exactly, and only a disabled one grows older.                 *)
CounterConsistent ==
    \A i \in Ids : Registry!Live(i) =>
        /\ subs[i].status = "disabled" <=> subs[i].failures = MaxFailures
        /\ subs[i].age > 0 => subs[i].status = "disabled"

(* The number revoke-key reports (rows of its own DELETE) is exactly the    *)
(* number of subscriptions that disappear with the key: the cascade finds   *)
(* nothing left, because the key's row was locked first.                    *)
RevocationCountExact ==
    \A v \in Revokers : rev[v].pc \in {"subsDeleted", "keyDeleted"} =>
        rev[v].removed = Registry!SubsOf(rev[v].key) /\ rev[v].cascaded = {}

(* A disabled subscription is never active again, and keeps its counter: a  *)
(* late success of a delivery in flight does not revive it.                 *)
DisabledIsFinal ==
    [][\A i \in Ids : (Registry!Live(i) /\ subs[i].status = "disabled") =>
          \/ subs'[i] = None
          \/ /\ subs'[i].status = "disabled"
             /\ subs'[i].failures = subs[i].failures
             /\ subs'[i].owner = subs[i].owner]_vars

(* A row disappears only by its owner's request, with its key, or after     *)
(* having been disabled for more than PurgeDays.                            *)
OnlyJustifiedRemoval ==
    [][\A i \in Ids : (Registry!Live(i) /\ subs'[i] = None) =>
          \/ subs[i].status = "disabled" /\ subs[i].age > PurgeDays
          \/ subs[i].owner \notin keys'
          \/ \E r \in Requests : /\ req[r].pc = "delete" /\ req[r].key = subs[i].owner
                                 /\ req'[r].pc = "idle"]_vars

(* The inductive invariant behind these properties.  The locks exclude each *)
(* other, a lock on a key's row keeps the key in the register, ...          *)
LocksExclude ==
    /\ \A r, q \in Requests, k \in Keys : HoldsAdvisory(r, k) /\ HoldsAdvisory(q, k) => r = q
    /\ \A v, w \in Revokers, k \in Keys : HoldsForUpdate(v, k) /\ HoldsForUpdate(w, k) => v = w
    /\ \A r \in Requests, v \in Revokers, k \in Keys :
          ~(HoldsKeyShare(r, k) /\ HoldsForUpdate(v, k))

LockedKeysExist ==
    /\ \A r \in Requests, k \in Keys : HoldsKeyShare(r, k) => k \in keys
    /\ \A v \in Revokers, k \in Keys : HoldsForUpdate(v, k) => k \in keys

(* ... a row not yet committed has an identifier of its own, ...            *)
InsertedRows ==
    \A r \in Requests :
        /\ req[r].pc # "idle" => req[r].key \in Keys
        /\ req[r].pc = "inserted" =>
              /\ req[r].id \in Ids
              /\ subs[req[r].id] = None
              /\ \A q \in Requests \ {r} : req[q].pc = "inserted" => req[q].id # req[r].id
        /\ req[r].pc # "inserted" => req[r].id = None

(* ... a revocation has deleted what its progress says, ...                 *)
RevocationProgress ==
    \A v \in Revokers :
        /\ rev[v].pc # "idle" => rev[v].key \in Keys
        /\ rev[v].pc \in {"idle", "keyLocked"} => rev[v].removed = {} /\ rev[v].cascaded = {}

(* ... and a counted owner has room for one more until the row is in.       *)
RoomAfterCount ==
    \A r \in Requests, k \in Keys :
        (req[r].key = k /\ req[r].pc \in {"counted", "inserted"}) =>
            Cardinality(Registry!SubsOf(k)) < MaxPerOwner

IInv ==
    /\ TypeOK
    /\ LocksExclude
    /\ LockedKeysExist
    /\ InsertedRows
    /\ RevocationProgress
    /\ RevocationCountExact
    /\ NoOrphan
    /\ CounterConsistent
    /\ RoomAfterCount
    /\ QuotaRespected

(* The transactions implement the one-step operations of the registry. *)
ImplementsRegistry == Registry!Spec

(* Creations, deletions and revocations never wait for each other forever. *)
TransactionsEnd ==
    /\ \A r \in Requests : req[r].pc # "idle" ~> req[r].pc = "idle"
    /\ \A v \in Revokers : rev[v].pc # "idle" ~> rev[v].pc = "idle"
=============================================================================
