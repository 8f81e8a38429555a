--------------------------- MODULE WebhookStoreProofs ---------------------------
(***************************************************************************)
(* Proofs about WebhookStore, for any number of keys, requests and         *)
(* revocations and any quota.                                              *)
(***************************************************************************)
EXTENDS WebhookStore, FiniteSetTheorems, TLAPS

-----------------------------------------------------------------------------
(* What the row operators return: a row of the same owner, whose counter    *)
(* and flag agree.                                                          *)

Consistent(row) ==
    /\ row.status = "disabled" <=> row.failures = MaxFailures
    /\ row.age > 0 => row.status = "disabled"

LEMMA RowOperators ==
    ASSUME NEW row \in Registry!Row, Consistent(row), NEW delivered \in BOOLEAN
    PROVE  /\ Registry!Recorded(row, delivered) \in Registry!Row
           /\ Registry!Recorded(row, delivered).owner = row.owner
           /\ Consistent(Registry!Recorded(row, delivered))
           /\ Registry!Aged(row) \in Registry!Row
           /\ Registry!Aged(row).owner = row.owner
           /\ Consistent(Registry!Aged(row))
<1> USE StoreAssumption DEF Consistent, Registry!Row, Registry!Ages
<1>1. CASE row.status = "disabled"
  BY <1>1 DEF Registry!Recorded, Registry!Aged
<1>2. CASE row.status = "active"
  <2>1. Registry!Aged(row) = row
    BY <1>2 DEF Registry!Aged
  <2>2. row.failures + 1 \in 1 .. MaxFailures
    BY <1>2
  <2> DEFINE n == IF delivered THEN 0 ELSE row.failures + 1
  <2>3. n \in 0 .. MaxFailures
    BY <2>2
  <2>4. Registry!Recorded(row, delivered)
          = [row EXCEPT !.failures = n, !.status = Registry!StatusAt(n)]
    BY <1>2 DEF Registry!Recorded
  <2>5. Registry!StatusAt(n) = IF n = MaxFailures THEN "disabled" ELSE "active"
    BY <2>3 DEF Registry!StatusAt
  <2> HIDE DEF n
  <2>6. QED
    BY <1>2, <2>1, <2>3, <2>4, <2>5
<1>3. QED
  BY <1>1, <1>2 DEF Registry!Row

LEMMA NewRowType ==
    ASSUME NEW k \in Keys
    PROVE  /\ Registry!NewRow(k) \in Registry!Row
           /\ Registry!NewRow(k).owner = k
           /\ Consistent(Registry!NewRow(k))
  BY StoreAssumption DEF Consistent, Registry!Row, Registry!Ages, Registry!NewRow

-----------------------------------------------------------------------------
(* How many rows an owner has. *)

LEMMA SubsOfFinite ==
    ASSUME NEW k
    PROVE  /\ IsFiniteSet(Registry!SubsOf(k))
           /\ Cardinality(Registry!SubsOf(k)) \in Nat
<1>1. Registry!SubsOf(k) \subseteq Ids
  BY DEF Registry!SubsOf
<1>2. QED
  BY <1>1, StoreAssumption, FS_Subset, FS_CardinalityType

(* The committed rows of every owner can only have become fewer. *)
Fewer == \A k \in Keys : Registry!SubsOf(k)' \subseteq Registry!SubsOf(k)

LEMMA FewerCount ==
    ASSUME NEW k \in Keys, Fewer
    PROVE  /\ Cardinality(Registry!SubsOf(k)') \in Nat
           /\ Cardinality(Registry!SubsOf(k)') <= Cardinality(Registry!SubsOf(k))
  BY SubsOfFinite, FS_Subset, FS_CardinalityType DEF Fewer

-----------------------------------------------------------------------------
(* Each kind of step keeps the shape of the tables and of the transactions. *)

LEMMA Shapes ==
    /\ Idle \in RequestState
    /\ NotRevoking \in RevokerState
    /\ \A k \in Keys : \A pc \in {"create", "delete", "locked", "counted"} :
          Tx(pc, k, None) \in RequestState
    /\ \A k \in Keys, i \in Ids : Tx("inserted", k, i) \in RequestState
    /\ \A k \in Keys, A \in SUBSET Ids, B \in SUBSET Ids :
          \A pc \in {"keyLocked", "subsDeleted", "keyDeleted"} :
             Revoking(pc, k, A, B) \in RevokerState
  BY DEF Idle, NotRevoking, Tx, Revoking, RequestState, RevokerState
-----------------------------------------------------------------------------
(* A statement of one HTTP request that leaves the tables alone keeps the   *)
(* invariant when its new state x is one the locks allow.                   *)
LEMMA RequestStep ==
    ASSUME IInv, NEW r \in Requests, NEW x \in RequestState,
           req' = [req EXCEPT ![r] = x],
           UNCHANGED <<keys, subs, rev>>,
           x.pc # "idle" => x.key \in Keys,
           x.pc = "inserted" =>
               /\ x.id \in Ids
               /\ subs[x.id] = None
               /\ \A q \in Requests \ {r} : req[q].pc = "inserted" => req[q].id # x.id
               /\ x.key \in keys
               /\ \A v \in Revokers : ~HoldsForUpdate(v, x.key),
           x.pc # "inserted" => x.id = None,
           x.pc \in {"locked", "counted", "inserted"} =>
               \A q \in Requests \ {r} : ~HoldsAdvisory(q, x.key),
           x.pc \in {"counted", "inserted"} =>
               Cardinality(Registry!SubsOf(x.key)) < MaxPerOwner
    PROVE  IInv'
<1>1. /\ req' \in [Requests -> RequestState]
      /\ req'[r] = x
      /\ \A q \in Requests \ {r} : req'[q] = req[q]
  BY DEF IInv, TypeOK
<1>2. /\ \A k \in Keys : Registry!SubsOf(k)' = Registry!SubsOf(k)
      /\ \A i \in Ids : Registry!Live(i)' <=> Registry!Live(i)
  BY DEF Registry!SubsOf, Registry!Live
<1>3. TypeOK'
  BY <1>1 DEF IInv, TypeOK, Registry!TypeOK
<1>4. LocksExclude'
  BY <1>1 DEF IInv, LocksExclude, HoldsAdvisory, HoldsForUpdate, HoldsKeyShare
<1>5. LockedKeysExist'
  BY <1>1 DEF IInv, LockedKeysExist, HoldsForUpdate, HoldsKeyShare
<1>6. InsertedRows'
  BY <1>1 DEF IInv, InsertedRows
<1>7. RevocationProgress' /\ RevocationCountExact'
  BY <1>2 DEF IInv, RevocationProgress, RevocationCountExact
<1>8. NoOrphan' /\ CounterConsistent' /\ QuotaRespected'
  BY <1>2 DEF IInv, NoOrphan, CounterConsistent, QuotaRespected
<1>9. RoomAfterCount'
  BY <1>1, <1>2 DEF IInv, RoomAfterCount, InsertedRows
<1>10. QED
  BY <1>3, <1>4, <1>5, <1>6, <1>7, <1>8, <1>9 DEF IInv

(* The same for a statement of one revocation, with its new state y. *)
LEMMA RevokerStep ==
    ASSUME IInv, NEW v \in Revokers, NEW y \in RevokerState,
           rev' = [rev EXCEPT ![v] = y],
           UNCHANGED <<keys, subs, req>>,
           y.pc # "idle" =>
               /\ y.key \in Keys
               /\ y.key \in keys
               /\ \A w \in Revokers \ {v} : ~HoldsForUpdate(w, y.key)
               /\ \A r \in Requests : ~HoldsKeyShare(r, y.key),
           y.pc \in {"idle", "keyLocked"} => y.removed = {} /\ y.cascaded = {},
           y.pc \in {"subsDeleted", "keyDeleted"} =>
               y.removed = Registry!SubsOf(y.key) /\ y.cascaded = {}
    PROVE  IInv'
<1>1. /\ rev' \in [Revokers -> RevokerState]
      /\ rev'[v] = y
      /\ \A w \in Revokers \ {v} : rev'[w] = rev[w]
  BY DEF IInv, TypeOK
<1>2. /\ \A k \in Keys : Registry!SubsOf(k)' = Registry!SubsOf(k)
      /\ \A i \in Ids : Registry!Live(i)' <=> Registry!Live(i)
  BY DEF Registry!SubsOf, Registry!Live
<1>3. TypeOK'
  BY <1>1 DEF IInv, TypeOK, Registry!TypeOK
<1>4. LocksExclude'
  BY <1>1 DEF IInv, LocksExclude, HoldsAdvisory, HoldsForUpdate, HoldsKeyShare
<1>5. LockedKeysExist'
  BY <1>1 DEF IInv, LockedKeysExist, HoldsForUpdate, HoldsKeyShare
<1>6. InsertedRows' /\ RoomAfterCount'
  BY <1>2 DEF IInv, InsertedRows, RoomAfterCount
<1>7. RevocationProgress'
  BY <1>1 DEF IInv, RevocationProgress
<1>8. RevocationCountExact'
  BY <1>1, <1>2 DEF IInv, RevocationProgress, RevocationCountExact
<1>9. NoOrphan' /\ CounterConsistent' /\ QuotaRespected'
  BY <1>2 DEF IInv, NoOrphan, CounterConsistent, QuotaRespected
<1>10. QED
  BY <1>3, <1>4, <1>5, <1>6, <1>7, <1>8, <1>9 DEF IInv
-----------------------------------------------------------------------------
(* Single statements on the rows of webhook_subscription: a row that is     *)
(* there afterwards was there before, with the same owner, and no row that  *)
(* an open revocation has deleted disappears meanwhile.                     *)
RowsOnly ==
    /\ UNCHANGED <<keys, rev>>
    /\ \/ UNCHANGED req
       \/ \E r \in Requests : req' = [req EXCEPT ![r] = Idle]
    /\ subs' \in [Ids -> Registry!Row \cup {None}]
    /\ \A i \in Ids : subs'[i] # None =>
          /\ subs[i] # None
          /\ subs'[i].owner = subs[i].owner
          /\ Consistent(subs'[i])
    /\ \A i \in Ids : subs[i] # None /\ RowLocked(i) => subs'[i] # None

LEMMA RowsStep ==
    ASSUME IInv, RowsOnly
    PROVE  IInv'
<1>1. /\ req' \in [Requests -> RequestState]
      /\ \A q \in Requests : req'[q] = req[q] \/ req'[q] = Idle
  BY Shapes DEF IInv, TypeOK, RowsOnly
<1>2. Fewer
  BY DEF RowsOnly, Fewer, Registry!SubsOf, Registry!Live
<1>3. TypeOK'
  BY <1>1 DEF IInv, TypeOK, Registry!TypeOK, RowsOnly
<1>4. LocksExclude'
  BY <1>1 DEF IInv, LocksExclude, HoldsAdvisory, HoldsForUpdate, HoldsKeyShare,
              RowsOnly, Idle, Tx
<1>5. LockedKeysExist'
  BY <1>1 DEF IInv, LockedKeysExist, HoldsForUpdate, HoldsKeyShare, RowsOnly, Idle, Tx
<1>6. InsertedRows'
  BY <1>1 DEF IInv, InsertedRows, RowsOnly, Idle, Tx
<1>7. RevocationProgress'
  BY DEF IInv, RevocationProgress, RowsOnly
<1>8. RevocationCountExact'
  <2> SUFFICES ASSUME NEW v \in Revokers, rev[v].pc \in {"subsDeleted", "keyDeleted"}
               PROVE  rev[v].removed = Registry!SubsOf(rev[v].key)' /\ rev[v].cascaded = {}
    BY DEF RevocationCountExact, RowsOnly
  <2>1. rev[v].removed = Registry!SubsOf(rev[v].key) /\ rev[v].cascaded = {}
    BY DEF IInv, RevocationCountExact
  <2>2. \A i \in Registry!SubsOf(rev[v].key) : RowLocked(i) /\ subs[i] # None
    BY <2>1 DEF RowLocked, Registry!SubsOf, Registry!Live
  <2>3. Registry!SubsOf(rev[v].key)' = Registry!SubsOf(rev[v].key)
    BY <2>2 DEF RowsOnly, Registry!SubsOf, Registry!Live
  <2>4. QED
    BY <2>1, <2>3
<1>9. NoOrphan'
  BY DEF IInv, NoOrphan, RowsOnly, Registry!Live
<1>10. CounterConsistent'
  BY DEF CounterConsistent, Consistent, RowsOnly, Registry!Live
<1>11. QuotaRespected'
  BY <1>2, FewerCount, SubsOfFinite, StoreAssumption DEF IInv, QuotaRespected
<1>12. RoomAfterCount'
  <2> SUFFICES ASSUME NEW q \in Requests, NEW k \in Keys,
                      req'[q].key = k, req'[q].pc \in {"counted", "inserted"}
               PROVE  Cardinality(Registry!SubsOf(k)') < MaxPerOwner
    BY DEF RoomAfterCount
  <2>1. req'[q] = req[q]
    BY <1>1 DEF Idle, Tx
  <2>2. Cardinality(Registry!SubsOf(k)) < MaxPerOwner
    BY <2>1 DEF IInv, RoomAfterCount
  <2>3. QED
    BY <1>2, <2>2, FewerCount, SubsOfFinite, StoreAssumption
<1>13. QED
  BY <1>3, <1>4, <1>5, <1>6, <1>7, <1>8, <1>9, <1>10, <1>11, <1>12 DEF IInv

(* Each of the single statements is one. *)
LEMMA RowsOfRecord ==
    ASSUME IInv, NEW i \in Ids, NEW delivered \in BOOLEAN, RecordDelivery(i, delivered)
    PROVE  RowsOnly
<1>1. CASE ~Registry!Live(i)
  BY <1>1 DEF RecordDelivery, Registry!RecordDelivery, RowsOnly, IInv, TypeOK, Registry!TypeOK,
              CounterConsistent, Consistent, Registry!Live
<1>2. CASE Registry!Live(i)
  <2>1. subs[i] \in Registry!Row /\ Consistent(subs[i])
    BY <1>2 DEF IInv, TypeOK, Registry!TypeOK, CounterConsistent, Consistent, Registry!Live
  <2>2. subs' = [subs EXCEPT ![i] = Registry!Recorded(subs[i], delivered)]
    BY <1>2 DEF RecordDelivery, Registry!RecordDelivery
  <2>3. /\ Registry!Recorded(subs[i], delivered) \in Registry!Row
        /\ Registry!Recorded(subs[i], delivered).owner = subs[i].owner
        /\ Consistent(Registry!Recorded(subs[i], delivered))
    BY <2>1, RowOperators
  <2>4. \A j \in Ids : subs[j] # None => Consistent(subs[j])
    BY DEF IInv, CounterConsistent, Consistent, Registry!Live
  <2>5. QED
    BY <1>2, <2>2, <2>3, <2>4, StoreAssumption
       DEF RecordDelivery, Registry!RecordDelivery, RowsOnly, IInv, TypeOK, Registry!TypeOK,
           Registry!Live
<1>3. QED
  BY <1>1, <1>2

LEMMA RowsOfPurge ==
    ASSUME IInv, PurgeDisabled
    PROVE  RowsOnly
  BY DEF PurgeDisabled, Registry!PurgeDisabled, RowsOnly, IInv, TypeOK, Registry!TypeOK,
         CounterConsistent, Consistent, Registry!Live

LEMMA RowsOfDay ==
    ASSUME IInv, Day
    PROVE  RowsOnly
<1>1. \A i \in Ids : Registry!Live(i) =>
          /\ Registry!Aged(subs[i]) \in Registry!Row
          /\ Registry!Aged(subs[i]).owner = subs[i].owner
          /\ Consistent(Registry!Aged(subs[i]))
  BY RowOperators
     DEF IInv, TypeOK, Registry!TypeOK, CounterConsistent, Consistent, Registry!Live
<1>2. QED
  BY <1>1, StoreAssumption
     DEF Day, Registry!Day, RowsOnly, IInv, TypeOK, Registry!TypeOK, Registry!Live

LEMMA RowsOfDelete ==
    ASSUME IInv, NEW r \in Requests, NEW i \in Ids, DeleteRow(r, i)
    PROVE  RowsOnly
  BY DEF DeleteRow, RowsOnly, IInv, TypeOK, Registry!TypeOK, CounterConsistent, Consistent,
         Registry!Live, Registry!SubsOf
-----------------------------------------------------------------------------
(* The three steps that change the tables otherwise. *)

LEMMA InsertKeyStep ==
    ASSUME IInv, NEW k \in Keys, InsertKey(k)
    PROVE  IInv'
<1>1. /\ keys' = keys \cup {k}
      /\ UNCHANGED <<subs, req, rev>>
  BY DEF InsertKey, Registry!InsertKey
<1>2. \A h \in Keys : Registry!SubsOf(h)' = Registry!SubsOf(h)
  BY <1>1 DEF Registry!SubsOf, Registry!Live
<1>3. TypeOK'
  BY <1>1 DEF IInv, TypeOK, Registry!TypeOK
<1>4. LocksExclude' /\ LockedKeysExist'
  BY <1>1 DEF IInv, LocksExclude, LockedKeysExist, HoldsAdvisory, HoldsForUpdate, HoldsKeyShare
<1>5. InsertedRows' /\ RevocationProgress' /\ CounterConsistent'
  BY <1>1 DEF IInv, InsertedRows, RevocationProgress, CounterConsistent, Registry!Live
<1>6. RevocationCountExact'
  BY <1>1, <1>2 DEF IInv, RevocationProgress, RevocationCountExact
<1>7. NoOrphan' /\ QuotaRespected' /\ RoomAfterCount'
  BY <1>1, <1>2 DEF IInv, NoOrphan, QuotaRespected, RoomAfterCount, Registry!Live
<1>8. QED
  BY <1>3, <1>4, <1>5, <1>6, <1>7 DEF IInv

(* The row appears with an identifier nobody has, its key locked and        *)
(* present, and room for it counted under the owner's lock.                 *)
LEMMA CommitCreateFacts ==
    ASSUME IInv, NEW r \in Requests, CommitCreate(r), NEW k, NEW i,
           k = req[r].key, i = req[r].id
    PROVE  /\ k \in keys /\ k \in Keys /\ i \in Ids
           /\ subs[i] = None
           /\ subs' = [subs EXCEPT ![i] = Registry!NewRow(k)]
           /\ keys' = keys
           /\ Cardinality(Registry!SubsOf(k)) < MaxPerOwner
           /\ Registry!SubsOf(k)' = Registry!SubsOf(k) \cup {i}
           /\ \A h \in Keys \ {k} : Registry!SubsOf(h)' = Registry!SubsOf(h)
<1>1. /\ k \in Keys /\ i \in Ids /\ subs[i] = None
      /\ subs' = [subs EXCEPT ![i] = Registry!NewRow(k)]
      /\ keys' = keys
  BY DEF CommitCreate, IInv, InsertedRows
<1>2. k \in keys /\ Cardinality(Registry!SubsOf(k)) < MaxPerOwner
  BY <1>1 DEF CommitCreate, IInv, LockedKeysExist, HoldsKeyShare, RoomAfterCount
<1>3. /\ Registry!NewRow(k) # None
      /\ Registry!NewRow(k).owner = k
      /\ subs \in [Ids -> Registry!Row \cup {None}]
  BY <1>1, NewRowType, StoreAssumption DEF IInv, TypeOK, Registry!TypeOK
<1>4. \A h \in Keys : \A j \in Ids \ {i} :
          j \in Registry!SubsOf(h)' <=> j \in Registry!SubsOf(h)
  BY <1>1, <1>3 DEF Registry!SubsOf, Registry!Live
<1>5. \A h \in Keys : /\ i \notin Registry!SubsOf(h)
                      /\ i \in Registry!SubsOf(h)' <=> h = k
  BY <1>1, <1>3 DEF Registry!SubsOf, Registry!Live
<1>6. \A h \in Keys : Registry!SubsOf(h) \subseteq Ids /\ Registry!SubsOf(h)' \subseteq Ids
  BY DEF Registry!SubsOf
<1>7. QED
  BY <1>1, <1>2, <1>4, <1>5, <1>6

LEMMA CommitCreateStep ==
    ASSUME IInv, NEW r \in Requests, CommitCreate(r)
    PROVE  IInv'
<1>a. PICK k \in Keys, i \in Ids : k = req[r].key /\ i = req[r].id
  BY DEF CommitCreate, IInv, InsertedRows
<1>1. /\ k \in keys /\ k \in Keys /\ i \in Ids
      /\ subs[i] = None
      /\ subs' = [subs EXCEPT ![i] = Registry!NewRow(k)]
      /\ keys' = keys
      /\ Cardinality(Registry!SubsOf(k)) < MaxPerOwner
      /\ Registry!SubsOf(k)' = Registry!SubsOf(k) \cup {i}
      /\ \A h \in Keys \ {k} : Registry!SubsOf(h)' = Registry!SubsOf(h)
  BY <1>a, CommitCreateFacts
<1>2. /\ req[r].pc = "inserted"
      /\ req' = [req EXCEPT ![r] = Idle]
      /\ rev' = rev
  BY DEF CommitCreate
<1>3. /\ req' \in [Requests -> RequestState]
      /\ req'[r] = Idle
      /\ \A q \in Requests \ {r} : req'[q] = req[q]
  BY <1>2, Shapes DEF IInv, TypeOK
<1>4. /\ Registry!NewRow(k) \in Registry!Row
      /\ Registry!NewRow(k).owner = k
      /\ Consistent(Registry!NewRow(k))
  BY <1>1, NewRowType
<1>5. /\ subs \in [Ids -> Registry!Row \cup {None}]
      /\ \A j \in Ids \ {i} : subs'[j] = subs[j]
      /\ subs'[i] = Registry!NewRow(k)
  BY <1>1 DEF IInv, TypeOK, Registry!TypeOK
<1>6. TypeOK'
  BY <1>1, <1>2, <1>3, <1>4, <1>5 DEF IInv, TypeOK, Registry!TypeOK
<1>7. LocksExclude' /\ LockedKeysExist'
  BY <1>1, <1>2, <1>3
     DEF IInv, LocksExclude, LockedKeysExist, HoldsAdvisory, HoldsForUpdate, HoldsKeyShare,
         Idle, Tx
<1>8. InsertedRows'
  BY <1>a, <1>2, <1>3, <1>5 DEF IInv, InsertedRows, Idle, Tx
<1>9. RevocationProgress'
  BY <1>2 DEF IInv, RevocationProgress
<1>10. \A v \in Revokers : rev[v].pc # "idle" => rev[v].key \in Keys \ {k}
  BY <1>a, <1>2 DEF IInv, LocksExclude, HoldsKeyShare, HoldsForUpdate, RevocationProgress
<1>11. RevocationCountExact'
  BY <1>1, <1>2, <1>10 DEF IInv, RevocationCountExact
<1>12. NoOrphan' /\ CounterConsistent'
  BY <1>1, <1>4, <1>5 DEF IInv, NoOrphan, CounterConsistent, Consistent, Registry!Live
<1>13. Cardinality(Registry!SubsOf(k)') = Cardinality(Registry!SubsOf(k)) + 1
  <2>1. i \notin Registry!SubsOf(k)
    BY <1>1 DEF Registry!SubsOf, Registry!Live
  <2>2. QED
    BY <1>1, <2>1, SubsOfFinite, FS_AddElement
<1>14. QuotaRespected'
  <2> SUFFICES ASSUME NEW h \in Keys
               PROVE  Cardinality(Registry!SubsOf(h)') <= MaxPerOwner
    BY DEF QuotaRespected
  <2>1. CASE h = k
    BY <1>1, <1>13, <2>1, SubsOfFinite, StoreAssumption
  <2>2. CASE h # k
    BY <1>1, <2>2 DEF IInv, QuotaRespected
  <2>3. QED
    BY <2>1, <2>2
<1>15. \A q \in Requests \ {r} : req[q].pc \in {"counted", "inserted"} => req[q].key # k
  BY <1>a, <1>1, <1>2 DEF IInv, LocksExclude, HoldsAdvisory
<1>16. RoomAfterCount'
  BY <1>1, <1>3, <1>15 DEF IInv, RoomAfterCount, Idle, Tx
<1>17. QED
  BY <1>6, <1>7, <1>8, <1>9, <1>11, <1>12, <1>14, <1>16 DEF IInv

(* The commit of a revocation takes away exactly the rows of its key.       *)
LEMMA RevokeCommitFacts ==
    ASSUME IInv, NEW v \in Revokers, RevokeCommit(v), NEW k, k = rev[v].key
    PROVE  /\ k \in keys /\ k \in Keys
           /\ keys' = keys \ {k}
           /\ subs' = [i \in Ids |-> IF i \in Registry!SubsOf(k) THEN None ELSE subs[i]]
<1>1. rev[v].pc = "keyDeleted"
  BY DEF RevokeCommit
<1>2. k \in keys /\ k \in Keys
  BY <1>1 DEF IInv, LockedKeysExist, HoldsForUpdate, RevocationProgress
<1>3. rev[v].removed = Registry!SubsOf(k) /\ rev[v].cascaded = {}
  BY <1>1 DEF IInv, RevocationCountExact
<1>4. QED
  BY <1>2, <1>3 DEF RevokeCommit

LEMMA RevokeCommitStep ==
    ASSUME IInv, NEW v \in Revokers, RevokeCommit(v)
    PROVE  IInv'
<1>a. PICK k \in Keys : k = rev[v].key
  BY DEF RevokeCommit, IInv, RevocationProgress
<1>1. /\ k \in keys
      /\ keys' = keys \ {k}
      /\ subs' = [i \in Ids |-> IF i \in Registry!SubsOf(k) THEN None ELSE subs[i]]
  BY <1>a, RevokeCommitFacts
<1>2. /\ rev[v].pc = "keyDeleted"
      /\ req' = req
      /\ rev' = [rev EXCEPT ![v] = NotRevoking]
  BY DEF RevokeCommit
<1>3. /\ rev' \in [Revokers -> RevokerState]
      /\ rev'[v] = NotRevoking
      /\ \A w \in Revokers \ {v} : rev'[w] = rev[w]
  BY <1>2, Shapes DEF IInv, TypeOK
<1>4. \A j \in Ids : /\ subs'[j] # None => subs'[j] = subs[j] /\ subs[j].owner # k
                     /\ subs[j] = None => subs'[j] = None
                     /\ subs[j] # None /\ subs[j].owner # k => subs'[j] = subs[j]
  BY <1>1 DEF Registry!SubsOf, Registry!Live
<1>5. \A h \in Keys \ {k} : Registry!SubsOf(h)' = Registry!SubsOf(h)
  BY <1>4 DEF Registry!SubsOf, Registry!Live
<1>6. Fewer
  BY <1>4 DEF Fewer, Registry!SubsOf, Registry!Live
<1>7. TypeOK'
  BY <1>1, <1>2, <1>3 DEF IInv, TypeOK, Registry!TypeOK
<1>8. LocksExclude'
  BY <1>2, <1>3
     DEF IInv, LocksExclude, HoldsAdvisory, HoldsForUpdate, HoldsKeyShare, NotRevoking, Revoking
<1>9. /\ \A w \in Revokers \ {v} : ~HoldsForUpdate(w, k)
      /\ \A r \in Requests : ~HoldsKeyShare(r, k)
  BY <1>a, <1>2 DEF IInv, LocksExclude, HoldsForUpdate
<1>10. LockedKeysExist'
  BY <1>1, <1>2, <1>3, <1>9
     DEF IInv, LockedKeysExist, HoldsForUpdate, HoldsKeyShare, NotRevoking, Revoking
<1>11. InsertedRows'
  BY <1>2, <1>4 DEF IInv, InsertedRows
<1>12. RevocationProgress'
  BY <1>3 DEF IInv, RevocationProgress, NotRevoking, Revoking
<1>13. RevocationCountExact'
  <2> SUFFICES ASSUME NEW w \in Revokers, rev'[w].pc \in {"subsDeleted", "keyDeleted"},
                      NEW h, h = rev'[w].key
               PROVE  rev'[w].removed = Registry!SubsOf(h)' /\ rev'[w].cascaded = {}
    BY DEF RevocationCountExact
  <2>1. rev'[w] = rev[w] /\ w # v
    BY <1>3 DEF NotRevoking, Revoking
  <2>2. h \in Keys \ {k}
    BY <1>9, <2>1 DEF IInv, RevocationProgress, HoldsForUpdate
  <2>3. QED
    BY <1>5, <2>1, <2>2 DEF IInv, RevocationCountExact
<1>14. NoOrphan' /\ CounterConsistent'
  BY <1>1, <1>4 DEF IInv, NoOrphan, CounterConsistent, Registry!Live
<1>15. QuotaRespected'
  BY <1>6, FewerCount, SubsOfFinite, StoreAssumption DEF IInv, QuotaRespected
<1>16. RoomAfterCount'
  BY <1>2, <1>6, FewerCount, SubsOfFinite, StoreAssumption DEF IInv, RoomAfterCount
<1>17. QED
  BY <1>7, <1>8, <1>10, <1>11, <1>12, <1>13, <1>14, <1>15, <1>16 DEF IInv

-----------------------------------------------------------------------------
(* Initially nothing is stored and nobody is at work. *)
LEMMA InitInv == Init => IInv
<1> SUFFICES ASSUME Init PROVE IInv
  OBVIOUS
<1>1. /\ keys = {}
      /\ \A i \in Ids : subs[i] = None
      /\ subs \in [Ids -> Registry!Row \cup {None}]
      /\ req \in [Requests -> RequestState] /\ rev \in [Revokers -> RevokerState]
      /\ \A r \in Requests : req[r] = Idle
      /\ \A v \in Revokers : rev[v] = NotRevoking
  BY Shapes DEF Init, Registry!Init
<1>2. \A k \in Keys : Cardinality(Registry!SubsOf(k)) = 0
  <2>1. \A k \in Keys : Registry!SubsOf(k) = {}
    BY <1>1 DEF Registry!SubsOf, Registry!Live
  <2>2. QED
    BY <2>1, FS_EmptySet
<1>3. TypeOK /\ LocksExclude /\ LockedKeysExist /\ InsertedRows
  BY <1>1 DEF TypeOK, Registry!TypeOK, LocksExclude, LockedKeysExist, InsertedRows,
              HoldsAdvisory, HoldsForUpdate, HoldsKeyShare, Idle, Tx, NotRevoking, Revoking
<1>4. RevocationProgress /\ RevocationCountExact
  BY <1>1 DEF RevocationProgress, RevocationCountExact, NotRevoking, Revoking
<1>5. NoOrphan /\ CounterConsistent /\ RoomAfterCount /\ QuotaRespected
  BY <1>1, <1>2, StoreAssumption
     DEF NoOrphan, CounterConsistent, RoomAfterCount, QuotaRespected, Registry!Live, Idle, Tx
<1>6. QED
  BY <1>3, <1>4, <1>5 DEF IInv

(* Every step keeps the invariant. *)
LEMMA NextInv == IInv /\ [Next]_vars => IInv'
<1> SUFFICES ASSUME IInv, [Next]_vars PROVE IInv'
  OBVIOUS
<1>1. ASSUME NEW k \in Keys, InsertKey(k) PROVE IInv'
  BY <1>1, InsertKeyStep
<1>2. ASSUME NEW r \in Requests, NEW k \in Keys, NEW op \in {"create", "delete"},
             Authenticate(r, k, op)
      PROVE  IInv'
  <2>1. Tx(op, k, None) \in RequestState
    BY Shapes
  <2>2. QED
    BY <1>2, <2>1, RequestStep DEF Authenticate, Tx
<1>3. ASSUME NEW r \in Requests, Abort(r) PROVE IInv'
  BY <1>3, Shapes, RequestStep DEF Abort, Idle, Tx
<1>4. ASSUME NEW r \in Requests, LockOwner(r) PROVE IInv'
  <2>1. PICK k \in Keys : k = req[r].key
    BY <1>4 DEF LockOwner, IInv, InsertedRows
  <2>2. QED
    BY <1>4, <2>1, Shapes, RequestStep DEF LockOwner, Tx
<1>5. ASSUME NEW r \in Requests, CountOwned(r) PROVE IInv'
  <2>1. PICK k \in Keys : k = req[r].key
    BY <1>5 DEF CountOwned, IInv, InsertedRows
  <2>2. HoldsAdvisory(r, k)
    BY <1>5, <2>1 DEF CountOwned, HoldsAdvisory
  <2>3. \A q \in Requests \ {r} : ~HoldsAdvisory(q, k)
    BY <2>2 DEF IInv, LocksExclude
  <2>4. CASE Cardinality(Registry!SubsOf(k)) >= MaxPerOwner
    BY <1>5, <2>1, <2>4, Shapes, RequestStep DEF CountOwned, Idle, Tx
  <2>5. CASE ~(Cardinality(Registry!SubsOf(k)) >= MaxPerOwner)
    <3>1. Cardinality(Registry!SubsOf(k)) < MaxPerOwner
      BY <2>5, SubsOfFinite, StoreAssumption
    <3>2. req' = [req EXCEPT ![r] = Tx("counted", k, None)]
      BY <1>5, <2>1, <2>5 DEF CountOwned
    <3>3. Tx("counted", k, None) \in RequestState
      BY Shapes
    <3>4. QED
      BY <1>5, <2>3, <3>1, <3>2, <3>3, RequestStep DEF CountOwned, Tx
  <2>6. QED
    BY <2>4, <2>5
<1>6. ASSUME NEW r \in Requests, InsertRow(r) PROVE IInv'
  <2>1. PICK k \in Keys : k = req[r].key
    BY <1>6 DEF InsertRow, IInv, InsertedRows
  <2>2. HoldsAdvisory(r, k) /\ req[r].pc = "counted"
    BY <1>6, <2>1 DEF InsertRow, HoldsAdvisory
  <2>3. \A q \in Requests \ {r} : ~HoldsAdvisory(q, k)
    BY <2>2 DEF IInv, LocksExclude
  <2>4. Cardinality(Registry!SubsOf(k)) < MaxPerOwner
    BY <2>1, <2>2 DEF IInv, RoomAfterCount
  <2>5. CASE req' = [req EXCEPT ![r] = Idle]
    BY <1>6, <2>5, Shapes, RequestStep DEF InsertRow, Idle, Tx
  <2>6. ASSUME k \in keys, NEW i \in Ids, ~IdInUse(i),
               req' = [req EXCEPT ![r] = Tx("inserted", k, i)]
        PROVE  IInv'
    <3>1. Tx("inserted", k, i) \in RequestState
      BY Shapes
    <3>2. subs[i] = None /\ \A q \in Requests : req[q].id # i
      BY <2>6 DEF IdInUse, Registry!Live
    <3>3. QED
      BY <1>6, <2>1, <2>3, <2>4, <2>6, <3>1, <3>2, RequestStep DEF InsertRow, Tx
  <2>7. QED
    BY <1>6, <2>1, <2>5, <2>6 DEF InsertRow
<1>7. ASSUME NEW r \in Requests, CommitCreate(r) PROVE IInv'
  BY <1>7, CommitCreateStep
<1>8. ASSUME NEW r \in Requests, NEW i \in Ids, DeleteRow(r, i) PROVE IInv'
  BY <1>8, RowsOfDelete, RowsStep
<1>9. ASSUME NEW v \in Revokers, NEW k \in Keys, RevokeLock(v, k) PROVE IInv'
  BY <1>9, Shapes, RevokerStep DEF RevokeLock, Revoking
<1>10. ASSUME NEW v \in Revokers, rev[v].pc # "idle", NEW k, k = rev[v].key
       PROVE  /\ k \in Keys /\ k \in keys
              /\ \A w \in Revokers \ {v} : ~HoldsForUpdate(w, k)
              /\ \A r \in Requests : ~HoldsKeyShare(r, k)
  BY <1>10 DEF IInv, RevocationProgress, LockedKeysExist, LocksExclude, HoldsForUpdate
<1>11. ASSUME NEW v \in Revokers, RevokeDeleteSubs(v) PROVE IInv'
  <2>1. PICK k \in Keys : k = rev[v].key
    BY <1>11 DEF RevokeDeleteSubs, IInv, RevocationProgress
  <2>2. Registry!SubsOf(k) \in SUBSET Ids
    BY DEF Registry!SubsOf
  <2>3. Revoking("subsDeleted", k, Registry!SubsOf(k), {}) \in RevokerState
    BY <2>2, Shapes
  <2>4. QED
    BY <1>10, <1>11, <2>1, <2>3, RevokerStep DEF RevokeDeleteSubs, Revoking
<1>12. ASSUME NEW v \in Revokers, RevokeDeleteKey(v) PROVE IInv'
  <2>1. PICK k \in Keys : k = rev[v].key
    BY <1>12 DEF RevokeDeleteKey, IInv, RevocationProgress
  <2>2. rev[v].removed = Registry!SubsOf(k)
    BY <1>12, <2>1 DEF RevokeDeleteKey, IInv, RevocationCountExact
  <2>3. Registry!SubsOf(k) \in SUBSET Ids
    BY DEF Registry!SubsOf
  <2>4. Revoking("keyDeleted", k, Registry!SubsOf(k), {}) \in RevokerState
    BY <2>3, Shapes
  <2>5. rev' = [rev EXCEPT ![v] = Revoking("keyDeleted", k, Registry!SubsOf(k), {})]
    BY <1>12, <2>1, <2>2 DEF RevokeDeleteKey
  <2>6. rev[v].pc # "idle"
    BY <1>12 DEF RevokeDeleteKey
  <2>7. QED
    BY <1>10, <1>12, <2>1, <2>4, <2>5, <2>6, RevokerStep DEF RevokeDeleteKey, Revoking
<1>13. ASSUME NEW v \in Revokers, RevokeCommit(v) PROVE IInv'
  BY <1>13, RevokeCommitStep
<1>14. ASSUME NEW v \in Revokers, RevokeAbort(v) PROVE IInv'
  BY <1>14, Shapes, RevokerStep DEF RevokeAbort, NotRevoking, Revoking
<1>15. ASSUME NEW i \in Ids, NEW delivered \in BOOLEAN, RecordDelivery(i, delivered)
       PROVE  IInv'
  BY <1>15, RowsOfRecord, RowsStep
<1>16. CASE PurgeDisabled
  BY <1>16, RowsOfPurge, RowsStep
<1>17. CASE Day
  BY <1>17, RowsOfDay, RowsStep
<1>18. CASE UNCHANGED vars
  <2>1. RowsOnly
    BY <1>18 DEF vars, RowsOnly, IInv, TypeOK, Registry!TypeOK, CounterConsistent, Consistent,
                 Registry!Live
  <2>2. QED
    BY <2>1, RowsStep
<1>19. QED
  BY <1>1, <1>2, <1>3, <1>4, <1>5, <1>6, <1>7, <1>8, <1>9, <1>11, <1>12, <1>13, <1>14, <1>15,
     <1>16, <1>17, <1>18
     DEF Next, CreateStep, RevokeStep

(* Tables and transactions always have the declared shape. *)
THEOREM TypeCorrect == Spec => []TypeOK
<1>1. IInv => TypeOK
  BY DEF IInv
<1>2. QED
  BY <1>1, InitInv, NextInv, PTL DEF Spec

(* No subscription is ever left without its key, no key ever owns more than *)
(* the quota, counters and flags agree, and the count a revocation reports  *)
(* is exact: for any number of keys, requests and revocations.              *)
THEOREM StoreSafety == Spec => [](NoOrphan /\ QuotaRespected /\ CounterConsistent
                                  /\ RevocationCountExact)
<1>1. IInv => NoOrphan /\ QuotaRespected /\ CounterConsistent /\ RevocationCountExact
  BY DEF IInv
<1>2. QED
  BY <1>1, InitInv, NextInv, PTL DEF Spec

(* Revocation (revoke_api_key): the number of subscriptions it reports is   *)
(* the number that disappear with the key, the cascade finding none left,   *)
(* even when a creation for the same key is in progress.                    *)
THEOREM RevocationsCounted == Spec => []RevocationCountExact
<1>1. IInv => RevocationCountExact
  BY DEF IInv
<1>2. QED
  BY <1>1, InitInv, NextInv, PTL DEF Spec

-----------------------------------------------------------------------------
(* The instance of the registry counts with its own copy of Cardinality.    *)
LEMMA SameCardinality == \A S : Registry!Cardinality(S) = Cardinality(S)
  BY DEF Registry!Cardinality, Cardinality

(* Refinement: every step of the transactions is one step of the registry   *)
(* or leaves the committed tables alone.                                    *)
LEMMA StepRefines == IInv /\ [Next]_vars => [Registry!Next]_(Registry!vars)
<1> SUFFICES ASSUME IInv, [Next]_vars PROVE [Registry!Next]_(Registry!vars)
  OBVIOUS
<1> USE DEF Registry!vars
<1>1. ASSUME NEW k \in Keys, InsertKey(k) PROVE Registry!Next
  BY <1>1 DEF InsertKey, Registry!Next
<1>2. ASSUME NEW r \in Requests, CommitCreate(r) PROVE Registry!Next
  <2>1. PICK k \in Keys, i \in Ids : k = req[r].key /\ i = req[r].id
    BY <1>2 DEF CommitCreate, IInv, InsertedRows
  <2>2. Registry!Create(i, k)
    BY <1>2, <2>1, CommitCreateFacts, SameCardinality DEF Registry!Create
  <2>3. QED
    BY <2>2 DEF Registry!Next
<1>3. ASSUME NEW r \in Requests, NEW i \in Ids, DeleteRow(r, i)
      PROVE  Registry!Next \/ UNCHANGED Registry!vars
  <2>1. CASE i \in Registry!SubsOf(req[r].key)
    <3>1. PICK k \in Keys : k = req[r].key
      BY <1>3 DEF DeleteRow, IInv, InsertedRows
    <3>2. Registry!Delete(i, k)
      BY <1>3, <2>1, <3>1 DEF DeleteRow, Registry!Delete
    <3>3. QED
      BY <3>2 DEF Registry!Next
  <2>2. CASE i \notin Registry!SubsOf(req[r].key)
    BY <1>3, <2>2 DEF DeleteRow
  <2>3. QED
    BY <2>1, <2>2
<1>4. ASSUME NEW v \in Revokers, RevokeCommit(v) PROVE Registry!Next
  <2>1. PICK k \in Keys : k = rev[v].key
    BY <1>4 DEF RevokeCommit, IInv, RevocationProgress
  <2>2. Registry!RevokeKey(k)
    BY <1>4, <2>1, RevokeCommitFacts DEF Registry!RevokeKey
  <2>3. QED
    BY <2>2 DEF Registry!Next
<1>5. ASSUME NEW i \in Ids, NEW delivered \in BOOLEAN, RecordDelivery(i, delivered)
      PROVE  Registry!Next
  BY <1>5 DEF RecordDelivery, Registry!Next
<1>6. CASE PurgeDisabled
  BY <1>6 DEF PurgeDisabled, Registry!Next
<1>7. CASE Day
  BY <1>7 DEF Day, Registry!Next
<1>8. ASSUME NEW r \in Requests,
             \/ \E k \in Keys, op \in {"create", "delete"} : Authenticate(r, k, op)
             \/ Abort(r) \/ LockOwner(r) \/ CountOwned(r) \/ InsertRow(r)
      PROVE  UNCHANGED Registry!vars
  BY <1>8 DEF Authenticate, Abort, LockOwner, CountOwned, InsertRow
<1>9. ASSUME NEW v \in Revokers,
             \/ \E k \in Keys : RevokeLock(v, k)
             \/ RevokeDeleteSubs(v) \/ RevokeDeleteKey(v) \/ RevokeAbort(v)
      PROVE  UNCHANGED Registry!vars
  BY <1>9 DEF RevokeLock, RevokeDeleteSubs, RevokeDeleteKey, RevokeAbort
<1>10. CASE UNCHANGED vars
  BY <1>10 DEF vars
<1>11. QED
  BY <1>1, <1>2, <1>3, <1>4, <1>5, <1>6, <1>7, <1>8, <1>9, <1>10
     DEF Next, CreateStep, RevokeStep

(* The statement-by-statement store implements the one-step registry: its   *)
(* transactions are as good as atomic.                                      *)
THEOREM Refinement == Spec => ImplementsRegistry
<1>1. Init => Registry!Init
  BY DEF Init
<1>2. QED
  BY <1>1, InitInv, NextInv, StepRefines, PTL DEF Spec, ImplementsRegistry, Registry!Spec

(* A disabled subscription stays disabled, with its counter, until its row  *)
(* goes.                                                                    *)
LEMMA StepKeepsDisabled ==
    ASSUME IInv, [Next]_vars, NEW i \in Ids, Registry!Live(i), subs[i].status = "disabled"
    PROVE  \/ subs'[i] = None
           \/ /\ subs'[i].status = "disabled"
              /\ subs'[i].failures = subs[i].failures
              /\ subs'[i].owner = subs[i].owner
<1> DEFINE Kept == \/ subs'[i] = None
                   \/ /\ subs'[i].status = "disabled"
                      /\ subs'[i].failures = subs[i].failures
                      /\ subs'[i].owner = subs[i].owner
<1>1. /\ subs \in [Ids -> Registry!Row \cup {None}]
      /\ subs[i] \in Registry!Row
  BY DEF IInv, TypeOK, Registry!TypeOK, Registry!Live
<1>2. CASE UNCHANGED subs
  BY <1>2
<1>3. ASSUME NEW r \in Requests, CommitCreate(r) PROVE Kept
  BY <1>1, <1>3 DEF CommitCreate, IInv, InsertedRows, Registry!Live
<1>4. ASSUME NEW r \in Requests, NEW j \in Ids, DeleteRow(r, j) PROVE Kept
  BY <1>1, <1>4 DEF DeleteRow
<1>5. ASSUME NEW v \in Revokers, RevokeCommit(v) PROVE Kept
  BY <1>5 DEF RevokeCommit
<1>6. ASSUME NEW j \in Ids, NEW delivered \in BOOLEAN, RecordDelivery(j, delivered) PROVE Kept
  BY <1>1, <1>6 DEF RecordDelivery, Registry!RecordDelivery, Registry!Recorded
<1>7. CASE PurgeDisabled
  BY <1>7 DEF PurgeDisabled, Registry!PurgeDisabled
<1>8. CASE Day
  <2>1. subs'[i] = Registry!Aged(subs[i])
    BY <1>8 DEF Day, Registry!Day
  <2>2. QED
    BY <1>1, <2>1 DEF Registry!Aged, Registry!Row
<1>9. QED
  BY <1>2, <1>3, <1>4, <1>5, <1>6, <1>7, <1>8
     DEF Next, CreateStep, RevokeStep, InsertKey, Registry!InsertKey, Authenticate, Abort,
         LockOwner, CountOwned, InsertRow, RevokeLock, RevokeDeleteSubs, RevokeDeleteKey,
         RevokeAbort, vars

(* A subscription once disabled stays disabled, whatever deliveries, limits  *)
(* and revocations do meanwhile, until its row is deleted: webhook_mark_*.    *)
THEOREM DisabledStaysDisabled == Spec => DisabledIsFinal
<1>1. IInv /\ [Next]_vars =>
        [\A i \in Ids : (Registry!Live(i) /\ subs[i].status = "disabled") =>
          \/ subs'[i] = None
          \/ /\ subs'[i].status = "disabled"
             /\ subs'[i].failures = subs[i].failures
             /\ subs'[i].owner = subs[i].owner]_vars
  BY StepKeepsDisabled
<1>2. QED
  BY <1>1, InitInv, NextInv, PTL DEF Spec, DisabledIsFinal

(* A row disappears by its owner's request, with its key, or by the purge   *)
(* of a row disabled for long.                                              *)
LEMMA StepJustifiesRemoval ==
    ASSUME IInv, [Next]_vars, NEW i \in Ids, Registry!Live(i), subs'[i] = None
    PROVE  \/ subs[i].status = "disabled" /\ subs[i].age > PurgeDays
           \/ subs[i].owner \notin keys'
           \/ \E r \in Requests : /\ req[r].pc = "delete" /\ req[r].key = subs[i].owner
                                  /\ req'[r].pc = "idle"
<1> DEFINE Justified ==
       \/ subs[i].status = "disabled" /\ subs[i].age > PurgeDays
       \/ subs[i].owner \notin keys'
       \/ \E r \in Requests : /\ req[r].pc = "delete" /\ req[r].key = subs[i].owner
                              /\ req'[r].pc = "idle"
<1>1. /\ subs \in [Ids -> Registry!Row \cup {None}] /\ subs[i] \in Registry!Row
      /\ subs[i] # None /\ None \notin Registry!Row
      /\ Consistent(subs[i])
  BY StoreAssumption
     DEF IInv, TypeOK, Registry!TypeOK, Registry!Live, CounterConsistent, Consistent
<1>2. CASE UNCHANGED subs
  BY <1>1, <1>2
<1>3. ASSUME NEW r \in Requests, CommitCreate(r) PROVE Justified
  <2>1. PICK k \in Keys, j \in Ids : k = req[r].key /\ j = req[r].id /\ subs[j] = None
    BY <1>3 DEF CommitCreate, IInv, InsertedRows
  <2>2. subs'[i] = subs[i]
    BY <1>1, <1>3, <2>1 DEF CommitCreate
  <2> QED  BY <1>1, <2>2
<1>4. ASSUME NEW r \in Requests, NEW j \in Ids, DeleteRow(r, j) PROVE Justified
  <2>1. i = j /\ j \in Registry!SubsOf(req[r].key)
    BY <1>1, <1>4 DEF DeleteRow
  <2>2. req[r].key = subs[i].owner
    BY <2>1 DEF Registry!SubsOf
  <2>3. req'[r].pc = "idle"
    BY <1>4 DEF DeleteRow, Idle, Tx, IInv, TypeOK
  <2> QED  BY <1>4, <2>2, <2>3 DEF DeleteRow
<1>5. ASSUME NEW v \in Revokers, RevokeCommit(v) PROVE Justified
  <2>1. rev[v].removed = Registry!SubsOf(rev[v].key) /\ rev[v].cascaded = {}
    BY <1>5 DEF RevokeCommit, IInv, RevocationCountExact
  <2>2. i \in Registry!SubsOf(rev[v].key)
    BY <1>1, <1>5, <2>1 DEF RevokeCommit
  <2>3. subs[i].owner = rev[v].key
    BY <2>2 DEF Registry!SubsOf
  <2> QED  BY <1>5, <2>3 DEF RevokeCommit
<1>6. ASSUME NEW j \in Ids, NEW delivered \in BOOLEAN, RecordDelivery(j, delivered) PROVE Justified
  <2>1. Registry!Recorded(subs[i], delivered) # None
    BY <1>1, RowOperators
  <2>2. subs' = IF Registry!Live(j)
                THEN [subs EXCEPT ![j] = Registry!Recorded(subs[j], delivered)] ELSE subs
    BY <1>6 DEF RecordDelivery, Registry!RecordDelivery
  <2> QED  BY <1>1, <2>1, <2>2
<1>7. CASE PurgeDisabled
  <2>1. Registry!Purgeable(subs[i])
    BY <1>1, <1>7 DEF PurgeDisabled, Registry!PurgeDisabled
  <2> QED  BY <2>1 DEF Registry!Purgeable
<1>8. CASE Day
  <2>1. subs'[i] = Registry!Aged(subs[i])
    BY <1>8 DEF Day, Registry!Day, Registry!Live
  <2>2. Registry!Aged(subs[i]) # None
    BY <1>1, RowOperators
  <2> QED  BY <2>1, <2>2
<1>9. QED
  BY <1>2, <1>3, <1>4, <1>5, <1>6, <1>7, <1>8
     DEF Next, CreateStep, RevokeStep, InsertKey, Registry!InsertKey, Authenticate, Abort,
         LockOwner, CountOwned, InsertRow, RevokeLock, RevokeDeleteSubs, RevokeDeleteKey,
         RevokeAbort, vars

(* Whatever requests, revocations and purges interleave, no subscription    *)
(* disappears for another reason.                                           *)
THEOREM RemovalJustified == Spec => OnlyJustifiedRemoval
<1>1. IInv /\ [Next]_vars =>
        [\A i \in Ids : (Registry!Live(i) /\ subs'[i] = None) =>
          \/ subs[i].status = "disabled" /\ subs[i].age > PurgeDays
          \/ subs[i].owner \notin keys'
          \/ \E r \in Requests : /\ req[r].pc = "delete" /\ req[r].key = subs[i].owner
                                 /\ req'[r].pc = "idle"]_vars
  BY StepJustifiesRemoval
<1>2. QED
  BY <1>1, InitInv, NextInv, PTL DEF Spec, OnlyJustifiedRemoval
=============================================================================
