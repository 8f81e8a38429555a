------------------------- MODULE MeasurementStoreProofs -------------------------
(***************************************************************************)
(* Proofs about MeasurementStore, for any number of instants and writers;  *)
(* about the visits of SideTables, for any number of requests; and about   *)
(* what one statement of MeasurementBatch or SideTables leaves, for a      *)
(* batch of any length.                                                    *)
(***************************************************************************)
EXTENDS MCMeasurementStore, Sequences, FiniteSetTheorems, WellFoundedInduction, TLAPS

(* The upsert of a row: either the new row, whose vintage is not worse, or  *)
(* the old one.                                                             *)
LEMMA UpsertedRow ==
    ASSUME NEW old \in Register!Row \cup {None}, NEW new \in Register!Row \cup {None}
    PROVE  /\ Register!Upserted(old, new) \in Register!Row \cup {None}
           /\ old # None => /\ Register!Upserted(old, new) # None
                            /\ Register!Upserted(old, new).vintage >= old.vintage
  BY MeasurementAssumption DEF Register!Upserted, Register!Accepts, Register!Row,
     Register!Vintages, Register!Tr, Register!Consolidated, Register!Definitive

(* The upsert of a paired batch over a paired table leaves a paired table:  *)
(* the rows of an instant are replaced together, or the one that stays is   *)
(* the better one.                                                          *)
LEMMA UpsertKeepsPairs ==
    ASSUME NEW held \in [Keys -> Register!Row \cup {None}], Register!Paired(held),
           NEW b \in Register!Batch
    PROVE  Register!Paired([k \in Keys |-> Register!Upserted(held[k], b[k])])
<1> DEFINE after == [k \in Keys |-> Register!Upserted(held[k], b[k])]
<1> SUFFICES ASSUME NEW p \in Points
             PROVE  /\ Register!Acv(after, p) # None =>
                          /\ Register!Rte(after, p) # None
                          /\ Register!Acv(after, p).vintage <= Register!Rte(after, p).vintage
                    /\ Register!Derived(Register!Rte(after, p)) # None =>
                          Register!Acv(after, p) = Register!Derived(Register!Rte(after, p))
    BY DEF Register!Paired
<1> DEFINE r == held[<<p, "rte-direct">>]
           a == held[<<p, "acv-ademe">>]
           br == b[<<p, "rte-direct">>]
           ba == b[<<p, "acv-ademe">>]
<1>1. <<p, "rte-direct">> \in Keys /\ <<p, "acv-ademe">> \in Keys
    BY DEF Keys, Register!Keys, Register!Methods
<1>2. /\ {r, a, br, ba} \subseteq Register!Row \cup {None}
      /\ Register!Rte(after, p) = Register!Upserted(r, br)
      /\ Register!Acv(after, p) = Register!Upserted(a, ba)
    BY <1>1 DEF Register!Batch, Register!Rte, Register!Acv, Keys
<1>3. /\ a # None => r # None /\ a.vintage <= r.vintage
      /\ Register!Derived(r) # None => a = Register!Derived(r)
      /\ ba # None => br # None /\ ba.vintage <= br.vintage
      /\ Register!Derived(br) # None => ba = Register!Derived(br)
    BY DEF Register!Paired, Register!Batch, Register!Rte, Register!Acv
<1> HIDE DEF r, a, br, ba, after
<1>4. /\ \A row \in Register!Row : row # None /\ row.vintage \in Nat
      /\ Register!Derived(r) \in {r, None} /\ Register!Derived(br) \in {br, None}
    BY MeasurementAssumption DEF Register!Row, Register!Vintages, Register!Tr,
       Register!Consolidated, Register!Definitive, Register!Derived
<1>5. CASE br = None \/ (r # None /\ ~(br.vintage >= r.vintage))
  <2>1. Register!Upserted(r, br) = r
      BY <1>5 DEF Register!Upserted, Register!Accepts
  <2>2. CASE Register!Upserted(a, ba) = a
      BY <1>2, <1>3, <2>1, <2>2
  <2>3. CASE Register!Upserted(a, ba) # a
    <3>1. /\ ba # None /\ br # None /\ r # None
          /\ Register!Upserted(a, ba) = ba
          /\ a # None => ba.vintage >= a.vintage
        BY <1>3, <1>5, <2>3 DEF Register!Upserted, Register!Accepts
    <3>2. ba.vintage < r.vintage
        BY <1>2, <1>3, <1>4, <1>5, <3>1
    <3>3. Register!Derived(r) = None
        BY <1>2, <1>3, <1>4, <3>1, <3>2
    <3> QED BY <1>2, <1>4, <2>1, <3>1, <3>2, <3>3
  <2> QED BY <2>2, <2>3
<1>6. CASE br # None /\ (r # None => br.vintage >= r.vintage)
  <2>1. Register!Upserted(r, br) = br
      BY <1>6 DEF Register!Upserted, Register!Accepts
  <2>2. Register!Upserted(a, ba) # None =>
            Register!Upserted(a, ba).vintage <= br.vintage
      BY <1>2, <1>3, <1>4, <1>6 DEF Register!Upserted
  <2>3. Register!Derived(br) # None => Register!Upserted(a, ba) = Register!Derived(br)
      BY <1>2, <1>3, <1>4, <1>6 DEF Register!Upserted, Register!Accepts
  <2> QED BY <1>2, <1>6, <2>1, <2>2, <2>3
<1> QED BY <1>5, <1>6

-----------------------------------------------------------------------------
(* What an open transaction commits is the one-step upsert of its batch. *)
LEMMA CommitIsIngest ==
    ASSUME IInv, NEW w \in Writers, Commit(w)
    PROVE  /\ tx[w].batch \in Register!Batch
           /\ Register!Ingest(tx[w].batch)
<1>1. tx[w].batch \in Register!Batch
    BY DEF IInv, TypeOK, TxState
<1>2. \A k \in Keys : k \in tx[w].locked <=> tx[w].batch[k] # None
    BY DEF Commit
<1>3. \A k \in Keys :
         (IF k \in tx[w].locked THEN tx[w].rows[k] ELSE stored[k])
             = Register!Upserted(stored[k], tx[w].batch[k])
    BY <1>2 DEF IInv, PreparedCurrent, Register!Upserted
<1> QED BY <1>1, <1>3 DEF Commit, Register!Ingest, Keys

LEMMA IdleState == Idle \in TxState
<1>1. NoRows \in [Keys -> Register!Row \cup {None}]
    BY DEF NoRows
<1>2. Register!Paired(NoRows)
    BY DEF Register!Paired, NoRows, Register!Rte, Register!Acv, Register!Derived, Keys,
       Register!Keys, Register!Methods
<1> QED BY <1>1, <1>2 DEF Idle, Tx, TxState, Register!Batch, Keys

LEMMA InvInit == Init => IInv
<1> SUFFICES ASSUME Init PROVE IInv
    OBVIOUS
<1>1. TypeOK
    BY IdleState DEF Init, Register!Init, TypeOK, Keys
<1>2. LocksExclude /\ PreparedCurrent
    BY DEF Init, LocksExclude, PreparedCurrent, Idle, Tx
<1>3. AcvMatchesRte
    BY DEF Init, Register!Init, AcvMatchesRte, Register!Paired, Register!Rte, Register!Acv,
       Register!Derived, Keys, Register!Keys, Register!Methods
<1> QED BY <1>1, <1>2, <1>3 DEF IInv

(* A step that leaves the table alone and gives one writer a state in which *)
(* its locks are its own and its prepared rows are current.                 *)
LEMMA TxStep ==
    ASSUME IInv, NEW w \in Writers, NEW t \in TxState,
           UNCHANGED stored, tx' = [tx EXCEPT ![w] = t],
           \A k \in t.locked : /\ ~LockedByOther(w, k)
                               /\ t.batch[k] # None
                               /\ t.rows[k] = Register!Upserted(stored[k], t.batch[k])
    PROVE  IInv'
<1>1. tx \in [Writers -> TxState] /\ stored \in [Keys -> Register!Row \cup {None}]
    BY DEF IInv, TypeOK
<1>2. /\ tx'[w] = t
      /\ \A v \in Writers \ {w} : tx'[v] = tx[v]
    BY <1>1
<1>3. TypeOK'
    BY <1>1 DEF TypeOK, TxState
<1>4. LocksExclude'
    BY <1>2 DEF IInv, LocksExclude, LockedByOther
<1>5. PreparedCurrent'
    BY <1>2 DEF IInv, PreparedCurrent
<1>6. AcvMatchesRte'
    BY DEF IInv, AcvMatchesRte, Register!Paired, Register!Rte, Register!Acv
<1> QED BY <1>3, <1>4, <1>5, <1>6 DEF IInv

LEMMA CommitStep ==
    ASSUME IInv, NEW w \in Writers, Commit(w)
    PROVE  IInv'
<1>1. /\ tx \in [Writers -> TxState]
      /\ stored \in [Keys -> Register!Row \cup {None}]
    BY DEF IInv, TypeOK
<1>2. /\ tx'[w] = Idle
      /\ \A v \in Writers \ {w} : tx'[v] = tx[v]
    BY <1>1 DEF Commit
<1>3. tx[w].batch \in Register!Batch /\ Register!Ingest(tx[w].batch)
    BY CommitIsIngest
<1>4. TypeOK'
  <2>1. tx' \in [Writers -> TxState]
      BY <1>1, <1>2, IdleState DEF Commit
  <2>2. \A k \in Keys : Register!Upserted(stored[k], tx[w].batch[k]) \in Register!Row \cup {None}
      BY <1>1, <1>3, UpsertedRow DEF Register!Batch, Keys
  <2> QED BY <1>3, <2>1, <2>2 DEF TypeOK, Register!Ingest, Keys
<1>5. LocksExclude'
    BY <1>2 DEF IInv, LocksExclude, Idle, Tx
<1>6. PreparedCurrent'
  <2> SUFFICES ASSUME NEW v \in Writers, NEW k \in Keys, k \in tx'[v].locked
               PROVE  /\ tx'[v].batch[k] # None
                      /\ tx'[v].rows[k] = Register!Upserted(stored'[k], tx'[v].batch[k])
      BY DEF PreparedCurrent
  <2>1. v # w /\ tx'[v] = tx[v]
      BY <1>2 DEF Idle, Tx
  <2>2. k \notin tx[w].locked
      BY <2>1 DEF IInv, LocksExclude
  <2>3. stored'[k] = stored[k]
      BY <2>2 DEF Commit
  <2> QED BY <2>1, <2>3 DEF IInv, PreparedCurrent
<1>7. AcvMatchesRte'
  <2>1. Register!Paired(stored)
      BY DEF IInv, AcvMatchesRte
  <2>2. Register!Paired([k \in Keys |-> Register!Upserted(stored[k], tx[w].batch[k])])
      BY <1>1, <1>3, <2>1, UpsertKeepsPairs
  <2>3. stored' = [k \in Keys |-> Register!Upserted(stored[k], tx[w].batch[k])]
      BY <1>3 DEF Register!Ingest, Keys
  <2>4. Register!Paired(stored')
      BY <2>2, <2>3
  <2> QED BY <2>4 DEF AcvMatchesRte, Register!Paired, Register!Rte, Register!Acv
<1> QED BY <1>4, <1>5, <1>6, <1>7 DEF IInv

LEMMA InvNext == IInv /\ [Next]_vars => IInv'
<1> SUFFICES ASSUME IInv, [Next]_vars PROVE IInv'
    OBVIOUS
<1>1. tx \in [Writers -> TxState]
    BY DEF IInv, TypeOK
<1>2. ASSUME NEW w \in Writers, NEW b \in Register!Batch, Begin(w, b) PROVE IInv'
  <2> DEFINE t == Tx("open", b, {}, NoRows)
  <2>1. t \in TxState
      BY DEF Tx, TxState, NoRows
  <2>2. UNCHANGED stored /\ tx' = [tx EXCEPT ![w] = t] /\ t.locked = {}
      BY <1>2 DEF Begin, Tx
  <2> HIDE DEF t
  <2> QED BY <2>1, <2>2, TxStep
<1>3. ASSUME NEW w \in Writers, NEW k \in Keys, UpsertRow(w, k) PROVE IInv'
  <2> DEFINE prepared == [tx[w].rows EXCEPT ![k] = Register!Upserted(stored[k], tx[w].batch[k])]
             t == Tx("open", tx[w].batch, tx[w].locked \cup {k}, prepared)
  <2>1. /\ tx[w].batch \in Register!Batch
        /\ tx[w].batch[k] \in Register!Row \cup {None}
        /\ stored[k] \in Register!Row \cup {None}
      BY DEF IInv, TypeOK, TxState, Register!Batch, Keys
  <2>2. prepared \in [Keys -> Register!Row \cup {None}]
      BY <1>1, <2>1, UpsertedRow DEF TxState
  <2>3. t \in TxState
      BY <1>1, <2>1, <2>2 DEF Tx, TxState
  <2>4. \A l \in t.locked :
            /\ ~LockedByOther(w, l)
            /\ t.batch[l] # None
            /\ t.rows[l] = Register!Upserted(stored[l], t.batch[l])
    <3> SUFFICES ASSUME NEW l \in tx[w].locked \cup {k}
                 PROVE  /\ ~LockedByOther(w, l)
                        /\ tx[w].batch[l] # None
                        /\ prepared[l] = Register!Upserted(stored[l], tx[w].batch[l])
        BY DEF Tx
    <3>1. tx[w].rows \in [Keys -> Register!Row \cup {None}] /\ tx[w].locked \subseteq Keys
        BY <1>1 DEF TxState
    <3>2. CASE l = k
        BY <1>3, <3>1, <3>2 DEF UpsertRow
    <3>3. CASE l # k
      <4>1. l \in tx[w].locked /\ l \in Keys
          BY <3>1, <3>3
      <4>2. tx[w].batch[l] # None /\ tx[w].rows[l] = Register!Upserted(stored[l], tx[w].batch[l])
          BY <4>1 DEF IInv, PreparedCurrent
      <4>3. ~LockedByOther(w, l)
          BY <4>1 DEF IInv, LocksExclude, LockedByOther
      <4> QED BY <3>1, <3>3, <4>2, <4>3
    <3> QED BY <3>2, <3>3
  <2>5. UNCHANGED stored /\ tx' = [tx EXCEPT ![w] = t]
      BY <1>3 DEF UpsertRow
  <2> HIDE DEF t
  <2> QED BY <2>3, <2>4, <2>5, TxStep
<1>4. ASSUME NEW w \in Writers, Commit(w) PROVE IInv'
    BY <1>4, CommitStep
<1>5. ASSUME NEW w \in Writers, Abort(w) PROVE IInv'
  <2>1. UNCHANGED stored /\ tx' = [tx EXCEPT ![w] = Idle] /\ Idle.locked = {}
      BY <1>5 DEF Abort, Idle, Tx
  <2> QED BY <2>1, IdleState, TxStep
<1>6. CASE UNCHANGED vars
    BY <1>6 DEF vars, IInv, TypeOK, LocksExclude, PreparedCurrent, AcvMatchesRte,
       Register!Paired, Register!Rte, Register!Acv
<1> QED BY <1>2, <1>3, <1>4, <1>5, <1>6 DEF Next

-----------------------------------------------------------------------------
(* The table and the open transactions keep their shape. *)
THEOREM TypeCorrect == Spec => []TypeOK
<1>1. IInv => TypeOK
    BY DEF IInv
<1> QED BY <1>1, InvInit, InvNext, PTL DEF Spec

(* The derived series never contradicts the direct one, however the         *)
(* transactions of any number of writers interleave and fail.               *)
THEOREM PairsAgree == Spec => []AcvMatchesRte
<1>1. IInv => AcvMatchesRte
    BY DEF IInv
<1> QED BY <1>1, InvInit, InvNext, PTL DEF Spec

(* The transactions implement the one-step upsert. *)
THEOREM Refinement == Spec => ImplementsRegister
<1>1. Init => Register!Init
    BY DEF Init
<1>2. IInv /\ [Next]_vars => [Register!Next]_stored
  <2> SUFFICES ASSUME IInv, [Next]_vars PROVE Register!Next \/ UNCHANGED stored
      OBVIOUS
  <2>1. ASSUME NEW w \in Writers, Commit(w) PROVE Register!Next
      BY <2>1, CommitIsIngest DEF Register!Next
  <2> QED BY <2>1 DEF Next, Begin, UpsertRow, Abort, vars
<1> QED BY <1>1, <1>2, InvInit, InvNext, PTL DEF Spec, ImplementsRegister, Register!Spec

(* No writer lowers the vintage of a row or removes it. *)
THEOREM VintagesRise == Spec => VintageNeverDown
<1>1. ASSUME IInv, [Next]_vars, NEW k \in Keys, stored[k] # None
      PROVE  stored'[k] # None /\ stored'[k].vintage >= stored[k].vintage
  <2>1. stored[k] \in Register!Row
      BY <1>1 DEF IInv, TypeOK
  <2>2. CASE UNCHANGED stored
      BY <1>1, <2>1, <2>2 DEF Register!Row, Register!Vintages, Register!Tr,
         Register!Consolidated, Register!Definitive
  <2>3. ASSUME NEW w \in Writers, Commit(w)
        PROVE  stored'[k] # None /\ stored'[k].vintage >= stored[k].vintage
    <3>1. tx[w].batch \in Register!Batch /\ Register!Ingest(tx[w].batch)
        BY <1>1, <2>3, CommitIsIngest
    <3>2. stored'[k] = Register!Upserted(stored[k], tx[w].batch[k])
        BY <3>1 DEF Register!Ingest, Keys
    <3>3. tx[w].batch[k] \in Register!Row \cup {None}
        BY <3>1 DEF Register!Batch, Keys
    <3> QED BY <1>1, <2>1, <3>2, <3>3, UpsertedRow
  <2> QED BY <1>1, <2>2, <2>3 DEF Next, Begin, UpsertRow, Abort, vars
<1>2. IInv /\ [Next]_vars =>
          [\A k \in Keys : stored[k] # None =>
              stored'[k] # None /\ stored'[k].vintage >= stored[k].vintage]_vars
    BY <1>1
<1> QED BY <1>2, InvInit, InvNext, PTL DEF Spec, VintageNeverDown

-----------------------------------------------------------------------------
(* The visits.  What is told, kept or memorised was counted over rows that  *)
(* are still there; for a request that has just inserted its row, over rows *)
(* of which its own is one, because a row is inserted in a statement of its *)
(* own, before the count.                                                    *)
CountsOf(rows_) == {Side!visit_stats(V) : V \in SUBSET rows_}

CountedWith(row, stats) == \E V \in SUBSET visited : row \in V /\ stats = Side!visit_stats(V)

VisitRequest ==
    [pc : {"known", "count", "keep"}, row : Visitors \X Days, new : BOOLEAN, stats : CountsOf(Visitors \X Days)]

RequestInv(r) ==
    /\ r.pc # "idle" => r.row \in visited
    /\ r.pc = "known" => ~r.new
    /\ r.pc = "keep" => CountedWith(r.row, r.stats)

VisitInv ==
    /\ visited \subseteq Visitors \X Days /\ IsFiniteSet(visited)
    /\ visit \in [Visits -> {Side!Absent} \cup VisitRequest]
    /\ \A q \in Visits : RequestInv(visit[q])
    /\ memo \subseteq CountsOf(visited)
    /\ \A t \in told : t.stats \in CountsOf(visited) /\ (t.new => CountedWith(t.row, t.stats))

LEMMA SameCardinality == \A S : Side!Cardinality(S) = Cardinality(S)
BY DEF Side!Cardinality, Cardinality

LEMMA StatsBounded ==
    ASSUME NEW V, IsFiniteSet(V)
    PROVE  /\ Side!visit_stats(V).total = Cardinality(V) /\ Cardinality(V) \in Nat
           /\ Side!visit_stats(V).unique <= Cardinality(V)
<1> DEFINE first == {row[1] : row \in V}
<1>1. Side!visit_stats(V).total = Cardinality(V) /\ Side!visit_stats(V).unique = Cardinality(first)
  BY SameCardinality DEF Side!visit_stats
<1>2. [row \in V |-> row[1]] \in Surjection(V, first)  BY DEF Surjection
<1>3. Cardinality(first) <= Cardinality(V)  BY <1>2, FS_Surjection
<1> QED  BY <1>1, <1>3, FS_CardinalityType

LEMMA VisitsAreCounted == VisitInv => VisitCounted
<1> SUFFICES ASSUME VisitInv, NEW t \in told
             PROVE  /\ t.stats.total <= Cardinality(visited) /\ t.stats.unique <= t.stats.total
                    /\ t.new => /\ t.stats.total > 0
                                /\ \E before \in SUBSET (visited \ {t.row}) :
                                     t.stats = Side!visit_stats(before \cup {t.row})
  <2>1. VisitCounted <=> \A t \in told :
           /\ t.stats.total <= Cardinality(visited) /\ t.stats.unique <= t.stats.total
           /\ t.new => /\ t.stats.total > 0
                       /\ \E before \in SUBSET (visited \ {t.row}) :
                            t.stats = Side!visit_stats(before \cup {t.row})
    BY SameCardinality DEF VisitCounted, Side!VisitCounted
  <2> QED  BY <2>1, Zenon
<1>1. PICK V \in SUBSET visited : t.stats = Side!visit_stats(V)  BY DEF VisitInv, CountsOf
<1>2. IsFiniteSet(V) /\ Cardinality(V) <= Cardinality(visited)  BY <1>1, FS_Subset DEF VisitInv
<1>3. t.stats.total <= Cardinality(visited) /\ t.stats.unique <= t.stats.total
  BY <1>1, <1>2, StatsBounded
<1>4. ASSUME t.new
      PROVE  /\ t.stats.total > 0
             /\ \E before \in SUBSET (visited \ {t.row}) : t.stats = Side!visit_stats(before \cup {t.row})
  <2>1. PICK W \in SUBSET visited : t.row \in W /\ t.stats = Side!visit_stats(W)
    BY <1>4 DEF VisitInv, CountedWith
  <2>2. IsFiniteSet(W) /\ W # {}  BY <2>1, FS_Subset DEF VisitInv
  <2>3. Cardinality(W) # 0 /\ Cardinality(W) \in Nat  BY <2>2, FS_EmptySet, FS_CardinalityType
  <2>4. W \ {t.row} \in SUBSET (visited \ {t.row}) /\ (W \ {t.row}) \cup {t.row} = W  BY <2>1
  <2>5. t.stats.total > 0  BY <2>1, <2>2, <2>3, StatsBounded
  <2>6. t.stats = Side!visit_stats((W \ {t.row}) \cup {t.row})  BY <2>1, <2>4
  <2> QED  BY <2>4, <2>5, <2>6
<1> QED  BY <1>3, <1>4

LEMMA CountsGrow ==
    ASSUME NEW X, NEW Y, X \subseteq Y
    PROVE  CountsOf(X) \subseteq CountsOf(Y)
BY DEF CountsOf

LEMMA VisitsInit == Side!Init => VisitInv
<1> SUFFICES ASSUME Side!Init PROVE VisitInv  OBVIOUS
<1>1. visited = {} /\ memo = {} /\ told = {} /\ visit = [q \in Visits |-> Side!Absent]
  BY DEF Side!Init
<1>2. Side!Absent.pc = "idle"  BY DEF Side!Absent
<1> QED  BY <1>1, <1>2, FS_EmptySet DEF VisitInv, RequestInv

LEMMA InsertInv == ASSUME VisitInv, NEW q \in Visits, Side!Insert(q) PROVE VisitInv'
<1>1. PICK row \in Visitors \X Days :
         /\ visited' = visited \cup {row}
         /\ visit' = [visit EXCEPT ![q] =
              [pc |-> IF row \in visited THEN "known" ELSE "count", row |-> row,
               new |-> row \notin visited, stats |-> Side!visit_stats({})]]
  BY DEF Side!Insert
<1>2. PICK new \in BOOLEAN : new = (row \notin visited)
  <2>1. CASE row \in visited
    <3>1. (row \notin visited) = FALSE  BY <2>1
    <3> QED  BY <3>1
  <2>2. CASE row \notin visited
    <3>1. (row \notin visited) = TRUE  BY <2>2
    <3> QED  BY <3>1
  <2> QED  BY <2>1, <2>2
<1>3. PICK r : r = [pc |-> IF row \in visited THEN "known" ELSE "count", row |-> row,
                    new |-> new, stats |-> Side!visit_stats({})]
  OBVIOUS
<1>4. visit' = [visit EXCEPT ![q] = r]  BY <1>1, <1>2, <1>3
<1>5. r \in VisitRequest
  <2>1. Side!visit_stats({}) \in CountsOf(Visitors \X Days)  BY DEF CountsOf
  <2> QED  BY <1>3, <2>1 DEF VisitRequest
<1>6. visited \subseteq visited'  BY <1>1
<1>7. visited' \subseteq Visitors \X Days /\ IsFiniteSet(visited')  BY <1>1, FS_AddElement DEF VisitInv
<1>8. visit' \in [Visits -> {Side!Absent} \cup VisitRequest]  BY <1>4, <1>5 DEF VisitInv
<1>9. ASSUME NEW p \in Visits  PROVE (RequestInv(visit[p]))'
  <2>1. CASE p = q
    <3>1. visit'[p] = r  BY <1>4, <2>1 DEF VisitInv
    <3>2. r.row \in visited' /\ r.pc # "keep" /\ (r.pc = "known" => ~r.new)  BY <1>1, <1>2, <1>3
    <3> QED  BY <3>1, <3>2 DEF RequestInv
  <2>2. CASE p # q
    <3>1. visit'[p] = visit[p] /\ RequestInv(visit[p])  BY <1>4, <2>2 DEF VisitInv
    <3> QED  BY <1>6, <3>1 DEF RequestInv, CountedWith
  <2> QED  BY <2>1, <2>2
<1>10. memo' \subseteq CountsOf(visited') /\ told' = {}
  BY <1>6, CountsGrow DEF Side!Insert, VisitInv
<1> QED  BY <1>7, <1>8, <1>9, <1>10 DEF VisitInv

LEMMA AnswerMemoInv == ASSUME VisitInv, NEW q \in Visits, Side!AnswerMemo(q) PROVE VisitInv'
<1>1. visit[q].pc = "known" /\ UNCHANGED <<visited, memo>>  BY DEF Side!AnswerMemo
<1>2. visit[q] \in VisitRequest /\ ~visit[q].new /\ RequestInv(visit[q])
  BY <1>1 DEF VisitInv, Side!Absent, RequestInv
<1>3. CASE memo # {}
  <2>1. /\ visit' = [visit EXCEPT ![q] = Side!Absent]
        /\ told' = {[row |-> visit[q].row, new |-> visit[q].new, stats |-> s] : s \in memo}
    BY <1>3 DEF Side!AnswerMemo
  <2>2. \A t \in told' : t.stats \in CountsOf(visited) /\ ~t.new
    BY <1>2, <2>1 DEF VisitInv
  <2>3. \A p \in Visits : visit'[p] = Side!Absent \/ visit'[p] = visit[p]  BY <2>1 DEF VisitInv
  <2>4. visit' \in [Visits -> {Side!Absent} \cup VisitRequest]  BY <2>1 DEF VisitInv
  <2>5. \A p \in Visits : (RequestInv(visit[p]))'
    BY <1>1, <2>3 DEF VisitInv, RequestInv, CountedWith, Side!Absent
  <2> QED  BY <1>1, <2>2, <2>4, <2>5 DEF VisitInv
<1>4. CASE memo = {}
  <2>1. visit' = [visit EXCEPT ![q].pc = "count"] /\ told' = {}  BY <1>4 DEF Side!AnswerMemo
  <2>2. PICK r : r = [visit[q] EXCEPT !.pc = "count"]  OBVIOUS
  <2>3. r \in VisitRequest /\ r.pc = "count" /\ r.row = visit[q].row  BY <1>2, <2>2 DEF VisitRequest
  <2>4. visit' = [visit EXCEPT ![q] = r]  BY <2>1, <2>2
  <2>5. visit' \in [Visits -> {Side!Absent} \cup VisitRequest]  BY <2>3, <2>4 DEF VisitInv
  <2>6. ASSUME NEW p \in Visits  PROVE (RequestInv(visit[p]))'
    <3>1. CASE p = q
      <4>1. visit'[p] = r  BY <2>4, <3>1 DEF VisitInv
      <4>2. r.row \in visited  BY <1>1, <1>2, <2>3 DEF RequestInv
      <4> QED  BY <1>1, <2>3, <4>1, <4>2 DEF RequestInv
    <3>2. CASE p # q
      <4>1. visit'[p] = visit[p] /\ RequestInv(visit[p])  BY <2>4, <3>2 DEF VisitInv
      <4> QED  BY <1>1, <4>1 DEF RequestInv, CountedWith
    <3> QED  BY <3>1, <3>2
  <2> QED  BY <1>1, <2>1, <2>5, <2>6 DEF VisitInv
<1> QED  BY <1>3, <1>4

LEMMA CountInv == ASSUME VisitInv, NEW q \in Visits, Side!Count(q) PROVE VisitInv'
<1>1. /\ visit[q].pc = "count" /\ UNCHANGED <<visited, memo>> /\ told' = {}
      /\ visit' = [visit EXCEPT ![q].pc = "keep", ![q].stats = Side!visit_stats(visited)]
  BY DEF Side!Count
<1>2. visit[q] \in VisitRequest /\ visit[q].row \in visited
  BY <1>1 DEF VisitInv, Side!Absent, RequestInv
<1>3. PICK r : r = [visit[q] EXCEPT !.pc = "keep", !.stats = Side!visit_stats(visited)]  OBVIOUS
<1>4. visit' = [visit EXCEPT ![q] = r]  BY <1>1, <1>3
<1>5. /\ r \in VisitRequest /\ r.pc = "keep" /\ r.row = visit[q].row
      /\ r.stats = Side!visit_stats(visited)
  <2>1. Side!visit_stats(visited) \in CountsOf(Visitors \X Days)  BY DEF VisitInv, CountsOf
  <2> QED  BY <1>2, <1>3, <2>1 DEF VisitRequest
<1>6. visit' \in [Visits -> {Side!Absent} \cup VisitRequest]  BY <1>4, <1>5 DEF VisitInv
<1>7. ASSUME NEW p \in Visits  PROVE (RequestInv(visit[p]))'
  <2>1. CASE p = q
    <3>1. visit'[p] = r  BY <1>4, <2>1 DEF VisitInv
    <3>2. CountedWith(r.row, r.stats)  BY <1>2, <1>5 DEF CountedWith
    <3> QED  BY <1>1, <1>2, <1>5, <3>1, <3>2 DEF RequestInv, CountedWith
  <2>2. CASE p # q
    <3>1. visit'[p] = visit[p] /\ RequestInv(visit[p])  BY <1>4, <2>2 DEF VisitInv
    <3>2. PICK other : other = visit[p]  OBVIOUS
    <3>3. RequestInv(other) => (RequestInv(other))'  BY <1>1 DEF RequestInv, CountedWith
    <3> QED  BY <3>1, <3>2, <3>3
  <2> QED  BY <2>1, <2>2
<1> QED  BY <1>1, <1>6, <1>7 DEF VisitInv

(* A request that ends leaves the others as they were. *)
LEMMA RequestEnds ==
    ASSUME VisitInv, NEW q \in Visits, visit' = [visit EXCEPT ![q] = Side!Absent], visited' = visited
    PROVE  /\ visit' \in [Visits -> {Side!Absent} \cup VisitRequest]
           /\ \A p \in Visits : (RequestInv(visit[p]))'
<1>1. visit' \in [Visits -> {Side!Absent} \cup VisitRequest]  BY DEF VisitInv
<1>2. \A p \in Visits : visit'[p] = Side!Absent \/ visit'[p] = visit[p]  BY DEF VisitInv
<1> QED  BY <1>1, <1>2 DEF VisitInv, RequestInv, CountedWith, Side!Absent

LEMMA KeepInv == ASSUME VisitInv, NEW q \in Visits, Side!Keep(q) PROVE VisitInv'
<1>1. /\ visit[q].pc = "keep" /\ memo' = {visit[q].stats} /\ visited' = visited
      /\ told' = {[row |-> visit[q].row, new |-> visit[q].new, stats |-> visit[q].stats]}
      /\ visit' = [visit EXCEPT ![q] = Side!Absent]
  BY DEF Side!Keep
<1>2. CountedWith(visit[q].row, visit[q].stats)  BY <1>1 DEF VisitInv, RequestInv
<1>3. visit[q].stats \in CountsOf(visited)  BY <1>2 DEF CountedWith, CountsOf
<1>4. ASSUME NEW t \in told'
      PROVE  t.stats \in CountsOf(visited) /\ CountedWith(t.row, t.stats)
  <2>1. t.stats = visit[q].stats /\ t.row = visit[q].row  BY <1>1
  <2> QED  BY <1>2, <1>3, <2>1
<1>5. \A t \in told' : t.stats \in CountsOf(visited') /\ (t.new => (\E V \in SUBSET visited' :
         t.row \in V /\ t.stats = Side!visit_stats(V)))
  BY <1>1, <1>4 DEF CountedWith
<1>6. /\ visit' \in [Visits -> {Side!Absent} \cup VisitRequest]
      /\ \A p \in Visits : (RequestInv(visit[p]))'
  BY <1>1, RequestEnds
<1> QED  BY <1>1, <1>3, <1>5, <1>6 DEF VisitInv, CountedWith

LEMMA FailInv == ASSUME VisitInv, NEW q \in Visits, Side!Fail(q) PROVE VisitInv'
<1>1. visit' = [visit EXCEPT ![q] = Side!Absent] /\ told' = {} /\ UNCHANGED <<visited, memo>>
  BY DEF Side!Fail
<1> QED  BY <1>1, RequestEnds DEF VisitInv

LEMMA RestartInv == ASSUME VisitInv, Side!Restart PROVE VisitInv'
<1>1. visit' = [q \in Visits |-> Side!Absent] /\ memo' = {} /\ told' = {} /\ visited' = visited
  BY DEF Side!Restart
<1> QED  BY <1>1 DEF VisitInv, RequestInv, Side!Absent

LEMMA VisitsNext == VisitInv /\ [Side!Next]_Side!vars => VisitInv'
<1> SUFFICES ASSUME VisitInv, [Side!Next]_Side!vars PROVE VisitInv'  OBVIOUS
<1>1. CASE UNCHANGED Side!visits
  <2>1. UNCHANGED <<visited, memo, visit, told>>  BY <1>1 DEF Side!visits
  <2> QED  BY <2>1 DEF VisitInv, RequestInv, CountedWith
<1>2. CASE Side!UpsertLoads \/ Side!UpsertWeather \/ Side!ServeWeather \/ UNCHANGED Side!vars
  BY <1>1, <1>2 DEF Side!UpsertLoads, Side!UpsertWeather, Side!ServeWeather, Side!vars
<1>3. CASE Side!Restart  BY <1>3, RestartInv
<1>4. ASSUME NEW q \in Visits,
             Side!Insert(q) \/ Side!AnswerMemo(q) \/ Side!Count(q) \/ Side!Keep(q) \/ Side!Fail(q)
      PROVE  VisitInv'
  BY <1>4, InsertInv, AnswerMemoInv, CountInv, KeepInv, FailInv
<1> QED  BY <1>2, <1>3, <1>4 DEF Side!Next

(* A visitor just counted is in the count he is told, and nobody is told    *)
(* more than there is, whatever other visits are counted, memorised, failed *)
(* or forgotten by a restart meanwhile: record_visit, insert, count, keep.  *)
THEOREM VisitsCounted == Side!Spec => []VisitCounted
<1> QED  BY VisitsInit, VisitsNext, VisitsAreCounted, PTL DEF Side!Spec

-----------------------------------------------------------------------------
(* Sequences are folded over the set of their positions, the last one first  *)
(* taken away: what follows is induction over such sets.                     *)
Last(S) == CHOOSE x \in S : \A y \in S : x >= y

(* A set of positions has a last one: among what comes after each, the      *)
(* least set is empty.                                                       *)
LEMMA LastPosition ==
    ASSUME NEW n \in Nat, NEW S, S \subseteq 1 .. n, S # {}
    PROVE  Last(S) \in S /\ \A u \in S : u <= Last(S)
<1> DEFINE After(t) == {u \in S : t < u}
<1> DEFINE Afters == {After(t) : t \in S}
<1>2. FiniteSubsetsOf(1 .. n) = SUBSET (1 .. n)
  <2>1. IsFiniteSet(1 .. n)  BY FS_Interval
  <2> QED  BY <2>1, FS_FiniteSubsetsOfFinite, Zenon
<1>3. Afters \subseteq SUBSET (1 .. n) /\ Afters # {}  OBVIOUS
<1>4. IsWellFoundedOn(StrictSubsetOrdering(1 .. n), SUBSET (1 .. n))
  BY <1>2, FS_StrictSubsetOrderingWellFounded
<1>5. PICK least \in Afters : \A A \in Afters : <<A, least>> \notin StrictSubsetOrdering(1 .. n)
  <2> HIDE DEF Afters
  <2> QED  BY <1>3, <1>4, WFMin, Zenon
<1>6. PICK last \in S : least = After(last)  OBVIOUS
<1>7. ASSUME NEW u \in S, last < u  PROVE FALSE
  <2>1. After(u) \in Afters /\ After(u) \in SUBSET (1 .. n) /\ least \in SUBSET (1 .. n)  BY <1>3
  <2>2. ASSUME NEW v \in After(u)  PROVE v \in least
    <3>2. last < v /\ v \in S  BY <1>7
    <3> QED  BY <3>2, <1>6
  <2>3. u \in least /\ u \notin After(u)  BY <1>6, <1>7
  <2>4. <<After(u), least>> \in StrictSubsetOrdering(1 .. n)
    <3>1. After(u) \subseteq least /\ After(u) # least  BY <2>2, <2>3
    <3> HIDE DEF After
    <3> QED  BY <2>1, <3>1 DEF StrictSubsetOrdering
  <2> QED  BY <1>5, <2>1, <2>4
<1>8. \A u \in S : last >= u  BY <1>7
<1> QED  BY <1>8 DEF Last

(* Two functions of sets of positions that start alike, and agree on a set  *)
(* when they agree on the set without its last position, agree: the fold     *)
(* over a sequence is the only solution of its equation.                     *)
LEMMA SameFold ==
    ASSUME NEW n \in Nat, NEW f, NEW g, f[{}] = g[{}],
           \A s \in SUBSET (1 .. n) :
              s # {} /\ f[s \ {Last(s)}] = g[s \ {Last(s)}] => f[s] = g[s]
    PROVE  f[1 .. n] = g[1 .. n]
<1> DEFINE Bad == {s \in SUBSET (1 .. n) : f[s] # g[s]}
<1>1. SUFFICES ASSUME Bad # {} PROVE FALSE  OBVIOUS
<1>2. FiniteSubsetsOf(1 .. n) = SUBSET (1 .. n)
  <2>1. IsFiniteSet(1 .. n)  BY FS_Interval
  <2> QED  BY <2>1, FS_FiniteSubsetsOfFinite, Zenon
<1>3. IsWellFoundedOn(StrictSubsetOrdering(1 .. n), SUBSET (1 .. n))
  BY <1>2, FS_StrictSubsetOrderingWellFounded
<1>4. PICK s \in Bad : \A u \in Bad : <<u, s>> \notin StrictSubsetOrdering(1 .. n)
  <2>1. Bad \subseteq SUBSET (1 .. n)  OBVIOUS
  <2> HIDE DEF Bad
  <2> QED  BY <1>1, <1>3, <2>1, WFMin, Zenon
<1>5. s \in SUBSET (1 .. n) /\ f[s] # g[s] /\ s # {}  OBVIOUS
<1>6. Last(s) \in s  BY <1>5, LastPosition
<1>7. PICK u : u = s \ {Last(s)}  OBVIOUS
<1>8. u \in SUBSET (1 .. n) /\ u \subseteq s /\ u # s  BY <1>5, <1>6, <1>7
<1>9. <<u, s>> \in StrictSubsetOrdering(1 .. n)
  <2> HIDE DEF Bad
  <2> QED  BY <1>5, <1>8 DEF StrictSubsetOrdering
<1> QED  BY <1>4, <1>5, <1>7, <1>8, <1>9

(* Induction over positions: what holds of the first and passes to the next *)
(* holds of all.                                                             *)
LEMMA Onwards ==
    ASSUME NEW n \in Nat, NEW G, 1 \in G, \A k \in 1 .. n : k \in G /\ k < n => k + 1 \in G
    PROVE  1 .. n \subseteq G
<1> DEFINE Reached == {k \in 1 .. n : 1 .. k \subseteq G}
<1>1. SUFFICES ASSUME n > 0 PROVE 1 .. n \subseteq G  OBVIOUS
<1>2. Reached \subseteq 1 .. n /\ 1 \in Reached  BY <1>1
<1>3. PICK k \in Reached : \A j \in Reached : j <= k
  <2> HIDE DEF Reached
  <2> QED  BY <1>2, LastPosition
<1>4. k \in 1 .. n /\ 1 .. k \subseteq G /\ k \in G  OBVIOUS
<1>5. CASE k < n
  <2>1. k + 1 \in G  BY <1>4, <1>5
  <2>2. 1 .. k + 1 \subseteq G  BY <1>4, <2>1
  <2>3. k + 1 \in Reached  BY <1>4, <1>5, <2>2
  <2> HIDE DEF Reached
  <2> QED  BY <1>3, <1>4, <2>3
<1> QED  BY <1>4, <1>5

LEMMA MaxIsLast == \A S : Side!Max(S) = Last(S) /\ Batches!Max(S) = Last(S)
BY DEF Side!Max, Batches!Max, Last

-----------------------------------------------------------------------------
(* The records of a batch merged one by one: what is left of a field is the *)
(* last of it that is known, or that of the row.                             *)
Loads == Side!LoadRecord
Known(records, s, field) == {n \in s : records[n][field] # {}}

LastKnown(row, records, s, field) ==
    IF Known(records, s, field) = {} THEN row[field]
    ELSE records[Last(Known(records, s, field))][field]

Left(row, records, s) ==
    [realized |-> LastKnown(row, records, s, "realized"), forecast |-> LastKnown(row, records, s, "forecast")]

(* One more record merged: its field when it knows it, else what was there. *)
LEMMA LastKnownGrows ==
    ASSUME NEW n \in Nat, NEW records \in [1 .. n -> Loads], NEW row \in Loads,
           NEW s, s \subseteq 1 .. n, s # {}, NEW field \in {"realized", "forecast"}
    PROVE  LastKnown(row, records, s, field) =
              Side!or(records[Last(s)][field], LastKnown(row, records, s \ {Last(s)}, field))
<1> DEFINE m == Last(s)
           K == Known(records, s, field)
           L == Known(records, s \ {m}, field)
<1>1. m \in s /\ m \in 1 .. n /\ \A u \in s : u <= m  BY LastPosition
<1>2. CASE records[m][field] # {}
  <2>1. m \in K /\ K \subseteq 1 .. n /\ K \subseteq s  BY <1>1, <1>2 DEF Known
  <2>2. Last(K) \in K /\ m <= Last(K)
    <3> HIDE DEF K, m
    <3> QED  BY <2>1, LastPosition
  <2>3. Last(K) = m
    <3>1. PICK top : top = Last(K)  OBVIOUS
    <3>2. top \in s /\ m <= top  BY <2>1, <2>2, <3>1
    <3> HIDE DEF K, m
    <3>3. top \in 1 .. n /\ top <= m  BY <1>1, <3>2
    <3> QED  BY <1>1, <3>1, <3>2, <3>3
  <2> QED  BY <1>2, <2>1, <2>3 DEF LastKnown, Side!or
<1>3. CASE records[m][field] = {}
  <2>1. K = L  BY <1>3 DEF Known
  <2> QED  BY <1>3, <2>1 DEF LastKnown, Side!or
<1> QED  BY <1>2, <1>3

(* The fold of the records over a row is the last known of each field: the  *)
(* closed form satisfies the equation of the fold, which has one solution.  *)
LEMMA MergedInOrder ==
    ASSUME NEW n \in Nat, NEW records \in [1 .. n -> Loads], NEW row \in Loads
    PROVE  Side!FoldLeft(Side!Merged, row, records) = Left(row, records, 1 .. n)
<1> DEFINE Equation(f) ==
      f = [s \in SUBSET (1 .. n) |->
             IF s = {} THEN row
             ELSE Side!Merged(f[s \ {Last(s)}], records[Last(s)])]
           closed == [s \in SUBSET (1 .. n) |-> Left(row, records, s)]
<1>1. Side!FoldLeft(Side!Merged, row, records) = (CHOOSE f : Equation(f))[1 .. n]
  BY MaxIsLast DEF Side!FoldLeft, Side!MapThenFoldSet
<1>2. Equation(closed)
  <2>1. ASSUME NEW s \in SUBSET (1 .. n)
        PROVE  closed[s] = IF s = {} THEN row
                           ELSE Side!Merged(closed[s \ {Last(s)}], records[Last(s)])
    <3>1. CASE s = {}
      <4>1. closed[s] = [realized |-> row.realized, forecast |-> row.forecast]
        BY <3>1 DEF Left, LastKnown, Known
      <4> QED  BY <3>1, <4>1 DEF Loads, Side!LoadRecord
    <3>2. CASE s # {}
      <4>1. s \ {Last(s)} \in SUBSET (1 .. n)  OBVIOUS
      <4>2. \A field \in {"realized", "forecast"} : LastKnown(row, records, s, field) =
              Side!or(records[Last(s)][field], LastKnown(row, records, s \ {Last(s)}, field))
        BY <3>2, LastKnownGrows, ZenonT(30)
      <4> QED  BY <3>2, <4>1, <4>2 DEF Left, Side!Merged
    <3> QED  BY <3>1, <3>2
  <2> QED  BY <2>1
<1>3. ASSUME NEW f, Equation(f)  PROVE f[1 .. n] = closed[1 .. n]
  <2>1. f[{}] = closed[{}]  BY <1>2, <1>3
  <2>2. ASSUME NEW s \in SUBSET (1 .. n), s # {}, f[s \ {Last(s)}] = closed[s \ {Last(s)}]
        PROVE  f[s] = closed[s]
    <3> HIDE DEF closed
    <3> QED  BY <1>2, <1>3, <2>2
  <2> HIDE DEF closed, Equation
  <2> QED  BY <2>1, <2>2, SameFold
<1>4. Equation(CHOOSE f : Equation(f))
  <2> HIDE DEF Equation, closed
  <2> QED  BY <1>2
<1>5. (CHOOSE f : Equation(f))[1 .. n] = closed[1 .. n]
  <2> HIDE DEF Equation, closed
  <2> QED  BY <1>3, <1>4
<1> QED  BY <1>1, <1>5

(* upsert_loads, which first merges the records of a batch together and then *)
(* coalesces with the row, leaves what merging them into the row would.     *)
LEMMA LoadsUpserted ==
    ASSUME NEW records \in Side!BoundedSeq(Loads, MaxBatch), NEW row \in Loads
    PROVE  /\ Side!upsert_loads(row, records) \in Loads
           /\ Side!upsert_loads(row, records) # row =>
                 Side!upsert_loads(row, records) = Side!FoldLeft(Side!Merged, row, records)
           /\ \A field \in {"realized", "forecast"} :
                 row[field] # {} => Side!upsert_loads(row, records)[field] # {}
<1>1. PICK n \in Nat : records \in [1 .. n -> Loads]
  BY InstanceAssumption DEF Side!BoundedSeq, Side!SeqOf
<1> DEFINE one == Side!FoldLeft(Side!Merged, records[1], records)
           D == 1 .. n
<1>2. CASE records = <<>>
  BY <1>2 DEF Side!upsert_loads
<1>3. CASE records # <<>>
  <2>1. 1 \in D  BY <1>1, <1>3
  <2>2. records[1] \in Loads  BY <1>1, <2>1
  <2>3. one = Left(records[1], records, D)  BY <1>1, <2>2, MergedInOrder
  <2>4. Side!FoldLeft(Side!Merged, row, records) = Left(row, records, D)  BY <1>1, MergedInOrder
  <2>5. ASSUME NEW field \in {"realized", "forecast"}
        PROVE  Side!or(LastKnown(records[1], records, D, field), row[field]) = LastKnown(row, records, D, field)
    <3>1. CASE Known(records, D, field) = {}
      <4>1. records[1][field] = {}  BY <2>1, <3>1 DEF Known
      <4> QED  BY <3>1, <4>1 DEF LastKnown, Side!or
    <3>2. CASE Known(records, D, field) # {}
      <4>1. Known(records, D, field) \subseteq D  BY DEF Known
      <4>2. Last(Known(records, D, field)) \in Known(records, D, field)  BY <3>2, <4>1, LastPosition
      <4>3. records[Last(Known(records, D, field))][field] # {}  BY <4>2 DEF Known
      <4> QED  BY <3>2, <4>3 DEF LastKnown, Side!or
    <3> QED  BY <3>1, <3>2
  <2>6. Side!upsert_loads(row, records) = Left(row, records, D)
    <3>1. Side!upsert_loads(row, records) =
             [realized |-> Side!or(one.realized, row.realized), forecast |-> Side!or(one.forecast, row.forecast)]
      BY <1>3 DEF Side!upsert_loads
    <3>2. /\ one.realized = LastKnown(records[1], records, D, "realized")
          /\ one.forecast = LastKnown(records[1], records, D, "forecast")
      BY <2>3 DEF Left
    <3> HIDE DEF one, D
    <3> QED  BY <2>5, <3>1, <3>2 DEF Left
  <2>7. ASSUME NEW field \in {"realized", "forecast"}
        PROVE  /\ LastKnown(row, records, D, field) \in {row[field]} \cup {records[m][field] : m \in D}
               /\ row[field] # {} => LastKnown(row, records, D, field) # {}
    <3>1. CASE Known(records, D, field) = {}
      BY <3>1 DEF LastKnown
    <3>2. CASE Known(records, D, field) # {}
      <4>1. Known(records, D, field) \subseteq D  BY DEF Known
      <4>2. Last(Known(records, D, field)) \in Known(records, D, field)  BY <3>2, <4>1, LastPosition
      <4> QED  BY <3>2, <4>1, <4>2 DEF LastKnown, Known
    <3> QED  BY <3>1, <3>2
  <2>8. Left(row, records, D) \in Loads
    <3>1. /\ LastKnown(row, records, D, "realized") \in {{}} \cup {{a} : a \in Amounts}
          /\ LastKnown(row, records, D, "forecast") \in {{}} \cup {{a} : a \in Amounts}
      BY <1>1, <2>7 DEF Loads, Side!LoadRecord
    <3> QED  BY <3>1 DEF Left, Loads, Side!LoadRecord
  <2>9. \A field \in {"realized", "forecast"} : Left(row, records, D)[field] = LastKnown(row, records, D, field)
    BY DEF Left
  <2> HIDE DEF D
  <2> QED  BY <2>4, <2>6, <2>7, <2>8, <2>9
<1> QED  BY <1>2, <1>3

-----------------------------------------------------------------------------
(* The forecast last served is a row of the table, which loses none.        *)
First == [valid |-> 0, run |-> 0]

ForgetInv ==
    /\ load \in Loads
    /\ weather \in [Valids \X Runs -> SUBSET Amounts]
    /\ \/ served.forecast = First
       \/ /\ served.forecast \in [valid : Valids, run : Runs]
          /\ weather[<<served.forecast.valid, served.forecast.run>>] # {}

LEMMA WeatherServed ==
    ASSUME ForgetInv, NEW t \in Valids, NEW f \in Side!latest(weather, t)
    PROVE  /\ f \in [valid : Valids, run : Runs] /\ weather[<<f.valid, f.run>>] # {}
           /\ f.valid = served.forecast.valid => f.run >= served.forecast.run
<1>1. f \in Side!weather_latest(weather, t - MaxReach, t + MaxReach)  BY DEF Side!latest
<1>2. /\ f \in [valid : Valids, run : Runs] /\ weather[<<f.valid, f.run>>] # {}
      /\ \A r \in Runs : weather[<<f.valid, r>>] # {} => r <= f.run
  BY <1>1 DEF Side!weather_latest
<1>3. f.run \in Nat  BY <1>2, InstanceAssumption
<1>4. CASE served.forecast = First
  BY <1>2, <1>3, <1>4 DEF First
<1>5. CASE served.forecast \in [valid : Valids, run : Runs]
           /\ weather[<<served.forecast.valid, served.forecast.run>>] # {}
  BY <1>2, <1>3, <1>5, InstanceAssumption
<1> QED  BY <1>2, <1>4, <1>5 DEF ForgetInv

(* Loads and weather (upsert_loads, upsert_weather, GetWeather): whatever    *)
(* the batches mix, one statement leaves what the records would one by one,  *)
(* no field once known is lost, and the weather served for an instant is     *)
(* never of an older run than before.                                         *)
THEOREM NothingIsForgotten == Side!Spec => NothingForgotten
<1> DEFINE Remembered ==
      /\ load' # load => load' = Side!FoldLeft(Side!Merged, load, sent')
      /\ \A field \in {"realized", "forecast"} : load[field] # {} => load'[field] # {}
      /\ served'.forecast.valid = served.forecast.valid => served'.forecast.run >= served.forecast.run
<1>1. Side!Init => ForgetInv
  BY DEF Side!Init, ForgetInv, First, Loads, Side!NoLoad, Side!LoadRecord
<1>2. ASSUME ForgetInv, [Side!Next]_(Side!vars)  PROVE ForgetInv' /\ Remembered
  <2>1. served.forecast.run \in Nat
    <3>1. CASE served.forecast = First  BY <3>1 DEF First
    <3>2. CASE served.forecast \in [valid : Valids, run : Runs]  BY <3>2, InstanceAssumption
    <3> QED  BY <1>2, <3>1, <3>2 DEF ForgetInv
  <2>2. CASE UNCHANGED <<load, weather, served>>
    BY <1>2, <2>1, <2>2 DEF ForgetInv
  <2>3. CASE Side!UpsertLoads
    <3>1. PICK records \in Side!BoundedSeq(Loads, MaxBatch) :
             sent' = records /\ load' = Side!upsert_loads(load, records)
      BY <2>3 DEF Side!UpsertLoads, Loads
    <3>2. UNCHANGED <<weather, served>>  BY <2>3 DEF Side!UpsertLoads, Side!forecasts
    <3>3. load \in Loads  BY <1>2 DEF ForgetInv
    <3>4. load' \in Loads
      BY <3>1, <3>3, LoadsUpserted
    <3>5. load' # load => load' = Side!FoldLeft(Side!Merged, load, sent')
      BY <3>1, <3>3, LoadsUpserted
    <3>6. \A field \in {"realized", "forecast"} : load[field] # {} => load'[field] # {}
      BY <3>1, <3>3, LoadsUpserted
    <3> QED  BY <1>2, <2>1, <3>2, <3>4, <3>5, <3>6 DEF ForgetInv
  <2>4. CASE Side!UpsertWeather
    <3>1. PICK v \in Valids, r \in Runs, a \in Amounts : weather' = [weather EXCEPT ![<<v, r>>] = {a}]
      BY <2>4 DEF Side!UpsertWeather
    <3>2. UNCHANGED <<load, sent, served>>  BY <2>4 DEF Side!UpsertWeather, Side!loads
    <3>3. weather' \in [Valids \X Runs -> SUBSET Amounts]
          /\ \A k \in Valids \X Runs : weather[k] # {} => weather'[k] # {}
      BY <1>2, <3>1 DEF ForgetInv
    <3> QED  BY <1>2, <2>1, <3>2, <3>3 DEF ForgetInv
  <2>5. CASE Side!ServeWeather
    <3>1. PICK t \in Valids : \E f \in Side!latest(weather, t) : served' = [reference |-> t, forecast |-> f]
      BY <2>5 DEF Side!ServeWeather
    <3>5. PICK f \in Side!latest(weather, t) : served' = [reference |-> t, forecast |-> f]  BY <3>1
    <3>2. UNCHANGED <<load, sent, weather>>  BY <2>5 DEF Side!ServeWeather, Side!loads
    <3>3. served'.forecast = f  BY <3>5
    <3>4. /\ f \in [valid : Valids, run : Runs] /\ weather[<<f.valid, f.run>>] # {}
          /\ f.valid = served.forecast.valid => f.run >= served.forecast.run
      BY <1>2, WeatherServed
    <3> QED  BY <1>2, <3>2, <3>3, <3>4 DEF ForgetInv
  <2>6. CASE Side!Restart \/ \E q \in Visits : Side!Insert(q) \/ Side!AnswerMemo(q) \/ Side!Count(q)
                                                \/ Side!Keep(q) \/ Side!Fail(q)
    <3>1. UNCHANGED <<load, weather, served>>
      BY <2>6 DEF Side!Restart, Side!Insert, Side!AnswerMemo, Side!Count, Side!Keep, Side!Fail,
         Side!OfVisits, Side!loads, Side!forecasts
    <3> QED  BY <2>2, <3>1
  <2>7. CASE UNCHANGED Side!vars
    <3>1. UNCHANGED <<load, weather, served>>  BY <2>7 DEF Side!vars, Side!loads, Side!forecasts
    <3> QED  BY <2>2, <3>1
  <2> QED  BY <1>2, <2>3, <2>4, <2>5, <2>6, <2>7 DEF Side!Next
<1>3. ForgetInv /\ [Side!Next]_(Side!vars) => [Remembered]_(Side!vars)  BY <1>2
<1>4. ForgetInv /\ [Side!Next]_(Side!vars) => ForgetInv'  BY <1>2
<1>5. NothingForgotten <=> [][Remembered]_(Side!vars)  BY DEF NothingForgotten, Side!NothingForgotten
<1> QED  BY <1>1, <1>3, <1>4, <1>5, PTL DEF Side!Spec

-----------------------------------------------------------------------------
(* One step of dedup_by_key's scan over the batch.                          *)
Scan(q, best, n) ==
    {k \in best : ~Batches!SameKey(q[k], q[n])} \cup
    LET same == {k \in best : Batches!SameKey(q[k], q[n])}
    IN  IF \E k \in same : q[k].row.vintage > q[n].row.vintage THEN same ELSE {n}

(* The folds of the model, as the equations their definitions choose by.    *)
LEMMA KeptScanUnfolds ==
    ASSUME NEW q
    PROVE  Batches!KeptScan(q) =
       (CHOOSE f :
          f = [s \in SUBSET DOMAIN [n \in DOMAIN q |-> n] |->
                 IF s = {} THEN {}
                 ELSE Scan(q, f[s \ {Batches!Max(s)}], [n \in DOMAIN q |-> n][Batches!Max(s)])])[DOMAIN [n \in DOMAIN q |-> n]]
BY DEF Batches!KeptScan, Batches!FoldLeft, Batches!MapThenFoldSet, Scan

LEMMA UpsertsUnfold ==
    ASSUME NEW q, NEW row
    PROVE  Batches!FoldLeft(Batches!UpsertOne, row, q) =
       (CHOOSE f : f = [s \in SUBSET DOMAIN q |->
          IF s = {} THEN row
          ELSE Batches!UpsertOne(f[s \ {Batches!Max(s)}], q[Batches!Max(s)])])[DOMAIN q]
BY DEF Batches!FoldLeft, Batches!MapThenFoldSet

LEMMA FlattenUnfolds ==
    ASSUME NEW q, Len(q) # 0
    PROVE  Batches!FlattenSeq(q) =
       (CHOOSE f : f = [i \in 1 .. Len(q) |-> IF i = 1 THEN q[i] ELSE f[i-1] \o q[i]])[Len(q)]
BY DEF Batches!FlattenSeq

-----------------------------------------------------------------------------
Entries == [key : Keys, row : Register!Row]

Vintage(q, n) == q[n].row.vintage

(* What the scan keeps of the positions s: none is beaten by an earlier one, *)
(* nor equalled by a later one.                                               *)
Kept(q, s) ==
    {n \in s : \A m \in s : q[m].key = q[n].key =>
        /\ m < n => Vintage(q, m) <= Vintage(q, n)
        /\ n < m => Vintage(q, m) < Vintage(q, n)}

LEMMA VintageRange ==
    ASSUME NEW N \in Nat, NEW q \in [1 .. N -> Entries], NEW n \in 1 .. N
    PROVE  Vintage(q, n) \in 0 .. 2
BY DEF Vintage, Entries, Register!Row, Register!Vintages, Register!Tr, Register!Consolidated, Register!Definitive

(* The scan keeps one entry of a key.                                       *)
LEMMA OneKept ==
    ASSUME NEW N \in Nat, NEW q \in [1 .. N -> Entries], NEW s, s \subseteq 1 .. N,
           NEW n \in Kept(q, s), NEW m \in Kept(q, s), q[m].key = q[n].key
    PROVE  m = n
<1>1. /\ n \in 1 .. N /\ m \in 1 .. N
      /\ m < n => Vintage(q, m) <= Vintage(q, n) /\ Vintage(q, n) < Vintage(q, m)
      /\ n < m => Vintage(q, m) < Vintage(q, n) /\ Vintage(q, n) <= Vintage(q, m)
  BY DEF Kept
<1>2. Vintage(q, m) \in 0 .. 2 /\ Vintage(q, n) \in 0 .. 2  BY <1>1, VintageRange
<1> QED  BY <1>1, <1>2

(* Each entry of the batch leaves one kept of its key, at least as good: the *)
(* last of the best ones.                                                   *)
LEMMA WinnerExists ==
    ASSUME NEW N \in Nat, NEW q \in [1 .. N -> Entries], NEW s, s \subseteq 1 .. N, NEW n \in s
    PROVE  \E w \in Kept(q, s) : q[w].key = q[n].key /\ Vintage(q, n) <= Vintage(q, w)
<1> DEFINE O == {m \in s : q[m].key = q[n].key}
           V == {Vintage(q, m) + 1 : m \in O}
           T == {m \in O : Vintage(q, m) + 1 = Last(V)}
<1>1. \A m \in O : m \in 1 .. N /\ Vintage(q, m) \in 0 .. 2  BY VintageRange
<1>2. V \subseteq 1 .. 3 /\ V # {}  BY <1>1
<1>3. PICK top \in V : top = Last(V) /\ \A v \in V : v <= top
  <2> HIDE DEF V
  <2> QED  BY <1>2, LastPosition
<1>4. T \subseteq 1 .. N /\ T # {}  BY <1>1, <1>3
<1>5. PICK w \in T : \A m \in T : m <= w
  <2> HIDE DEF T
  <2> QED  BY <1>4, LastPosition
<1>6. w \in O /\ Vintage(q, w) + 1 = top  BY <1>3, <1>5
<1>7. ASSUME NEW m \in O  PROVE Vintage(q, m) <= Vintage(q, w) /\ (w < m => Vintage(q, m) < Vintage(q, w))
  <2>1. Vintage(q, m) + 1 <= top  BY <1>3
  <2>2. Vintage(q, m) + 1 = top => m <= w  BY <1>3, <1>5
  <2> HIDE DEF O, T, V
  <2> QED  BY <1>1, <1>6, <1>7, <2>1, <2>2
<1>8. w \in Kept(q, s)
  <2>1. \A m \in s : q[m].key = q[w].key => m \in O  BY <1>6
  <2>2. w \in s  BY <1>6
  <2> HIDE DEF O, T, V
  <2> QED  BY <1>7, <2>1, <2>2 DEF Kept
<1>9. q[w].key = q[n].key /\ n \in O  BY <1>6
<1> QED
  <2> HIDE DEF O, T, V
  <2> QED  BY <1>7, <1>8, <1>9

(* One more position scanned is one step of the scan.                       *)
LEMMA KeptGrows ==
    ASSUME NEW N \in Nat, NEW q \in [1 .. N -> Entries], NEW s \in SUBSET (1 .. N), s # {}
    PROVE  Kept(q, s) = Scan(q, Kept(q, s \ {Last(s)}), Last(s))
<1>0. PICK m : m = Last(s)  OBVIOUS
<1> SUFFICES Kept(q, s) = Scan(q, Kept(q, s \ {m}), m)  BY <1>0
<1> DEFINE S == s \ {m}
           same == {k \in Kept(q, S) : q[k].key = q[m].key}
<1>1. m \in s /\ m \in 1 .. N /\ S \subseteq 1 .. N /\ \A k \in S : k \in 1 .. N /\ k < m
  <2>1. m \in s /\ \A u \in s : u <= m  BY <1>0, LastPosition
  <2>2. \A k \in S : k \in s /\ k # m  OBVIOUS
  <2> HIDE DEF S
  <2>3. m \in 1 .. N /\ \A k \in S : k \in 1 .. N  BY <2>1, <2>2
  <2> QED  BY <2>1, <2>2, <2>3
<1>2. \A k \in s : Vintage(q, k) \in 0 .. 2  BY VintageRange
<1>3. ASSUME NEW k \in S
      PROVE k \in Kept(q, s) <=> /\ k \in Kept(q, S)
                                 /\ q[m].key = q[k].key => Vintage(q, m) < Vintage(q, k)
  BY <1>1 DEF Kept
<1>4. m \in Kept(q, s) <=> \A k \in S : q[k].key = q[m].key => Vintage(q, k) <= Vintage(q, m)
  BY <1>1, <1>2 DEF Kept
<1>5. Kept(q, s) \subseteq s /\ Kept(q, S) \subseteq S  BY DEF Kept
<1>6. Scan(q, Kept(q, S), m) =
         {k \in Kept(q, S) : q[k].key # q[m].key} \cup
         IF \E k \in same : Vintage(q, k) > Vintage(q, m) THEN same ELSE {m}
  BY DEF Scan, Batches!SameKey, Vintage
<1>9. /\ \A k \in same : k \in S /\ k \in s /\ k \in Kept(q, S) /\ q[k].key = q[m].key
      /\ \A k \in Kept(q, S) : q[k].key = q[m].key => k \in same
      /\ m \notin S /\ s = S \cup {m}
  BY <1>1, <1>5
<1> HIDE DEF S, same
<1>7. CASE \E k \in same : Vintage(q, k) > Vintage(q, m)
  <2>1. PICK w \in same : Vintage(q, w) > Vintage(q, m)  BY <1>7
  <2>2. \A k \in same : k = w  BY <1>1, <1>9, <2>1, OneKept
  <2>3. m \notin Kept(q, s)
    <3>1. w \in S /\ w \in s /\ q[w].key = q[m].key  BY <1>9
    <3>2. Vintage(q, w) \in 0 .. 2 /\ Vintage(q, m) \in 0 .. 2  BY <1>1, <1>2, <3>1
    <3> QED  BY <1>4, <2>1, <3>1, <3>2
  <2>4. \A k \in same : Vintage(q, m) < Vintage(q, k)  BY <2>1, <2>2
  <2>5. Scan(q, Kept(q, S), m) = Kept(q, S)
    <3>1. Scan(q, Kept(q, S), m) = {k \in Kept(q, S) : q[k].key # q[m].key} \cup same
      BY <1>6, <1>7
    <3> QED  BY <1>9, <3>1
  <2>6. ASSUME NEW k \in S  PROVE k \in Kept(q, s) <=> k \in Kept(q, S)
    BY <1>3, <1>9, <2>4
  <2>7. Kept(q, S) \subseteq S /\ Kept(q, s) \subseteq s  BY <1>5
  <2>8. Kept(q, s) = Scan(q, Kept(q, S), m)  BY <1>9, <2>3, <2>5, <2>6, <2>7
  <2> QED  BY <2>8 DEF S
<1>8. CASE ~ \E k \in same : Vintage(q, k) > Vintage(q, m)
  <2>1. ASSUME NEW k \in S, q[k].key = q[m].key  PROVE Vintage(q, k) <= Vintage(q, m)
    <3>1. PICK w \in Kept(q, S) : q[w].key = q[k].key /\ Vintage(q, k) <= Vintage(q, w)
      BY <1>1, WinnerExists
    <3>2. w \in same /\ w \in s  BY <1>9, <2>1, <3>1
    <3>3. ~(Vintage(q, w) > Vintage(q, m))  BY <1>8, <3>2
    <3>4. Vintage(q, w) \in 0 .. 2 /\ Vintage(q, k) \in 0 .. 2 /\ Vintage(q, m) \in 0 .. 2
      BY <1>1, <1>2, <1>9, <2>1, <3>2
    <3> QED  BY <3>1, <3>3, <3>4
  <2>2. m \in Kept(q, s)  BY <1>4, <2>1
  <2>3. \A k \in same : k \notin Kept(q, s)
    <3>1. ASSUME NEW k \in same  PROVE k \in S /\ ~(Vintage(q, m) < Vintage(q, k))
      <4>1. k \in S /\ q[k].key = q[m].key /\ k \in s  BY <1>9
      <4>2. Vintage(q, k) <= Vintage(q, m)  BY <2>1, <4>1
      <4> QED  BY <1>1, <1>2, <4>1, <4>2
    <3> QED  BY <1>3, <1>9, <3>1
  <2>4. Scan(q, Kept(q, S), m) = {k \in Kept(q, S) : q[k].key # q[m].key} \cup {m}
    BY <1>6, <1>8
  <2>5. Kept(q, S) \subseteq S  BY <1>5
  <2>6. ASSUME NEW k \in S
        PROVE k \in Kept(q, s) <=> k \in Kept(q, S) /\ q[k].key # q[m].key
    <3>1. k \in Kept(q, S) /\ q[k].key = q[m].key => k \notin Kept(q, s)  BY <1>9, <2>3
    <3> QED  BY <1>3, <3>1
  <2>7. Kept(q, s) = Scan(q, Kept(q, S), m)  BY <1>5, <1>9, <2>2, <2>4, <2>5, <2>6
  <2> QED  BY <2>7 DEF S
<1> QED  BY <1>7, <1>8

(* So the scan keeps what Kept says, for a batch of any length.             *)
LEMMA KeptScanIs ==
    ASSUME NEW N \in Nat, NEW q \in [1 .. N -> Entries]
    PROVE  Batches!KeptScan(q) = Kept(q, 1 .. N)
<1> DEFINE each == [n \in DOMAIN q |-> n]
           Equation(f) ==
             f = [s \in SUBSET DOMAIN each |->
                    IF s = {} THEN {} ELSE Scan(q, f[s \ {Batches!Max(s)}], each[Batches!Max(s)])]
           closed == [s \in SUBSET (1 .. N) |-> Kept(q, s)]
<1>1. Batches!KeptScan(q) = (CHOOSE f : Equation(f))[1 .. N]
  BY KeptScanUnfolds
<1>6. DOMAIN each = 1 .. N
      /\ \A s \in SUBSET (1 .. N) : s # {} =>
            Batches!Max(s) = Last(s) /\ each[Batches!Max(s)] = Last(s) /\ Last(s) \in s
  <2>1. ASSUME NEW s \in SUBSET (1 .. N), s # {} PROVE Last(s) \in s  BY <2>1, LastPosition
  <2> QED  BY <2>1, MaxIsLast
<1> HIDE DEF each
<1>2. Equation(closed)
  <2>1. ASSUME NEW s \in SUBSET (1 .. N)
        PROVE  closed[s] = IF s = {} THEN {} ELSE Scan(q, closed[s \ {Batches!Max(s)}], each[Batches!Max(s)])
    <3>1. CASE s = {}  BY <3>1 DEF Kept
    <3>2. CASE s # {}
      <4>1. PICK m : m = Last(s)  OBVIOUS
      <4>2. Kept(q, s) = Scan(q, Kept(q, s \ {m}), m)  BY <3>2, <4>1, KeptGrows
      <4>3. closed[s \ {m}] = Kept(q, s \ {m}) /\ closed[s] = Kept(q, s)  OBVIOUS
      <4> HIDE DEF closed
      <4> QED  BY <1>6, <3>2, <4>1, <4>2, <4>3
    <3> QED  BY <3>1, <3>2
  <2>2. closed = [s \in SUBSET (1 .. N) |-> closed[s]]  OBVIOUS
  <2> HIDE DEF closed
  <2> QED  BY <1>6, <2>1, <2>2, ZenonT(30)
<1>3. ASSUME NEW f, Equation(f)  PROVE f[1 .. N] = closed[1 .. N]
  <2>1. f[{}] = closed[{}]
    <3> HIDE DEF closed
    <3> QED  BY <1>2, <1>3, <1>6
  <2>2. ASSUME NEW s \in SUBSET (1 .. N), s # {}, f[s \ {Last(s)}] = closed[s \ {Last(s)}]
        PROVE  f[s] = closed[s]
    <3> HIDE DEF closed
    <3>1. f[s] = Scan(q, f[s \ {Last(s)}], Last(s))  BY <1>3, <1>6, <2>2
    <3>2. closed[s] = Scan(q, closed[s \ {Last(s)}], Last(s))  BY <1>2, <1>6, <2>2
    <3> QED  BY <2>2, <3>1, <3>2
  <2> HIDE DEF closed, Equation
  <2> QED  BY <2>1, <2>2, SameFold
<1>4. Equation(CHOOSE f : Equation(f))
  <2> HIDE DEF Equation, closed
  <2> QED  BY <1>2
<1>5. (CHOOSE f : Equation(f))[1 .. N] = closed[1 .. N]
  <2> HIDE DEF Equation, closed
  <2> QED  BY <1>3, <1>4
<1> QED  BY <1>1, <1>5

-----------------------------------------------------------------------------
(* What is sent of the batch, and what that brings to a key.                *)

Sent(q, s) == Batches!Restrict(q, Kept(q, s))
Brought(q, s, k) == Batches!RowOf(Sent(q, s), k)

(* The statement brings to a key the row of the entry kept for it ...       *)
LEMMA BroughtByKept ==
    ASSUME NEW N \in Nat, NEW q \in [1 .. N -> Entries], NEW s, s \subseteq 1 .. N, NEW n \in Kept(q, s)
    PROVE  Brought(q, s, q[n].key) = q[n].row
<1> DEFINE mine == {e \in Batches!ToSet(Sent(q, s)) : e.key = q[n].key}
<1>1. Batches!ToSet(Sent(q, s)) = {q[m] : m \in Kept(q, s)}
  BY DEF Batches!ToSet, Sent, Batches!Restrict
<1>2. mine = {q[n]}  BY <1>1, OneKept
<1>3. (CHOOSE e \in mine : TRUE) = q[n]  BY <1>2
<1> HIDE DEF mine
<1> QED  BY <1>2, <1>3 DEF Brought, Batches!RowOf, mine

(* ... and nothing to a key of no entry.                                    *)
LEMMA NotBrought ==
    ASSUME NEW N \in Nat, NEW q \in [1 .. N -> Entries], NEW s, s \subseteq 1 .. N,
           NEW k, \A n \in s : q[n].key # k
    PROVE  Brought(q, s, k) = None
<1>1. Batches!ToSet(Sent(q, s)) = {q[m] : m \in Kept(q, s)}
  BY DEF Batches!ToSet, Sent, Batches!Restrict
<1>2. {e \in Batches!ToSet(Sent(q, s)) : e.key = k} = {}  BY <1>1 DEF Kept
<1> QED  BY <1>2 DEF Brought, Batches!RowOf

(* Two upserts of a key are the upsert of the better row, of the second when *)
(* they are as good: the rule by which the scan replaces.                   *)
LEMMA UpsertedTwice ==
    ASSUME NEW r \in Register!Row \cup {None}, NEW a \in Register!Row, NEW b \in Register!Row
    PROVE  Batches!Upserted(Batches!Upserted(r, a), b) =
              Batches!Upserted(r, IF a.vintage > b.vintage THEN a ELSE b)
BY MeasurementAssumption DEF Batches!Upserted, Batches!Accepts, Register!Row, Register!Vintages,
   Register!Tr, Register!Consolidated, Register!Definitive

(* One more entry in the batch is one more upsert in the row of its key.    *)
LEMMA BroughtGrows ==
    ASSUME NEW N \in Nat, NEW q \in [1 .. N -> Entries], NEW s \in SUBSET (1 .. N), s # {},
           NEW k \in Keys, NEW r \in Register!Row \cup {None}
    PROVE  Batches!Upserted(r, Brought(q, s, k)) =
              IF k = q[Last(s)].key
              THEN Batches!Upserted(Batches!Upserted(r, Brought(q, s \ {Last(s)}, k)), q[Last(s)].row)
              ELSE Batches!Upserted(r, Brought(q, s \ {Last(s)}, k))
<1>0. PICK m : m = Last(s)  OBVIOUS
<1> SUFFICES Batches!Upserted(r, Brought(q, s, k)) =
              IF k = q[m].key THEN Batches!Upserted(Batches!Upserted(r, Brought(q, s \ {m}, k)), q[m].row)
              ELSE Batches!Upserted(r, Brought(q, s \ {m}, k))
  BY <1>0
<1> DEFINE S == s \ {m}
           best == Kept(q, S)
           same == {x \in best : q[x].key = q[m].key}
<1>1. m \in s /\ m \in 1 .. N /\ s \subseteq 1 .. N /\ S \subseteq 1 .. N /\ q[m] \in Entries
  <2>1. m \in s  BY <1>0, LastPosition
  <2> QED  BY <2>1
<1>2. Kept(q, s) = {x \in best : q[x].key # q[m].key} \cup
                   IF \E x \in same : Vintage(q, x) > Vintage(q, m) THEN same ELSE {m}
  <2>1. Kept(q, s) = Scan(q, best, m)  BY <1>0, KeptGrows
  <2>2. Scan(q, best, m) = {x \in best : q[x].key # q[m].key} \cup
                   IF \E x \in same : Vintage(q, x) > Vintage(q, m) THEN same ELSE {m}
    BY DEF Scan, Batches!SameKey, Vintage
  <2> HIDE DEF best, same
  <2> QED  BY <2>1, <2>2
<1>3. best \subseteq S /\ S \subseteq s  BY DEF Kept
<1>4. CASE k # q[m].key
  <2>1. CASE \E n \in S : q[n].key = k
    <3>0. PICK o \in S : q[o].key = k  BY <2>1
    <3>1. PICK n \in best : q[n].key = k
      <4> HIDE DEF S
      <4> QED  BY <1>1, <3>0, WinnerExists
    <3>2. n \in Kept(q, s)  BY <1>2, <1>4, <3>1
    <3>3. Brought(q, S, k) = q[n].row
      <4> HIDE DEF S
      <4> QED  BY <1>1, <3>1, BroughtByKept
    <3>4. Brought(q, s, k) = q[n].row
      <4> HIDE DEF S, best
      <4> QED  BY <1>1, <3>1, <3>2, BroughtByKept
    <3> QED  BY <1>4, <3>3, <3>4
  <2>2. CASE \A n \in S : q[n].key # k
    <3>1. \A n \in s : q[n].key # k  BY <1>4, <2>2
    <3>2. Brought(q, s, k) = None /\ Brought(q, S, k) = None  BY <1>1, <2>2, <3>1, NotBrought
    <3> QED  BY <1>4, <3>2
  <2> QED  BY <2>1, <2>2
<1>5. CASE k = q[m].key
  <2>1. CASE \E n \in S : q[n].key = k
    <3>0. PICK o \in S : q[o].key = k  BY <2>1
    <3>1. PICK n \in best : q[n].key = k
      <4> HIDE DEF S
      <4> QED  BY <1>1, <3>0, WinnerExists
    <3>2. Brought(q, S, k) = q[n].row
      <4> HIDE DEF S
      <4> QED  BY <1>1, <3>1, BroughtByKept
    <3>3. n \in same /\ \A x \in same : x = n  BY <1>1, <1>5, <3>1, OneKept
    <3>4. Brought(q, s, k) = IF Vintage(q, n) > Vintage(q, m) THEN q[n].row ELSE q[m].row
      <4>1. CASE Vintage(q, n) > Vintage(q, m)
        <5>1. n \in Kept(q, s)  BY <1>2, <3>3, <4>1
        <5> QED  BY <3>1, <4>1, <5>1, BroughtByKept
      <4>2. CASE ~(Vintage(q, n) > Vintage(q, m))
        <5>1. m \in Kept(q, s)  BY <1>2, <3>3, <4>2
        <5> QED  BY <1>5, <4>2, <5>1, BroughtByKept
      <4> QED  BY <4>1, <4>2
    <3>5. q[n].row \in Register!Row /\ q[m].row \in Register!Row  BY <1>1, <1>3 DEF Entries
    <3> HIDE DEF best, same, S
    <3>6. Batches!Upserted(Batches!Upserted(r, q[n].row), q[m].row) =
             Batches!Upserted(r, IF Vintage(q, n) > Vintage(q, m) THEN q[n].row ELSE q[m].row)
      BY <3>5, UpsertedTwice DEF Vintage
    <3> QED  BY <1>5, <3>2, <3>4, <3>6 DEF S
  <2>2. CASE \A n \in S : q[n].key # k
    <3>1. Brought(q, S, k) = None  BY <1>1, <2>2, NotBrought
    <3>2. same = {}  BY <1>3, <1>5, <2>2
    <3>3. m \in Kept(q, s)  BY <1>2, <3>2
    <3>4. Brought(q, s, k) = q[m].row  BY <1>5, <3>3, BroughtByKept
    <3> QED  BY <1>5, <3>1, <3>4 DEF Batches!Upserted
  <2> QED  BY <2>1, <2>2
<1> QED  BY <1>4, <1>5

(* What the table of the measurements may hold. *)
Table == [Keys -> Register!Row \cup {None}]

LEMMA SameKeys == Batches!Keys = Keys
BY DEF Batches!Keys, Keys, Register!Keys, Batches!Methods, Register!Methods

(* Hence upserting the batch entry by entry is upserting what is brought.   *)
LEMMA UpsertsInOrder ==
    ASSUME NEW N \in Nat, NEW q \in [1 .. N -> Entries], NEW held \in Table
    PROVE  Batches!FoldLeft(Batches!UpsertOne, held, q) =
              [k \in Keys |-> Batches!Upserted(held[k], Brought(q, 1 .. N, k))]
<1> DEFINE Equation(f) ==
      f = [s \in SUBSET DOMAIN q |->
             IF s = {} THEN held
             ELSE Batches!UpsertOne(f[s \ {Batches!Max(s)}], q[Batches!Max(s)])]
           closed == [s \in SUBSET (1 .. N) |-> [k \in Keys |-> Batches!Upserted(held[k], Brought(q, s, k))]]
<1>1. Batches!FoldLeft(Batches!UpsertOne, held, q) = (CHOOSE f : Equation(f))[1 .. N]
  BY UpsertsUnfold
<1>2. DOMAIN q = 1 .. N /\ \A s \in SUBSET (1 .. N) : s # {} => Batches!Max(s) = Last(s) /\ Last(s) \in s
  <2>1. ASSUME NEW s \in SUBSET (1 .. N), s # {} PROVE Last(s) \in s  BY <2>1, LastPosition
  <2> QED  BY <2>1, MaxIsLast
<1>3. \A s \in SUBSET (1 .. N) : closed[s] = [k \in Keys |-> Batches!Upserted(held[k], Brought(q, s, k))]
  OBVIOUS
<1>4. DOMAIN closed = SUBSET (1 .. N) /\ closed = [s \in SUBSET (1 .. N) |-> closed[s]]
  OBVIOUS
<1> HIDE DEF closed
<1>5. closed[{}] = held
  <2>1. ASSUME NEW k \in Keys  PROVE Batches!Upserted(held[k], Brought(q, {}, k)) = held[k]
    <3>1. Brought(q, {}, k) = None  BY NotBrought
    <3> QED  BY <3>1 DEF Batches!Upserted
  <2>2. closed[{}] = [k \in Keys |-> held[k]]  BY <1>3, <2>1
  <2> QED  BY <2>2 DEF Table
<1>6. ASSUME NEW s \in SUBSET (1 .. N), s # {}
      PROVE  closed[s] = Batches!UpsertOne(closed[s \ {Last(s)}], q[Last(s)])
  <2>1. PICK m, S : m = Last(s) /\ S = s \ {m}  OBVIOUS
  <2>2. S \in SUBSET (1 .. N) /\ m \in 1 .. N /\ q[m].key \in Keys
    BY <1>2, <1>6, <2>1 DEF Entries
  <2>3. ASSUME NEW k \in Keys
        PROVE  closed[s][k] = IF k = q[m].key THEN Batches!Upserted(closed[S][k], q[m].row) ELSE closed[S][k]
    <3>1. held[k] \in Register!Row \cup {None}  BY DEF Table
    <3>2. Batches!Upserted(held[k], Brought(q, s, k)) =
              IF k = q[m].key THEN Batches!Upserted(Batches!Upserted(held[k], Brought(q, S, k)), q[m].row)
              ELSE Batches!Upserted(held[k], Brought(q, S, k))
      BY <1>6, <2>1, <3>1, BroughtGrows
    <3>3. /\ closed[s][k] = Batches!Upserted(held[k], Brought(q, s, k))
          /\ closed[S][k] = Batches!Upserted(held[k], Brought(q, S, k))
      BY <1>3, <2>2
    <3> QED  BY <3>2, <3>3
  <2>4. PICK c : c = closed[S] /\ c = [k \in Keys |-> closed[S][k]]  BY <1>3, <2>2
  <2>5. closed[s] = [k \in Keys |-> closed[s][k]]  BY <1>3
  <2>6. Batches!UpsertOne(c, q[m]) =
           [k \in Keys |-> IF k = q[m].key THEN Batches!Upserted(c[k], q[m].row) ELSE c[k]]
    BY <2>2, <2>4 DEF Batches!UpsertOne
  <2>7. closed[s] = Batches!UpsertOne(c, q[m])
    BY <2>3, <2>4, <2>5, <2>6
  <2> QED  BY <2>1, <2>4, <2>7
<1>7. Equation(closed)
  <2>1. ASSUME NEW s \in SUBSET (1 .. N)
        PROVE  closed[s] = IF s = {} THEN held
                           ELSE Batches!UpsertOne(closed[s \ {Batches!Max(s)}], q[Batches!Max(s)])
    BY <1>2, <1>5, <1>6
  <2> QED  BY <1>2, <1>4, <2>1
<1>8. ASSUME NEW f, Equation(f)  PROVE f[1 .. N] = closed[1 .. N]
  <2>1. f[{}] = closed[{}]  BY <1>5, <1>8
  <2>2. ASSUME NEW s \in SUBSET (1 .. N), s # {}, f[s \ {Last(s)}] = closed[s \ {Last(s)}]
        PROVE  f[s] = closed[s]
    <3>1. f[s] = Batches!UpsertOne(f[s \ {Last(s)}], q[Last(s)])  BY <1>2, <1>8, <2>2
    <3> QED  BY <1>6, <2>2, <3>1
  <2> HIDE DEF Equation
  <2> QED  BY <2>1, <2>2, SameFold
<1>9. Equation(CHOOSE f : Equation(f))
  <2> HIDE DEF Equation
  <2> QED  BY <1>7
<1>10. (CHOOSE f : Equation(f))[1 .. N] = closed[1 .. N]
  <2> HIDE DEF Equation
  <2> QED  BY <1>8, <1>9
<1> QED  BY <1>1, <1>3, <1>10


(* A batch as IngestRecent lays it out: a derived entry comes just before the *)
(* direct one it is the derivation of, and each direct one with a mix has it. *)

Laid(q) ==
    /\ q \in Seq(Entries)
    /\ \A n \in 1 .. Len(q) :
          /\ q[n].key[2] = "acv-ademe" =>
                n + 1 \in 1 .. Len(q) /\ q[n + 1].key = <<q[n].key[1], "rte-direct">> /\ q[n + 1].row = q[n].row
          /\ q[n].key[2] = "rte-direct" /\ q[n].row.reading \in WithMix =>
                n - 1 \in 1 .. Len(q) /\ q[n - 1].key = <<q[n].key[1], "acv-ademe">> /\ q[n - 1].row = q[n].row

(* Two batches so laid out, one after the other, still are ...              *)
LEMMA LaidAfterLaid ==
    ASSUME NEW a, NEW b, Laid(a), Laid(b)
    PROVE  Laid(a \o b)
<1> DEFINE c == a \o b
<1>1. a \in Seq(Entries) /\ b \in Seq(Entries)  BY DEF Laid
<1>2. /\ c \in Seq(Entries) /\ Len(c) = Len(a) + Len(b) /\ Len(a) \in Nat /\ Len(b) \in Nat
      /\ \A n \in 1 .. Len(a) : c[n] = a[n]
      /\ \A n \in 1 .. Len(b) : c[Len(a) + n] = b[n]
  BY <1>1
<1> HIDE DEF c
<1>3. ASSUME NEW n \in 1 .. Len(c)
      PROVE  /\ c[n].key[2] = "acv-ademe" =>
                n + 1 \in 1 .. Len(c) /\ c[n + 1].key = <<c[n].key[1], "rte-direct">> /\ c[n + 1].row = c[n].row
             /\ c[n].key[2] = "rte-direct" /\ c[n].row.reading \in WithMix =>
                n - 1 \in 1 .. Len(c) /\ c[n - 1].key = <<c[n].key[1], "acv-ademe">> /\ c[n - 1].row = c[n].row
  <2>1. CASE n \in 1 .. Len(a)
    <3>1. c[n] = a[n]  BY <1>2, <2>1
    <3>2. n + 1 \in 1 .. Len(a) => n + 1 \in 1 .. Len(c) /\ c[n + 1] = a[n + 1]  BY <1>2, <2>1
    <3>3. n - 1 \in 1 .. Len(a) => n - 1 \in 1 .. Len(c) /\ c[n - 1] = a[n - 1]  BY <1>2, <2>1
    <3> QED  BY <2>1, <3>1, <3>2, <3>3, SMTT(30) DEF Laid
  <2>2. CASE n \notin 1 .. Len(a)
    <3>1. PICK m \in 1 .. Len(b) : n = Len(a) + m
      <4>1. n - Len(a) \in 1 .. Len(b) /\ n = Len(a) + (n - Len(a))  BY <1>2, <2>2
      <4> QED  BY <4>1
    <3>2. c[n] = b[m]  BY <1>2, <3>1
    <3>3. m + 1 \in 1 .. Len(b) => n + 1 \in 1 .. Len(c) /\ c[n + 1] = b[m + 1]
      <4>1. n + 1 = Len(a) + (m + 1)  BY <1>2, <3>1
      <4> QED  BY <1>2, <4>1
    <3>4. m - 1 \in 1 .. Len(b) => n - 1 \in 1 .. Len(c) /\ c[n - 1] = b[m - 1]
      <4>1. n - 1 = Len(a) + (m - 1) /\ m \in Nat  BY <1>2, <3>1
      <4>2. ASSUME m - 1 \in 1 .. Len(b)  PROVE n - 1 \in 1 .. Len(c) /\ c[n - 1] = b[m - 1]
        <5>1. PICK j \in 1 .. Len(b) : j = m - 1  BY <4>2
        <5>2. c[Len(a) + j] = b[j] /\ n - 1 = Len(a) + j  BY <1>2, <4>1, <5>1
        <5>3. n - 1 \in 1 .. Len(c)  BY <1>2, <5>1, <5>2
        <5> QED  BY <5>1, <5>2, <5>3
      <4> QED  BY <4>2
    <3> QED  BY <3>2, <3>3, <3>4, SMTT(30) DEF Laid
  <2> QED  BY <2>1, <2>2
<1>4. Laid(c)  BY <1>2, <1>3 DEF Laid
<1> QED  BY <1>4 DEF c

(* ... and any number of them: FlattenSeq, by induction over the pieces.    *)
LEMMA FlattenLaid ==
    ASSUME NEW n \in Nat, n # 0, NEW pieces, pieces = [i \in 1 .. n |-> pieces[i]],
           \A i \in 1 .. n : Laid(pieces[i])
    PROVE  Laid(Batches!FlattenSeq(pieces))
<1> DEFINE Equation(f, k) == f = [i \in 1 .. k |-> IF i = 1 THEN pieces[i] ELSE f[i - 1] \o pieces[i]]
           G == {k \in 1 .. n : \E f : Equation(f, k)}
<1>1. Len(pieces) = n  OBVIOUS
<1>2. Batches!FlattenSeq(pieces) = (CHOOSE f : Equation(f, n))[n]  BY <1>1, FlattenUnfolds
<1>3. 1 \in G
  <2>1. PICK f : f = [i \in 1 .. 1 |-> pieces[i]]  OBVIOUS
  <2>2. f = [i \in 1 .. 1 |-> IF i = 1 THEN pieces[i] ELSE f[i - 1] \o pieces[i]]  BY <2>1
  <2>3. 1 \in 1 .. n /\ Equation(f, 1)  BY <2>2
  <2> HIDE DEF Equation
  <2> QED  BY <2>3
<1>4. ASSUME NEW k \in 1 .. n, k \in G, k < n  PROVE k + 1 \in G
  <2>1. PICK f : Equation(f, k)  BY <1>4
  <2>2. PICK g : g = [i \in 1 .. k + 1 |-> IF i <= k THEN f[i] ELSE f[k] \o pieces[k + 1]]  OBVIOUS
  <2>3. DOMAIN g = 1 .. k + 1 /\ g = [i \in 1 .. k + 1 |-> g[i]]  BY <2>2
  <2>4. ASSUME NEW i \in 1 .. k + 1  PROVE g[i] = IF i = 1 THEN pieces[i] ELSE g[i - 1] \o pieces[i]
    <3>1. CASE i <= k
      <4>1. i \in 1 .. k /\ g[i] = f[i]  BY <2>2, <3>1
      <4>2. i # 1 => g[i - 1] = f[i - 1]  BY <2>2, <3>1
      <4>3. f[i] = IF i = 1 THEN pieces[i] ELSE f[i - 1] \o pieces[i]  BY <2>1, <4>1
      <4> QED  BY <4>1, <4>2, <4>3
    <3>2. CASE i = k + 1
      <4>1. i # 1 /\ i - 1 = k /\ k \in 1 .. k + 1 /\ ~(i <= k)  BY <3>2
      <4>2. g[k] = f[k]  BY <2>2, <4>1
      <4>3. g[i] = f[k] \o pieces[k + 1]  BY <2>2, <4>1
      <4> QED  BY <3>2, <4>1, <4>2, <4>3
    <3> QED  BY <3>1, <3>2
  <2>5. Equation(g, k + 1)
    <3>1. [i \in 1 .. k + 1 |-> g[i]] = [i \in 1 .. k + 1 |-> IF i = 1 THEN pieces[i] ELSE g[i - 1] \o pieces[i]]
      BY <2>4
    <3> QED  BY <2>3, <3>1
  <2> HIDE DEF Equation
  <2> QED  BY <1>4, <2>5
<1>5. n \in G
  <2> HIDE DEF G
  <2>1. 1 .. n \subseteq G  BY <1>3, <1>4, Onwards
  <2> QED  BY <2>1
<1>6. PICK f : f = CHOOSE h : Equation(h, n)  OBVIOUS
<1>7. Equation(f, n)
  <2> HIDE DEF Equation
  <2> QED  BY <1>5, <1>6
<1> DEFINE H == {k \in 1 .. n : Laid(f[k])}
<1>8. 1 \in H  BY <1>7
<1>9. ASSUME NEW k \in 1 .. n, k \in H, k < n  PROVE k + 1 \in H
  <2>1. k + 1 \in 1 .. n /\ k + 1 # 1 /\ (k + 1) - 1 = k  BY <1>9
  <2>2. f[k + 1] = f[k] \o pieces[k + 1]  BY <1>7, <2>1
  <2>3. Laid(f[k]) /\ Laid(pieces[k + 1])  BY <1>9, <2>1
  <2>4. Laid(f[k + 1])  BY <2>2, <2>3, LaidAfterLaid
  <2> QED  BY <2>1, <2>4
<1>10. n \in H
  <2> HIDE DEF H
  <2>1. 1 .. n \subseteq H  BY <1>8, <1>9, Onwards
  <2> QED  BY <2>1
<1> QED
  <2> HIDE DEF Equation
  <2> QED  BY <1>2, <1>6, <1>10

(* The measurements of the source with the derived one before each are so.  *)
LEMMA EnrichedLaid ==
    ASSUME NEW answer \in Batches!BoundedSeq(Batches!Source, MaxBatch), answer # <<>>
    PROVE  Laid(Batches!Enriched(answer))
<1>1. PICK n \in Nat : answer \in [1 .. n -> Batches!Source]
  BY InstanceAssumption DEF Batches!BoundedSeq, Batches!SeqOf
<1>2. n # 0  BY <1>1
<1> DEFINE piece(i) ==
      LET e == answer[i]
          acv == Batches!Derived(e.row)
      IN  IF acv = None THEN <<e>> ELSE <<Batches!Entry(e.key[1], "acv-ademe", acv), e>>
           pieces == [i \in 1 .. n |-> piece(i)]
<1>3. Batches!Enriched(answer) = Batches!FlattenSeq(pieces)
  <2>1. DOMAIN answer = 1 .. n  BY <1>1
  <2> QED  BY <2>1 DEF Batches!Enriched
<1>4. ASSUME NEW i \in 1 .. n  PROVE Laid(piece(i))
  <2>1. PICK p \in Points, row \in Register!Row : answer[i] = [key |-> <<p, "rte-direct">>, row |-> row]
    BY <1>1 DEF Batches!Source, Batches!Entry, Batches!Row, Register!Row, Batches!Vintages, Register!Vintages,
       Batches!Tr, Batches!Consolidated, Batches!Definitive, Register!Tr, Register!Consolidated, Register!Definitive
  <2>2. PICK e : e = answer[i] /\ e.key = <<p, "rte-direct">> /\ e.row = row /\ e \in Entries
    BY <2>1 DEF Entries, Keys, Register!Keys, Register!Methods
  <2>3. PICK a : a = [key |-> <<p, "acv-ademe">>, row |-> row]  OBVIOUS
  <2>4. a \in Entries /\ a.key = <<p, "acv-ademe">> /\ a.row = row
    BY <2>3 DEF Entries, Keys, Register!Keys, Register!Methods
  <2>5. None \notin Register!Row  BY MeasurementAssumption DEF Register!Row
  <2>6. CASE row.reading \in WithMix
    <3>1. piece(i) = <<a, e>>
      BY <2>2, <2>3, <2>5, <2>6 DEF Batches!Derived, Batches!Entry
    <3>2. <<a, e>> \in Seq(Entries) /\ Len(<<a, e>>) = 2 /\ <<a, e>>[1] = a /\ <<a, e>>[2] = e  BY <2>2, <2>4
    <3>3. PICK s : s = <<a, e>>  OBVIOUS
    <3>4. Laid(s)
      <4>1. s \in Seq(Entries) /\ Len(s) = 2 /\ s[1] = a /\ s[2] = e  BY <3>2, <3>3
      <4> QED  BY <2>2, <2>4, <4>1 DEF Laid
    <3> HIDE DEF piece
    <3> QED  BY <3>1, <3>3, <3>4
  <2>7. CASE row.reading \notin WithMix
    <3>1. piece(i) = <<e>>
      BY <2>2, <2>7 DEF Batches!Derived, Batches!Entry
    <3>2. PICK s : s = <<e>>  OBVIOUS
    <3>3. s \in Seq(Entries) /\ Len(s) = 1 /\ s[1] = e  BY <2>2, <3>2
    <3>4. Laid(s)
      BY <2>2, <2>7, <3>3 DEF Laid
    <3> HIDE DEF piece
    <3> QED  BY <3>1, <3>2, <3>4
  <2> QED  BY <2>6, <2>7
<1>5. pieces = [i \in 1 .. n |-> pieces[i]] /\ \A i \in 1 .. n : Laid(pieces[i])
  BY <1>4
<1> HIDE DEF pieces
<1> QED  BY <1>2, <1>3, <1>5, FlattenLaid

(* A key is brought the row of the entry kept for it. *)
LEMMA BroughtFor ==
    ASSUME NEW N \in Nat, NEW q \in [1 .. N -> Entries], NEW k
    PROVE  \/ Brought(q, 1 .. N, k) = None /\ \A n \in 1 .. N : q[n].key # k
           \/ \E w \in Kept(q, 1 .. N) : q[w].key = k /\ Brought(q, 1 .. N, k) = q[w].row
<1>1. CASE \A n \in 1 .. N : q[n].key # k  BY <1>1, NotBrought
<1>2. CASE \E n \in 1 .. N : q[n].key = k
  <2>1. PICK n \in 1 .. N : q[n].key = k  BY <1>2
  <2>2. PICK w \in Kept(q, 1 .. N) : q[w].key = k  BY <2>1, WinnerExists
  <2> QED  BY <2>2, BroughtByKept
<1> QED  BY <1>1, <1>2

(* Of a batch so laid out the kept entries are paired: the derivation of the *)
(* winner among the direct entries is the winner among the derived ones.    *)
LEMMA SentPaired ==
    ASSUME NEW q, Laid(q), NEW p \in Points,
           NEW acv, acv = Brought(q, 1 .. Len(q), <<p, "acv-ademe">>),
           NEW rte, rte = Brought(q, 1 .. Len(q), <<p, "rte-direct">>)
    PROVE  /\ acv # None => rte # None /\ acv.vintage <= rte.vintage
           /\ rte # None /\ rte.reading \in WithMix => acv = rte
<1> DEFINE N == Len(q)
           D == 1 .. N
           A == <<p, "acv-ademe">>
           R == <<p, "rte-direct">>
<1>1. N \in Nat /\ q \in [D -> Entries] /\ None \notin Register!Row
  BY MeasurementAssumption DEF Laid
<1>2. A[1] = p /\ A[2] = "acv-ademe" /\ R[1] = p /\ R[2] = "rte-direct" /\ A # R  OBVIOUS
<1>3. \A n \in D : q[n].row \in Register!Row /\ Vintage(q, n) \in 0 .. 2
  BY <1>1, VintageRange DEF Entries
<1>4. \A n \in D : q[n].key = A => n + 1 \in D /\ q[n + 1].key = R /\ q[n + 1].row = q[n].row
  BY <1>1, <1>2 DEF Laid
<1>5. \A n \in D : q[n].key = R /\ q[n].row.reading \in WithMix =>
         n - 1 \in D /\ q[n - 1].key = A /\ q[n - 1].row = q[n].row
  BY <1>1, <1>2 DEF Laid
<1> HIDE DEF A, R
<1>6. Kept(q, D) \subseteq D  BY DEF Kept
<1>7. ASSUME acv # None  PROVE rte # None /\ acv.vintage <= rte.vintage
  <2>1. PICK a \in Kept(q, D) : q[a].key = A /\ acv = q[a].row
    <3>1. acv = Brought(q, D, A)  BY DEF A
    <3> HIDE DEF N
    <3> QED  BY <1>1, <1>7, <3>1, BroughtFor
  <2>2. a \in D /\ a + 1 \in D /\ q[a + 1].key = R /\ q[a + 1].row = q[a].row  BY <1>4, <1>6, <2>1
  <2>3. PICK w \in Kept(q, D) : q[w].key = R /\ Vintage(q, a + 1) <= Vintage(q, w)
    <3>1. PICK n \in D : n = a + 1  BY <2>2
    <3> HIDE DEF N
    <3> QED  BY <1>1, <2>2, <3>1, WinnerExists
  <2>4. rte = q[w].row
    <3>1. rte = Brought(q, D, q[w].key)  BY <2>3 DEF R
    <3> HIDE DEF N
    <3> QED  BY <1>1, <3>1, BroughtByKept
  <2> QED  BY <1>1, <1>3, <1>6, <2>1, <2>2, <2>3, <2>4 DEF Vintage
<1>8. ASSUME rte # None, rte.reading \in WithMix  PROVE acv = rte
  <2>1. PICK r \in Kept(q, D) : q[r].key = R /\ rte = q[r].row
    <3>1. rte = Brought(q, D, R)  BY DEF R
    <3> HIDE DEF N
    <3> QED  BY <1>1, <1>8, <3>1, BroughtFor
  <2>2. r \in D /\ r - 1 \in D /\ q[r - 1].key = A /\ q[r - 1].row = q[r].row  BY <1>5, <1>6, <1>8, <2>1
  <2>3. PICK a \in D : a = r - 1  BY <2>2
  <2>4. Vintage(q, a) = Vintage(q, r) /\ r \in Int /\ r = a + 1  BY <2>2, <2>3 DEF Vintage
  <2>5. ASSUME NEW m \in D, q[m].key = A
        PROVE  /\ m < a => Vintage(q, m) <= Vintage(q, a)
               /\ a < m => Vintage(q, m) < Vintage(q, a)
    <3>1. PICK d \in D : d = m + 1 /\ q[d].key = R /\ q[d].row = q[m].row  BY <1>4, <2>5
    <3>2. Vintage(q, d) = Vintage(q, m)  BY <3>1 DEF Vintage
    <3>3. /\ d < r => Vintage(q, d) <= Vintage(q, r)
          /\ r < d => Vintage(q, d) < Vintage(q, r)
      BY <2>1, <3>1 DEF Kept
    <3>4. (m < a => d < r) /\ (a < m => r < d)  BY <2>4, <3>1
    <3> QED  BY <2>4, <3>2, <3>3, <3>4
  <2>6. a \in Kept(q, D)
    <3>1. q[a].key = A  BY <2>2, <2>3
    <3> HIDE DEF N
    <3> QED  BY <2>5, <3>1 DEF Kept
  <2>7. acv = q[a].row
    <3>1. acv = Brought(q, D, q[a].key)  BY <2>2, <2>3 DEF A
    <3> HIDE DEF N
    <3> QED  BY <1>1, <2>6, <3>1, BroughtByKept
  <2> QED  BY <2>1, <2>2, <2>3, <2>7
<1> QED  BY <1>7, <1>8

-----------------------------------------------------------------------------
(* Between two steps: a bounded answer of the source, or none, and the table. *)
BatchInv ==
    /\ raw \in Batches!BoundedSeq(Batches!Source, MaxBatch)
    /\ rows \in Table

(* Ingest and upsert_many: whatever the source repeats, in whatever order,   *)
(* the one statement stores what its measurements and their derived rows     *)
(* would leave upserted one by one, sends no key twice, and pairs the rows   *)
(* as the transactions of MeasurementStore assume.                            *)
THEOREM StatementIsOneByOne == Batches!Spec => OneStatement
<1> DEFINE Settled ==
      raw # <<>> =>
        /\ rows' = Batches!FoldLeft(Batches!UpsertOne, rows, Batches!Enriched(raw))
        /\ \A a, b \in DOMAIN batch' : Batches!SameKey(batch'[a], batch'[b]) => a = b
        /\ Batches!BatchPaired'
<1>0. Batches!Row = Register!Row
  BY DEF Batches!Row, Register!Row, Batches!Vintages, Register!Vintages,
     Batches!Tr, Batches!Consolidated, Batches!Definitive, Register!Tr, Register!Consolidated, Register!Definitive
<1>1. Batches!Init => BatchInv
  <2>1. SUFFICES ASSUME Batches!Init PROVE BatchInv  OBVIOUS
  <2>2. <<>> \in Batches!BoundedSeq(Batches!Source, MaxBatch)
    BY InstanceAssumption DEF Batches!BoundedSeq, Batches!SeqOf
  <2> QED  BY <2>1, <2>2, SameKeys DEF Batches!Init, BatchInv, Table
<1>2. ASSUME BatchInv, [Batches!Next]_(Batches!vars)
      PROVE  BatchInv' /\ (Settled \/ UNCHANGED Batches!vars)
  <2>1. CASE Batches!Fetch
    <3>1. raw = <<>> /\ raw' \in Batches!BoundedSeq(Batches!Source, MaxBatch) /\ rows' = rows
      BY <2>1 DEF Batches!Fetch
    <3> QED  BY <1>2, <3>1 DEF BatchInv
  <2>2. CASE Batches!Ingest
    <3>1. /\ raw # <<>> /\ batch' = Batches!DedupByKey(Batches!Enriched(raw))
          /\ rows' = Batches!UpsertMany(rows, batch') /\ raw' = <<>>
      BY <2>2 DEF Batches!Ingest
    <3>2. PICK q : q = Batches!Enriched(raw)  OBVIOUS
    <3>3. Laid(q)  BY <1>2, <3>1, <3>2, EnrichedLaid DEF BatchInv
    <3>4. PICK N \in Nat : N = Len(q)  BY <3>3 DEF Laid
    <3>5. q \in [1 .. N -> Entries]  BY <3>3, <3>4 DEF Laid
    <3>6. batch' = Sent(q, 1 .. N)  BY <3>1, <3>2, <3>5, KeptScanIs DEF Batches!DedupByKey, Sent
    <3>7. \A k : Batches!RowOf(batch', k) = Brought(q, 1 .. N, k)  BY <3>6 DEF Brought
    <3>8. rows' = [k \in Keys |-> Batches!Upserted(rows[k], Brought(q, 1 .. N, k))]
      BY <3>1, <3>7, SameKeys DEF Batches!UpsertMany
    <3>9. rows' = Batches!FoldLeft(Batches!UpsertOne, rows, Batches!Enriched(raw))
      BY <1>2, <3>2, <3>5, <3>8, UpsertsInOrder DEF BatchInv
    <3>10. \A a, b \in DOMAIN batch' : Batches!SameKey(batch'[a], batch'[b]) => a = b
      <4>1. DOMAIN batch' = Kept(q, 1 .. N) /\ \A a \in Kept(q, 1 .. N) : batch'[a] = q[a]
        BY <3>6 DEF Sent, Batches!Restrict
      <4> QED  BY <3>5, <4>1, OneKept DEF Batches!SameKey
    <3>11. Batches!BatchPaired'
      <4>1. PICK brought : brought = [k \in Keys |-> Brought(q, 1 .. N, k)]  OBVIOUS
      <4>2. [k \in Batches!Keys |-> Batches!RowOf(batch', k)] = brought  BY <3>7, <4>1, SameKeys
      <4>3. ASSUME NEW p \in Points
            PROVE  /\ brought[<<p, "acv-ademe">>] # None =>
                         brought[<<p, "rte-direct">>] # None
                         /\ brought[<<p, "acv-ademe">>].vintage <= brought[<<p, "rte-direct">>].vintage
                   /\ Batches!Register!Derived(brought[<<p, "rte-direct">>]) # None =>
                         brought[<<p, "acv-ademe">>] = Batches!Register!Derived(brought[<<p, "rte-direct">>])
        <5>1. <<p, "acv-ademe">> \in Keys /\ <<p, "rte-direct">> \in Keys
          BY DEF Keys, Register!Keys, Register!Methods
        <5>2. PICK acv, rte : /\ acv = Brought(q, 1 .. Len(q), <<p, "acv-ademe">>)
                              /\ rte = Brought(q, 1 .. Len(q), <<p, "rte-direct">>)
          OBVIOUS
        <5>3. brought[<<p, "acv-ademe">>] = acv /\ brought[<<p, "rte-direct">>] = rte
          BY <3>4, <4>1, <5>1, <5>2
        <5>4. /\ acv # None => rte # None /\ acv.vintage <= rte.vintage
              /\ rte # None /\ rte.reading \in WithMix => acv = rte
          BY <3>3, <5>2, SentPaired
        <5> QED  BY <5>3, <5>4 DEF Batches!Register!Derived
      <4>4. Batches!Register!Paired(brought)
        BY <4>3 DEF Batches!Register!Paired, Batches!Register!Acv, Batches!Register!Rte
      <4> QED  BY <4>2, <4>4 DEF Batches!BatchPaired
    <3>12. rows' \in Table
      <4>1. ASSUME NEW k \in Keys
            PROVE  Batches!Upserted(rows[k], Brought(q, 1 .. N, k)) \in Register!Row \cup {None}
        <5>1. rows[k] \in Register!Row \cup {None}  BY <1>2 DEF BatchInv, Table
        <5>2. Brought(q, 1 .. N, k) \in Register!Row \cup {None}
          <6>1. \A w \in Kept(q, 1 .. N) : q[w].row \in Register!Row  BY <3>5 DEF Kept, Entries
          <6> QED  BY <3>5, <6>1, BroughtFor
        <5> QED  BY <5>1, <5>2 DEF Batches!Upserted
      <4> QED  BY <3>8, <4>1 DEF Table
    <3>13. raw' \in Batches!BoundedSeq(Batches!Source, MaxBatch)
      BY <3>1, InstanceAssumption DEF Batches!BoundedSeq, Batches!SeqOf
    <3> QED  BY <3>9, <3>10, <3>11, <3>12, <3>13 DEF BatchInv
  <2>3. CASE UNCHANGED Batches!vars
    <3>1. UNCHANGED <<raw, rows>>  BY <2>3 DEF Batches!vars
    <3> QED  BY <1>2, <2>3, <3>1 DEF BatchInv
  <2> QED  BY <1>2, <2>1, <2>2, <2>3 DEF Batches!Next
<1>3. BatchInv /\ [Batches!Next]_(Batches!vars) => [Settled]_(Batches!vars)  BY <1>2
<1>4. BatchInv /\ [Batches!Next]_(Batches!vars) => BatchInv'  BY <1>2
<1>5. OneStatement <=> [][Settled]_(Batches!vars)  BY DEF OneStatement, Batches!OneStatement
<1> QED  BY <1>1, <1>3, <1>4, <1>5, PTL DEF Batches!Spec
=================================================================================
