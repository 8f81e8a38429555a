-------------------------- MODULE RollupRefreshProofs --------------------------
(***************************************************************************)
(* Proofs about RollupRefresh for any instants, any division of them into  *)
(* buckets that Since does not cut, any set of jobs and any number of      *)
(* parts per run: an instant that an aggregate misses has a run on its way *)
(* that will count it, unless a refresh failed, was cut short or           *)
(* overlapped; and the updates sent to the subscribers go forward.         *)
(***************************************************************************)
EXTENDS RollupRefresh, TLAPS

(* Job j will still run, or is running on a snapshot that has p, the        *)
(* statement of table t on the instants that include p.                     *)
Covers(j, t, p) ==
    /\ p \in Read(j)
    /\ \/ job[j].pc = "import" /\ (j = "backfill" \/ job[j].wrote)
       \/ job[j].pc = "hourly"
       \/ job[j].pc = "daily" /\ t = "daily"
       \/ job[j].pc = "hourlyWrite" /\ (t = "daily" \/ p \notin job[j].missed)
       \/ job[j].pc = "dailyWrite" /\ t = "daily" /\ p \notin job[j].missed

Writing(t) == IF t = "hourly" THEN "hourlyWrite" ELSE "dailyWrite"

(* Types; what is missed or was published has a row. *)
RowsOK ==
    /\ TypeOK
    /\ \A t \in Tables : stale[t] \subseteq Stored
    /\ published # None => published \in Stored

(* What a statement missed is stale until another run covers it: the one    *)
(* that missed it does not.                                                 *)
MissedIsStale ==
    \A t \in Tables, j \in Jobs : job[j].pc = Writing(t) => job[j].missed \subseteq stale[t]

(* Two runs are never in the same statement. *)
Exclusive ==
    \A t \in Tables, i, j \in Jobs :
        job[i].pc = Writing(t) /\ job[j].pc = Writing(t) => i = j

StaleIsCovered == \A t \in Tables : \A p \in stale[t] : \E j \in Jobs : Covers(j, t, p)

RollupInv == RowsOK /\ (~spoiled => MissedIsStale /\ Exclusive /\ StaleIsCovered)

Job == [pc     : {"idle", "import", "hourly", "hourlyWrite", "daily", "dailyWrite"},
        left   : 0 .. Parts,
        wrote  : BOOLEAN,
        missed : SUBSET Points]

LEMMA RunIsJob ==
    ASSUME NEW pc \in {"idle", "import", "hourly", "hourlyWrite", "daily", "dailyWrite"},
           NEW left \in 0 .. Parts, NEW wrote \in BOOLEAN, NEW missed \in SUBSET Points
    PROVE  /\ Run(pc, left, wrote, missed) \in Job
           /\ Run(pc, left, wrote, missed).pc = pc
           /\ Run(pc, left, wrote, missed).left = left
           /\ Run(pc, left, wrote, missed).wrote = wrote
           /\ Run(pc, left, wrote, missed).missed = missed
BY DEF Run, Job

LEMMA IdleJob == Idle \in Job /\ Idle.pc = "idle"
<1>1. 0 \in 0 .. Parts /\ {} \in SUBSET Points
  BY RollupAssumption
<1> QED  BY <1>1 DEF Idle, Run, Job

LEMMA InitialRollups == Init => RollupInv
<1> SUFFICES ASSUME Init PROVE RollupInv
  OBVIOUS
<1>1. TypeOK
  <2>1. job \in [Jobs -> Job]
    BY IdleJob DEF Init
  <2> QED  BY <2>1 DEF Init, TypeOK, Job
<1> QED  BY <1>1, IdleJob DEF Init, RollupInv, RowsOK, MissedIsStale, Exclusive, StaleIsCovered, Writing

-----------------------------------------------------------------------------
(* A step of the run of j that writes neither measurements nor aggregates.  *)
(* What it was to cover it still is, or the step spoils the aggregates; and *)
(* it starts a statement alone, with nothing missed.                        *)
LEMMA RunMoves ==
    ASSUME RollupInv, NEW j \in Jobs, NEW r \in Job,
           job' = [job EXCEPT ![j] = r], UNCHANGED <<vintage, stale>>,
           published' \in Stored \cup {None, published}, spoiled' \in BOOLEAN, settled' \in BOOLEAN,
           ~spoiled' =>
              /\ ~spoiled
              /\ \A t \in Tables, p \in Points : Covers(j, t, p) => Covers(j, t, p)'
              /\ \A t \in Tables : r.pc = Writing(t) =>
                    r.missed = {} /\ \A i \in Jobs : job[i].pc # Writing(t)
    PROVE  RollupInv'
<1>1. job \in [Jobs -> Job] /\ stale \in [Tables -> SUBSET Points] /\ Stored \subseteq Points
  BY DEF RollupInv, RowsOK, TypeOK, Job, Stored
<1>2. job' \in [Jobs -> Job] /\ job'[j] = r /\ \A i \in Jobs \ {j} : job'[i] = job[i]
  BY <1>1
<1>3. Stored' = Stored
  BY DEF Stored
<1>4. RowsOK'
  BY <1>1, <1>2, <1>3 DEF RollupInv, RowsOK, TypeOK, Job
<1>5. ASSUME ~spoiled' PROVE MissedIsStale' /\ Exclusive' /\ StaleIsCovered'
  <2>1. MissedIsStale /\ Exclusive /\ StaleIsCovered
    BY <1>5 DEF RollupInv
  <2>2. MissedIsStale'
    BY <1>1, <1>2, <1>5, <2>1 DEF MissedIsStale, Writing
  <2>3. Exclusive'
    BY <1>1, <1>2, <1>5, <2>1 DEF Exclusive, Writing
  <2>4. ASSUME NEW t \in Tables, NEW p \in stale'[t] PROVE \E i \in Jobs : Covers(i, t, p)'
    <3>1. p \in stale[t] /\ p \in Points
      BY <1>1, <2>4
    <3>2. PICK i \in Jobs : Covers(i, t, p)
      BY <2>1, <3>1 DEF StaleIsCovered
    <3>3. CASE i = j
      BY <1>5, <3>1, <3>2, <3>3
    <3>4. CASE i # j
      BY <1>2, <3>2, <3>4 DEF Covers, Read
    <3> QED  BY <3>3, <3>4
  <2> QED  BY <2>2, <2>3, <2>4 DEF StaleIsCovered
<1> QED  BY <1>4, <1>5 DEF RollupInv

(* An import: every instant with a new content has the importing run to     *)
(* cover it, also when the statements under way have missed it.             *)
LEMMA ImportStep == ASSUME RollupInv, NEW j \in Jobs, Import(j) PROVE RollupInv'
<1>1. /\ job \in [Jobs -> Job] /\ stale \in [Tables -> SUBSET Points] /\ Stored \subseteq Points
      /\ vintage \in [Points -> Vintages \cup {None}]
      /\ published \in Points \cup {None} /\ spoiled \in BOOLEAN /\ settled \in BOOLEAN
  BY DEF RollupInv, RowsOK, TypeOK, Job, Stored
<1>2. PICK v, ps, changed :
         /\ v \in (IF j = "backfill" THEN Archive ELSE {Tr})
         /\ ps \in SUBSET Answerable(j, v)
         /\ Commit(j, v, Accepted(ps, v), {p \in Accepted(ps, v) : vintage[p] = None \/ p \in changed})
  BY Zenon DEF Import
<1>3. PICK accepted, fresh :
         accepted \subseteq Answerable(j, v) /\ fresh \subseteq accepted /\ Commit(j, v, accepted, fresh)
  <2> DEFINE acc == Accepted(ps, v)
             new == {p \in acc : vintage[p] = None \/ p \in changed}
  <2>1. acc \subseteq Answerable(j, v) /\ new \subseteq acc /\ Commit(j, v, acc, new)
    BY <1>2 DEF Accepted
  <2> HIDE DEF acc, new
  <2> QED  BY <2>1
<1>4. v \in Vintages /\ accepted \subseteq Points /\ fresh \subseteq Points /\ accepted \subseteq Read(j)
  <2>1. Answerable(j, v) \subseteq Read(j) /\ Read(j) \subseteq Points
    BY DEF Answerable, Read
  <2>2. v \in Vintages
    BY <1>2, RollupAssumption DEF Vintages, Tr
  <2> QED  BY <1>3, <2>1, <2>2
<1>5. job[j].pc = "import" /\ job[j].left - 1 \in 0 .. Parts
      /\ UNCHANGED <<published, spoiled, settled>>
  BY <1>1, RollupAssumption DEF Import, Job
<1>6. /\ job'[j] \in Job /\ job'[j].pc = "import" /\ job'[j].missed = {}
      /\ job[j].wrote => job'[j].wrote
      /\ accepted # {} => job'[j].wrote
  <2>1. job'[j] = Run("import", job[j].left - 1, job[j].wrote \/ accepted # {}, {})
    BY <1>3 DEF Commit
  <2>2. PICK w \in BOOLEAN : job'[j] = Run("import", job[j].left - 1, w, {})
                             /\ (job[j].wrote \/ accepted # {} => w = TRUE)
    <3>1. CASE job[j].wrote \/ accepted # {}
      <4>1. (job[j].wrote \/ accepted # {}) = TRUE
        BY <3>1
      <4> QED  BY <2>1, <4>1
    <3>2. CASE ~(job[j].wrote \/ accepted # {})
      <4>1. (job[j].wrote \/ accepted # {}) = FALSE
        BY <3>2
      <4> QED  BY <2>1, <3>2, <4>1
    <3> QED  BY <3>1, <3>2
  <2>3. job'[j] \in Job /\ job'[j].pc = "import" /\ job'[j].missed = {} /\ job'[j].wrote = w
    BY <1>5, <2>2, RunIsJob
  <2> QED  BY <2>2, <2>3
<1>7. ASSUME NEW i \in Jobs, i # j
      PROVE  /\ job'[i] \in Job /\ job'[i].pc = job[i].pc /\ job'[i].wrote = job[i].wrote
             /\ job'[i].missed \subseteq job[i].missed \cup fresh
             /\ job[i].missed \subseteq job'[i].missed
  BY <1>1, <1>3, <1>4, <1>7 DEF Job, Commit
<1>8. job' \in [Jobs -> Job]
  BY <1>3, <1>6, <1>7 DEF Commit
<1>9. Stored \subseteq Stored' /\ fresh \subseteq Stored'
  BY <1>1, <1>3, <1>4, RollupAssumption DEF Stored, Commit
<1>10. RowsOK'
  BY <1>1, <1>3, <1>4, <1>5, <1>8, <1>9 DEF RollupInv, RowsOK, TypeOK, Job, Commit
<1>11. ASSUME ~spoiled PROVE MissedIsStale' /\ Exclusive' /\ StaleIsCovered'
  <2>1. MissedIsStale /\ Exclusive /\ StaleIsCovered
    BY <1>11 DEF RollupInv
  <2>2. ASSUME NEW t \in Tables PROVE stale'[t] = stale[t] \cup fresh
    BY <1>3 DEF Commit
  <2>3. MissedIsStale'
    BY <1>6, <1>7, <2>1, <2>2 DEF MissedIsStale, Writing
  <2>4. Exclusive'
    BY <1>6, <1>7, <2>1 DEF Exclusive, Writing
  <2>5. ASSUME NEW t \in Tables, NEW p \in stale'[t] PROVE \E i \in Jobs : Covers(i, t, p)'
    <3>1. CASE p \in fresh
      BY <1>3, <1>4, <1>6, <3>1 DEF Covers, Read
    <3>2. CASE p \in stale[t] /\ p \notin fresh
      <4>1. PICK i \in Jobs : Covers(i, t, p)
        BY <2>1, <3>2 DEF StaleIsCovered
      <4> QED  BY <1>5, <1>6, <1>7, <3>2, <4>1 DEF Covers, Read
    <3> QED  BY <2>2, <3>1, <3>2
  <2> QED  BY <2>3, <2>4, <2>5 DEF StaleIsCovered
<1> QED  BY <1>5, <1>10, <1>11 DEF RollupInv

(* A statement ends.  What its table still misses of the buckets replaced,  *)
(* it missed: another run covers it.                                        *)
LEMMA WriteStep == ASSUME RollupInv, NEW j \in Jobs, WriteBuckets(j) PROVE RollupInv'
<1> DEFINE t == IF job[j].pc = "hourlyWrite" THEN "hourly" ELSE "daily"
           read == Read(j) \cap (Stored \ job[j].missed)
           rewritten == {p \in Stored : \E q \in read : Bucket[t][q] = Bucket[t][p]}
           next == IF t = "hourly" THEN Run("daily", 0, job[j].wrote, {}) ELSE Idle
<1>1. /\ job \in [Jobs -> Job] /\ stale \in [Tables -> SUBSET Points] /\ Stored \subseteq Points
      /\ \A x \in Tables : stale[x] \subseteq Stored
  BY DEF RollupInv, RowsOK, TypeOK, Job, Stored
<1>2. /\ stale' = [stale EXCEPT ![t] = (stale[t] \ rewritten) \cup (rewritten \ read)]
      /\ job' = [job EXCEPT ![j] = next]
      /\ UNCHANGED <<vintage, published, spoiled, settled>>
      /\ t \in Tables /\ job[j].pc = Writing(t)
      /\ t = "hourly" \/ t = "daily"
  BY DEF WriteBuckets, Tables, Writing
<1>3. read \subseteq rewritten /\ rewritten \subseteq Stored
      /\ \A p \in rewritten \ read : p \in Read(j) /\ p \in job[j].missed
  <2>1. ASSUME NEW p \in rewritten, p \notin Read(j) PROVE FALSE
    <3>1. PICK q \in read : Bucket[t][q] = Bucket[t][p]
      BY <2>1
    <3>2. q \in Points /\ p \in Points /\ q \in Read(j)
      BY <1>1, <2>1, <3>1
    <3>3. q >= Since <=> p >= Since
      BY <1>2, <3>1, <3>2, RollupAssumption
    <3> QED  BY <2>1, <3>2, <3>3 DEF Read
  <2> QED  BY <2>1
<1>4. /\ next \in Job /\ (t = "hourly" => next.pc = "daily") /\ (t = "daily" => next.pc = "idle")
  <2>1. CASE t = "hourly"
    <3>1. job[j].wrote \in BOOLEAN /\ 0 \in 0 .. Parts /\ {} \in SUBSET Points
      BY <1>1, RollupAssumption DEF Job
    <3> QED  BY <2>1, <3>1, RunIsJob
  <2>2. CASE t = "daily"
    BY <2>2, IdleJob
  <2> QED  BY <1>2, <2>1, <2>2
<1> HIDE DEF t, read, rewritten, next
<1>5. job' \in [Jobs -> Job] /\ job'[j] = next /\ \A i \in Jobs \ {j} : job'[i] = job[i]
  BY <1>1, <1>2, <1>4
<1>6. /\ stale' \in [Tables -> SUBSET Points] /\ \A x \in Tables : stale'[x] \subseteq Stored
      /\ \A x \in Tables \ {t} : stale'[x] = stale[x]
      /\ stale'[t] = (stale[t] \ rewritten) \cup (rewritten \ read)
  BY <1>1, <1>2, <1>3
<1>7. Stored' = Stored
  BY <1>2 DEF Stored
<1>8. RowsOK'
  BY <1>2, <1>5, <1>6, <1>7 DEF RollupInv, RowsOK, TypeOK, Job
<1>9. ASSUME ~spoiled PROVE MissedIsStale' /\ Exclusive' /\ StaleIsCovered'
  <2>1. MissedIsStale /\ Exclusive /\ StaleIsCovered
    BY <1>9 DEF RollupInv
  <2>2. \A i \in Jobs : job[i].pc = Writing(t) => i = j
    BY <1>2, <2>1 DEF Exclusive
  <2>3. \A x \in Tables : next.pc # Writing(x)
    BY <1>2, <1>4 DEF Writing
  <2>4. MissedIsStale'
    <3>1. ASSUME NEW x \in Tables, NEW i \in Jobs, job'[i].pc = Writing(x)
          PROVE  job'[i].missed \subseteq stale'[x]
      <4>1. i # j /\ job'[i] = job[i]
        BY <1>5, <2>3, <3>1
      <4>2. x # t
        BY <2>2, <3>1, <4>1
      <4> QED  BY <1>6, <2>1, <3>1, <4>1, <4>2 DEF MissedIsStale
    <3> QED  BY <3>1 DEF MissedIsStale, Writing
  <2>5. Exclusive'
    <3>1. ASSUME NEW x \in Tables, NEW i \in Jobs, NEW k \in Jobs,
                 job'[i].pc = Writing(x), job'[k].pc = Writing(x)
          PROVE  i = k
      <4>1. i # j /\ k # j
        BY <1>5, <2>3, <3>1
      <4> QED  BY <1>5, <2>1, <3>1, <4>1 DEF Exclusive
    <3> QED  BY <3>1 DEF Exclusive, Writing
  <2>6. ASSUME NEW x \in Tables, NEW p \in stale'[x] PROVE \E i \in Jobs : Covers(i, x, p)'
    <3>1. ASSUME NEW i \in Jobs, i # j, Covers(i, x, p) PROVE Covers(i, x, p)'
      BY <1>5, <3>1 DEF Covers, Read
    <3>2. CASE x = t
      <4>1. CASE p \in rewritten \ read
        <5>1. p \in job[j].missed /\ p \in Points
          BY <1>1, <1>3, <4>1
        <5>2. p \in stale[t]
          BY <1>2, <2>1, <5>1 DEF MissedIsStale
        <5>3. PICK i \in Jobs : Covers(i, t, p)
          BY <1>2, <2>1, <5>2 DEF StaleIsCovered
        <5>4. i # j
          BY <1>2, <5>1, <5>3 DEF Covers, Writing
        <5> QED  BY <3>1, <3>2, <5>3, <5>4
      <4>2. CASE p \in stale[t] \ rewritten
        <5>1. PICK i \in Jobs : Covers(i, t, p)
          BY <1>2, <2>1, <4>2 DEF StaleIsCovered
        <5>2. i # j
          <6>1. ASSUME i = j PROVE FALSE
            <7>1. p \in Read(j) /\ p \notin job[j].missed
              BY <1>2, <5>1, <6>1 DEF Covers, Writing
            <7>2. p \in Stored
              BY <1>1, <1>2, <4>2
            <7> QED  BY <1>3, <4>2, <7>1, <7>2 DEF read
          <6> QED  BY <6>1
        <5> QED  BY <3>1, <3>2, <5>1, <5>2
      <4> QED  BY <1>6, <2>6, <3>2, <4>1, <4>2
    <3>3. CASE x # t
      <4>1. p \in stale[x]
        BY <1>6, <2>6, <3>3
      <4>2. PICK i \in Jobs : Covers(i, x, p)
        BY <2>1, <4>1 DEF StaleIsCovered
      <4>3. CASE i = j
        <5>1. t = "hourly" /\ x = "daily"
          BY <1>2, <3>3, <4>2, <4>3 DEF Covers, Writing, Tables
        <5> QED  BY <1>4, <1>5, <4>2, <4>3, <5>1 DEF Covers, Read
      <4> QED  BY <3>1, <4>2, <4>3
    <3> QED  BY <3>2, <3>3
  <2> QED  BY <2>4, <2>5, <2>6 DEF StaleIsCovered
<1> QED  BY <1>2, <1>8, <1>9 DEF RollupInv

LEMMA AfterImportIsJob ==
    ASSUME NEW j \in Jobs, job[j] \in Job
    PROVE  /\ AfterImport(j) \in Job
           /\ AfterImport(j).pc \in {"hourly", "idle"}
           /\ j = "backfill" \/ job[j].wrote => AfterImport(j).pc = "hourly"
<1>1. 0 \in 0 .. Parts /\ job[j].wrote \in BOOLEAN /\ {} \in SUBSET Points
  BY RollupAssumption DEF Job
<1>2. CASE j = "backfill" \/ job[j].wrote
  BY <1>1, <1>2, RunIsJob DEF AfterImport
<1>3. CASE ~(j = "backfill" \/ job[j].wrote)
  BY <1>3, IdleJob DEF AfterImport
<1> QED  BY <1>2, <1>3

LEMMA RollupStep == RollupInv /\ [Next]_vars => RollupInv'
<1> SUFFICES ASSUME RollupInv, [Next]_vars PROVE RollupInv'
  OBVIOUS
<1>0. /\ job \in [Jobs -> Job] /\ published \in Points \cup {None} /\ Stored \subseteq Points
      /\ spoiled \in BOOLEAN /\ settled \in BOOLEAN
      /\ 0 \in 0 .. Parts /\ Parts \in 0 .. Parts /\ {} \in SUBSET Points
  BY RollupAssumption DEF RollupInv, RowsOK, TypeOK, Job, Stored
<1>1. ASSUME NEW j \in Jobs, Start(j) PROVE RollupInv'
  <2> DEFINE r == Run("import", Parts, FALSE, {})
  <2>1. r \in Job /\ r.pc = "import"
    BY <1>0 DEF Run, Job
  <2>2. job' = [job EXCEPT ![j] = r] /\ UNCHANGED <<vintage, stale, published, spoiled, settled>>
        /\ job[j].pc = "idle"
    BY <1>1, IdleJob DEF Start
  <2>3. \A t \in Tables, p \in Points : ~Covers(j, t, p)
    BY <2>2 DEF Covers
  <2> HIDE DEF r
  <2> QED  BY <1>0, <2>1, <2>2, <2>3, RunMoves DEF Writing
<1>2. ASSUME NEW j \in Jobs, ImportFails(j) PROVE RollupInv'
  <2> DEFINE r == IF j = "backfill" THEN Idle ELSE Run("import", job[j].left - 1, job[j].wrote, {})
  <2>1. /\ job' = [job EXCEPT ![j] = r] /\ UNCHANGED <<vintage, stale, published, settled>>
        /\ job[j].pc = "import" /\ job[j].left - 1 \in 0 .. Parts /\ job[j].wrote \in BOOLEAN
        /\ spoiled' = (spoiled \/ j = "backfill")
    BY <1>0, <1>2, RollupAssumption DEF ImportFails, Job
  <2>2. /\ r \in Job /\ r.pc \in {"import", "idle"}
        /\ j # "backfill" => r.pc = "import" /\ r.wrote = job[j].wrote
    BY <1>0, <2>1, RunIsJob, IdleJob
  <2> HIDE DEF r
  <2>3. ASSUME j # "backfill", NEW t \in Tables, NEW p \in Points, Covers(j, t, p) PROVE Covers(j, t, p)'
    BY <1>0, <2>1, <2>2, <2>3 DEF Covers, Read
  <2>4. spoiled' \in BOOLEAN /\ (~spoiled' => ~spoiled /\ j # "backfill")
    BY <2>1
  <2> QED  BY <1>0, <2>1, <2>2, <2>3, <2>4, RunMoves DEF Writing
<1>3. ASSUME NEW j \in Jobs, job[j].pc = "import", job' = [job EXCEPT ![j] = AfterImport(j)],
             UNCHANGED <<vintage, stale, spoiled, settled>>, published' \in Stored \cup {None, published}
      PROVE  RollupInv'
  <2>1. /\ AfterImport(j) \in Job /\ AfterImport(j).pc \in {"hourly", "idle"}
        /\ j = "backfill" \/ job[j].wrote => AfterImport(j).pc = "hourly"
    BY <1>0, AfterImportIsJob
  <2>2. ASSUME NEW t \in Tables, NEW p \in Points, Covers(j, t, p) PROVE Covers(j, t, p)'
    <3>1. p \in Read(j) /\ (j = "backfill" \/ job[j].wrote)
      BY <1>3, <2>2 DEF Covers
    <3>2. job'[j].pc = "hourly"
      BY <1>0, <1>3, <2>1, <3>1
    <3> QED  BY <3>1, <3>2 DEF Covers, Read
  <2> QED  BY <1>0, <1>3, <2>1, <2>2, RunMoves DEF Writing
<1>4. ASSUME NEW j \in Jobs, ImportDone(j) PROVE RollupInv'
  BY <1>3, <1>4 DEF ImportDone
<1>5. ASSUME "poller" \in Jobs, Publish PROVE RollupInv'
  BY <1>3, <1>5 DEF Publish
<1>6. ASSUME NEW j \in Jobs, Snapshot(j) PROVE RollupInv'
  <2> DEFINE writing == IF job[j].pc = "hourly" THEN "hourlyWrite" ELSE "dailyWrite"
             r == Run(writing, 0, job[j].wrote, {})
  <2>1. /\ job' = [job EXCEPT ![j] = r] /\ UNCHANGED <<vintage, stale, published, settled>>
        /\ job[j].pc \in {"hourly", "daily"} /\ job[j].wrote \in BOOLEAN
        /\ spoiled' = (spoiled \/ \E i \in Jobs : job[i].pc = writing)
    BY <1>0, <1>6 DEF Snapshot, Job
  <2>2. r \in Job /\ r.pc = writing /\ r.missed = {}
    BY <1>0, <2>1, RunIsJob
  <2>3. spoiled' \in BOOLEAN /\ (~spoiled' => ~spoiled /\ \A i \in Jobs : job[i].pc # writing)
    BY <2>1
  <2>4. job'[j] = r
    BY <1>0, <2>1
  <2>5. writing \in {"hourlyWrite", "dailyWrite"} /\ (writing = "hourlyWrite" <=> job[j].pc = "hourly")
    OBVIOUS
  <2> HIDE DEF r, writing
  <2>6. ASSUME NEW t \in Tables, NEW p \in Points, Covers(j, t, p) PROVE Covers(j, t, p)'
    BY <2>1, <2>2, <2>4, <2>5, <2>6 DEF Covers, Read, Tables
  <2>7. \A t \in Tables : r.pc = Writing(t) => writing = Writing(t)
    BY <2>2
  <2> QED  BY <1>0, <2>1, <2>2, <2>3, <2>6, <2>7, RunMoves
<1>7. ASSUME NEW j \in Jobs, RefreshFails(j) PROVE RollupInv'
  BY <1>0, <1>7, IdleJob, RunMoves DEF RefreshFails
<1>8. ASSUME Crash PROVE RollupInv'
  <2>1. PICK down : /\ job' = [j \in Jobs |-> IF j \in down THEN Idle ELSE job[j]]
                    /\ published' = IF "poller" \in down THEN None ELSE published
                    /\ spoiled' = (spoiled \/ \E j \in down : job[j] # Idle)
                    /\ down \subseteq Jobs /\ UNCHANGED <<vintage, stale, settled>>
    BY <1>8 DEF Crash
  <2>2. job' \in [Jobs -> Job] /\ spoiled' \in BOOLEAN
    BY <1>0, <2>1, IdleJob
  <2>3. RowsOK'
    BY <2>1, <2>2 DEF RollupInv, RowsOK, TypeOK, Job, Stored
  <2>4. ASSUME ~spoiled' PROVE ~spoiled /\ job' = job
    BY <1>0, <2>1, <2>4
  <2>5. ASSUME ~spoiled' PROVE MissedIsStale' /\ Exclusive' /\ StaleIsCovered'
    BY <2>1, <2>4, <2>5 DEF RollupInv, MissedIsStale, Exclusive, StaleIsCovered, Covers, Read, Writing
  <2> QED  BY <2>3, <2>5 DEF RollupInv
<1>9. ASSUME UNCHANGED <<vintage, stale, job, published, spoiled>>, settled' \in BOOLEAN PROVE RollupInv'
  BY <1>9 DEF RollupInv, RowsOK, TypeOK, Stored, MissedIsStale, Exclusive, StaleIsCovered,
              Covers, Read, Writing
<1>10. CASE Settle
  BY <1>9, <1>10 DEF Settle
<1>11. CASE UNCHANGED vars
  BY <1>0, <1>9, <1>11 DEF vars
<1> QED  BY <1>1, <1>2, <1>4, <1>5, <1>6, <1>7, <1>8, <1>10, <1>11, ImportStep, WriteStep DEF Next, Step

LEMMA RollupInvariant == Spec => []RollupInv
BY InitialRollups, RollupStep, PTL DEF Spec

-----------------------------------------------------------------------------
(* Shape of the state of the cycles. *)
THEOREM TypeCorrect == Spec => []TypeOK
<1>1. RollupInv => TypeOK
  BY DEF RollupInv, RowsOK
<1> QED  BY <1>1, RollupInvariant, PTL

(* Rollups (upsert_rollups, the poller, the self-heal, the backfill): when  *)
(* no run is in progress the aggregates count every present row, whatever   *)
(* zones failed and rows were refused, provided that no refresh failed, was *)
(* cut short or overlapped the same statement of another.                   *)
THEOREM AggregatesExact == Spec => []ExactUnlessSpoiled
<1>1. RollupInv => ExactUnlessSpoiled
  <2> SUFFICES ASSUME RollupInv, ~spoiled, AllIdle, NEW t \in Tables, NEW p \in stale[t] PROVE FALSE
    BY DEF ExactUnlessSpoiled, ExactWhenIdle, RollupInv, RowsOK, TypeOK
  <2>1. PICK j \in Jobs : Covers(j, t, p)
    BY DEF RollupInv, StaleIsCovered
  <2>2. job[j].pc = "idle"
    BY IdleJob DEF AllIdle
  <2> QED  BY <2>1, <2>2 DEF Covers
<1> QED  BY <1>1, RollupInvariant, PTL

(* Updates (the poller's publication): what is sent to the subscribers is   *)
(* never older than what was sent before, even when the source answers late *)
(* or old instants.                                                         *)
THEOREM UpdatesGoForward == Spec => UpdatesForward
<1>1. RollupInv /\ [Next]_vars => [published # None /\ published' # None => published' >= published]_vars
  <2> SUFFICES ASSUME RollupInv, Next, published # None, published' # None PROVE published' >= published
    OBVIOUS
  <2>1. published \in Stored /\ Stored \subseteq Nat
    BY RollupAssumption DEF RollupInv, RowsOK, Stored
  <2>2. CASE Publish
    BY <2>1, <2>2 DEF Publish
  <2>3. CASE published' = published
    BY <2>1, <2>3
  <2>4. CASE Crash
    BY <2>1, <2>4 DEF Crash
  <2> QED  BY <2>2, <2>3, <2>4 DEF Next, Step, Start, Import, ImportFails, ImportDone, Snapshot,
                               WriteBuckets, RefreshFails, Settle
<1> QED  BY <1>1, RollupInvariant, PTL DEF Spec, UpdatesForward
================================================================================
