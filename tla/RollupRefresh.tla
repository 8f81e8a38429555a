----------------------------- MODULE RollupRefresh ------------------------------
(***************************************************************************)
(* The measurement cycles and the hourly and daily rollups they refresh:   *)
(* the poller, the daily self-heal and the backfill command, which write   *)
(* the same tables.                                                        *)
(*                                                                         *)
(* An aggregate is known here by what it counted: stale[t] holds the       *)
(* instants whose present row the bucket of table t does not count.  Each  *)
(* statement of a refresh reads a snapshot of the measurements when it     *)
(* starts and replaces the buckets when it ends; what other writers commit *)
(* in between is missed.                                                   *)
(***************************************************************************)
EXTENDS Naturals, FiniteSets

CONSTANTS
    Points,    \* instants, numbered in the order of time
    None,      \* no row
    Bucket,    \* Bucket[t][p]: the bucket of instant p in table t
    Since,     \* first instant of the days that refresh_rollups recomputes
    Jobs,      \* "poller", "heal", "backfill": the ones that run
    Parts,     \* source answers per run: zones, datasets, slices
    Archive,   \* vintages that a backfill may import
    MayFail    \* failures considered: "source", "refresh", "crash"

Tables == {"hourly", "daily"}
Tr == 0
Vintages == 0 .. 2

ASSUME RollupAssumption ==
    /\ Points \subseteq Nat /\ Points # {} /\ IsFiniteSet(Points)
    /\ None \notin Vintages
    /\ Jobs \subseteq {"poller", "heal", "backfill"}
    /\ Parts \in Nat \ {0}
    /\ Archive \subseteq Vintages
    /\ MayFail \subseteq {"source", "refresh", "crash"}
    /\ Since \in Nat
    \* Since is a midnight: no bucket is on both sides of it.
    /\ \A t \in Tables, p, q \in Points :
          Bucket[t][p] = Bucket[t][q] => (p >= Since <=> q >= Since)

VARIABLES
    vintage,    \* vintage[p]: the vintage of the row of p, or None
    stale,      \* stale[t]: instants whose row the aggregates of t miss
    job,        \* job[j]: where the run of j is
    published,  \* instant of the last update sent to the subscribers, or None
    spoiled,    \* history: some refresh failed, was cut short or overlapped
    settled     \* the failures are over and the source repeats itself

vars == <<vintage, stale, job, published, spoiled, settled>>

(* left: parts still to import; wrote: "written > 0"; missed: instants      *)
(* committed since the snapshot of the running statement.                   *)
Run(pc, left, wrote, missed) == [pc |-> pc, left |-> left, wrote |-> wrote, missed |-> missed]
Idle == Run("idle", 0, FALSE, {})

Stored == {p \in Points : vintage[p] # None}
AllIdle == \A j \in Jobs : job[j] = Idle

-----------------------------------------------------------------------------
Init ==
    /\ vintage = [p \in Points |-> None]
    /\ stale = [t \in Tables |-> {}]
    /\ job = [j \in Jobs |-> Idle]
    /\ published = None
    /\ spoiled = FALSE
    /\ settled = FALSE

Start(j) ==
    /\ job[j] = Idle
    /\ job' = [job EXCEPT ![j] = Run("import", Parts, FALSE, {})]
    /\ UNCHANGED <<vintage, stale, published, spoiled, settled>>

(* The instants of ps that take a row of vintage v: ON CONFLICT ... WHERE   *)
(* EXCLUDED.vintage_rank >= measurement.vintage_rank.  They are the rows    *)
(* the statement counts as affected, also when nothing in them changes.     *)
AcceptedBetter(ps, v) == {p \in ps : vintage[p] = None \/ v > vintage[p]}

Accepted(ps, v) == {p \in ps : vintage[p] = None \/ v >= vintage[p]}

(* What the source may answer.  The poller and the self-heal read the       *)
(* real-time data set over the recent days; a backfill reads any period of  *)
(* the archives, where consolidated data come about three months late.      *)
Answerable(j, v) ==
    {p \in Points : IF j = "backfill" THEN v = Tr \/ p < Since ELSE v = Tr /\ p >= Since}

(* upsert_many commits the instants accepted, of which fresh have a new     *)
(* content: no aggregate counts these, nor do the snapshots already taken.  *)
Commit(j, v, accepted, fresh) ==
    /\ vintage' = [p \in Points |-> IF p \in accepted THEN v ELSE vintage[p]]
    /\ stale' = [t \in Tables |-> stale[t] \cup fresh]
    /\ job' = [i \in Jobs |->
          IF i = j THEN Run("import", job[j].left - 1, job[j].wrote \/ accepted # {}, {})
          ELSE [job[i] EXCEPT !.missed =
                  IF job[i].pc \in {"hourlyWrite", "dailyWrite"} THEN @ \cup fresh ELSE @]]

(* One part of a run: the source answers the instants ps, some of them with *)
(* a new content.                                                           *)
Import(j) ==
    /\ job[j].pc = "import" /\ job[j].left > 0
    /\ \E v \in (IF j = "backfill" THEN Archive ELSE {Tr}) :
       \E ps \in SUBSET Answerable(j, v) : \E changed \in SUBSET ps :
          LET accepted == Accepted(ps, v)
              fresh == {p \in accepted : vintage[p] = None \/ p \in changed}
          IN  /\ settled => fresh = {} /\ (ps = {} => Stored = {})
              /\ Commit(j, v, accepted, fresh)
    /\ UNCHANGED <<published, spoiled, settled>>

(* A part fails, at the source or in its transaction: the poller and the    *)
(* self-heal go on with the next one, a backfill stops there.               *)
ImportFailsAbandon(j) ==
    /\ "source" \in MayFail /\ ~settled
    /\ job[j].pc = "import" /\ job[j].left > 0
    /\ job' = [job EXCEPT ![j] = Idle]
    /\ spoiled' = (spoiled \/ j = "backfill")
    /\ UNCHANGED <<vintage, stale, published, settled>>

ImportFails(j) ==
    /\ "source" \in MayFail /\ ~settled
    /\ job[j].pc = "import" /\ job[j].left > 0
    /\ job' = [job EXCEPT ![j] =
                 IF j = "backfill" THEN Idle ELSE Run("import", job[j].left - 1, job[j].wrote, {})]
    /\ spoiled' = (spoiled \/ j = "backfill")
    /\ UNCHANGED <<vintage, stale, published, settled>>

(* All parts done.  The poller and the self-heal refresh the recent buckets *)
(* only if they wrote; a backfill always rebuilds all of them.              *)
AfterImport(j) ==
    IF j = "backfill" \/ job[j].wrote THEN Run("hourly", 0, job[j].wrote, {}) ELSE Idle

ImportDone(j) ==
    /\ job[j].pc = "import" /\ job[j].left = 0 /\ j # "poller"
    /\ job' = [job EXCEPT ![j] = AfterImport(j)]
    /\ UNCHANGED <<vintage, stale, published, spoiled, settled>>

(* The poller first sends the latest national row of the table to the       *)
(* subscribers (nothing when there is none).  The read may fail.            *)
PublishReport ==
    /\ job["poller"].pc = "import" /\ job["poller"].left = 0
    /\ published' \in {p \in Stored : p >= Since} \cup {published}
    /\ job' = [job EXCEPT !["poller"] = AfterImport("poller")]
    /\ UNCHANGED <<vintage, stale, spoiled, settled>>

Publish ==
    /\ job["poller"].pc = "import" /\ job["poller"].left = 0
    /\ \/ published' \in {p \in Stored : \A q \in Stored : q <= p}
       \/ (Stored = {} \/ ("source" \in MayFail /\ ~settled)) /\ UNCHANGED published
    /\ job' = [job EXCEPT !["poller"] = AfterImport("poller")]
    /\ UNCHANGED <<vintage, stale, spoiled, settled>>

-----------------------------------------------------------------------------
(* The instants a refresh reads: WHERE at >= since, at midnight, for the    *)
(* recent refresh; everything for a rebuild.                                *)
Read(j) == IF j = "backfill" THEN Points ELSE {p \in Points : p >= Since}

(* A statement starts: its snapshot is taken.  Nothing prevents another run *)
(* from being in the same statement.                                        *)
Snapshot(j) ==
    /\ job[j].pc \in {"hourly", "daily"}
    /\ LET writing == IF job[j].pc = "hourly" THEN "hourlyWrite" ELSE "dailyWrite"
       IN  /\ job' = [job EXCEPT ![j] = Run(writing, 0, @.wrote, {})]
           /\ spoiled' = (spoiled \/ \E i \in Jobs : job[i].pc = writing)
    /\ UNCHANGED <<vintage, stale, published, settled>>

(* It ends: the buckets of the instants read are replaced.  They count the  *)
(* rows of the snapshot, none that was left out by the condition on at.     *)
WriteBuckets(j) ==
    /\ job[j].pc \in {"hourlyWrite", "dailyWrite"}
    /\ LET t == IF job[j].pc = "hourlyWrite" THEN "hourly" ELSE "daily"
           read == Read(j) \cap (Stored \ job[j].missed)
           rewritten == {p \in Stored : \E q \in read : Bucket[t][q] = Bucket[t][p]}
       IN  /\ stale' = [stale EXCEPT ![t] = (@ \ rewritten) \cup (rewritten \ read)]
           /\ job' = [job EXCEPT ![j] =
                        IF t = "hourly" THEN Run("daily", 0, job[j].wrote, {}) ELSE Idle]
    /\ UNCHANGED <<vintage, published, spoiled, settled>>

(* A statement of the refresh fails: it is logged, and the run ends.        *)
RefreshFails(j) ==
    /\ "refresh" \in MayFail /\ ~settled
    /\ job[j].pc \in {"hourly", "hourlyWrite", "daily", "dailyWrite"}
    /\ job' = [job EXCEPT ![j] = Idle]
    /\ spoiled' = TRUE
    /\ UNCHANGED <<vintage, stale, published, settled>>

(* The server (poller and self-heal) or the backfill command stops.         *)
Crash ==
    /\ "crash" \in MayFail /\ ~settled
    /\ \E down \in {Jobs \cap {"poller", "heal"}, Jobs \cap {"backfill"}} :
          /\ job' = [j \in Jobs |-> IF j \in down THEN Idle ELSE job[j]]
          /\ published' = IF "poller" \in down THEN None ELSE published
          /\ spoiled' = (spoiled \/ \E j \in down : job[j] # Idle)
    /\ UNCHANGED <<vintage, stale, settled>>

(* From some moment on nothing fails and the source repeats what it said.   *)
Settle == settled' = TRUE /\ UNCHANGED <<vintage, stale, job, published, spoiled>>

Step(j) ==
    \/ Start(j) \/ Import(j) \/ ImportFails(j) \/ ImportDone(j)
    \/ (j = "poller" /\ Publish)
    \/ Snapshot(j) \/ WriteBuckets(j) \/ RefreshFails(j)

Next == (\E j \in Jobs : Step(j)) \/ Crash \/ Settle

Spec == Init /\ [][Next]_vars

(* The tasks of the server tick again and again and a statement ends        *)
(* (statement_timeout).  A backfill ends once launched, but nobody has to   *)
(* launch it.                                                               *)
FairSpec == Spec /\ \A j \in Jobs : WF_vars((j = "backfill" => job[j] # Idle) /\ Step(j))

-----------------------------------------------------------------------------
TypeOK ==
    /\ vintage \in [Points -> Vintages \cup {None}]
    /\ stale \in [Tables -> SUBSET Points]
    /\ job \in [Jobs -> [pc     : {"idle", "import", "hourly", "hourlyWrite", "daily", "dailyWrite"},
                         left   : 0 .. Parts,
                         wrote  : BOOLEAN,
                         missed : SUBSET Points]]
    /\ published \in Points \cup {None}
    /\ spoiled \in BOOLEAN /\ settled \in BOOLEAN

(* upsert_rollups ("exact averages") and ADR-0006 ("every revision of an    *)
(* aggregated period recomputes its rollups"): when no run is in progress   *)
(* the aggregates count every present row.                                  *)
ExactWhenIdle == AllIdle => \A t \in Tables : stale[t] = {}

(* What the code does guarantee: zones that fail and rows refused for their *)
(* vintage never leave an aggregate behind.  Only a refresh that fails, is  *)
(* cut short (a crash, a failing slice of a backfill) or overlaps the same  *)
(* statement of another run does.                                           *)
ExactUnlessSpoiled == ~spoiled => ExactWhenIdle

(* The updates sent to the subscribers never go back in time while the      *)
(* server runs, even when the source answers late or old instants.          *)
UpdatesForward ==
    [][published # None /\ published' # None => published' >= published]_vars

(* The recent aggregates recover by themselves: after any sequence of       *)
(* failures, crashes and overlapping refreshes, once the source repeats     *)
(* itself the recent buckets become exact and stay so.  (The poller         *)
(* refreshes because rewriting a row of the same vintage counts as written.) *)
RecentRecovers ==
    settled ~> [](\A t \in Tables : \A p \in stale[t] : p < Since)
=============================================================================
