------------------------ MODULE AnswersProofs ------------------------
(***************************************************************************)
(* Proofs about what is computed when it is asked.  The eligibility of the *)
(* slots of a forecast: a quiet answer is the one of the tables, its       *)
(* pillars are of the instant of their slot, and its verdicts are those of *)
(* every world that is still possible.  The scheduler: its window is the   *)
(* greenest, for a forecast of any length, step and values.  The derived   *)
(* series: their current values are those of their histories, which do not *)
(* depend on the range they are read in.                                    *)
(***************************************************************************)
EXTENDS MCAnswers, Sequences, FiniteSetTheorems, WellFoundedInduction, TLAPS

-----------------------------------------------------------------------------
(* What a request is made of. *)
Histories == UNION {[D -> Shares] : D \in SUBSET Instants}
Tariffs == UNION {[D -> Prices] : D \in SUBSET Hours}
Measured == [at : Instants, share : {{}} \cup {{s} : s \in Shares}]

Rulesets == UNION {{with_overrides(r, q.surplus, q.threshold, q.kwh) :
                       r \in resolve_ruleset(q.framework, q.version)} : q \in Requests}

InProgress ==
    [pc : {"latest", "prices", "history", "store", "extra", "judge"}, since : Nat, settled : BOOLEAN,
     wired : BOOLEAN, estimator : {q.estimator : q \in Requests}, ruleset : Rulesets,
     points : {q.points : q \in Requests}, latest : {{}} \cup {{m} : m \in Measured},
     prices : Tariffs, base : Histories, extra : Histories]

(* The history is wanted: the model of the shares is wired, for rfnbo, and  *)
(* there is a latest measurement to anchor it.                               *)
Wanted(r) == r.wired /\ r.ruleset.framework = "rfnbo" /\ r.latest # {}

(* What has not been read yet is empty, and what is being read is wanted.   *)
Reached(r) ==
    /\ r.pc = "latest" => r.latest = {}
    /\ r.pc \in {"latest", "prices"} => r.prices = Nothing
    /\ r.pc \in {"latest", "prices", "history"} => r.base = Nothing
    /\ r.pc # "judge" => r.extra = Nothing
    /\ r.pc = "prices" => r.ruleset.surplus # {}
    /\ r.pc \in {"history", "store", "extra"} => Wanted(r)
    /\ r.pc = "extra" => NeedsExtra(r.points, The(r.latest).at)

(* The samples of the window are between its depth and the latest           *)
(* measurement, the extra ones before the window.                            *)
InWindow(t, anchor) == anchor - Lookback <= t /\ t <= anchor

Anchored(r) ==
    /\ \A t \in DOMAIN r.base : r.latest # {} /\ InWindow(t, The(r.latest).at)
    /\ \A t \in DOMAIN r.extra : r.latest # {} /\ t < The(r.latest).at - Lookback

(* A request lasts no longer than it may. *)
Timely(r) == r.since <= now /\ now - r.since <= Lag

(* While no row has been written and no read has failed for long enough,    *)
(* each read that has been made is what the tables still answer.             *)
LatestRead(r) == r.latest = LatestOf(rows)

PricesRead(r) == r.prices = IF r.ruleset.surplus = {} THEN Nothing ELSE PricesOf(prices, r.points)

HistoryRead(r) == r.base = IF Wanted(r) THEN BaseRead(rows, The(r.latest).at) ELSE Nothing

ExtraWasRead(r) ==
    r.extra = IF Wanted(r) /\ NeedsExtra(r.points, The(r.latest).at)
              THEN ExtraRead(rows, r.points, The(r.latest).at) ELSE Nothing

Current(r) == r.settled =>
    /\ quiet = Settling
    /\ r.pc # "latest" => LatestRead(r)
    /\ r.pc \notin {"latest", "prices"} => PricesRead(r)
    /\ r.pc \notin {"latest", "prices", "history"} => HistoryRead(r)
    /\ r.pc = "judge" => ExtraWasRead(r)

(* A history about to be stored was read since the last write, or that      *)
(* write came after the request began.                                       *)
FreshToStore(r) == r.pc = "store" => r.base = BaseRead(rows, The(r.latest).at) \/ quiet <= now - r.since

RequestInv(r) ==
    r \in InProgress /\ Reached(r) /\ Anchored(r) /\ Timely(r) /\ Current(r) /\ FreshToStore(r)

(* The entry of the cache is what the table answers, or the last time it    *)
(* changed or could not be read is no longer ago than the entry, whose       *)
(* request may have begun earlier.                                           *)
EntryInv(e) ==
    /\ e \in [anchor : Instants, storedAt : Nat, base : Histories] /\ e.storedAt <= now
    /\ \A t \in DOMAIN e.base : InWindow(t, e.anchor)
    /\ e.base = BaseRead(rows, e.anchor) \/ quiet <= now - e.storedAt + Lag

TablesInv ==
    /\ rows \in [Instants -> RowsOf(Shares)] /\ prices \in [Hours -> {{}} \cup {{p} : p \in Prices}]
    /\ now \in Nat /\ quiet \in 0 .. Settling

CacheInv == \A e \in cache : cache = {e} /\ EntryInv(e)

AnswerInv == Answered =>
    /\ answer.body = {BodyOf(answer.request)} /\ answer.request.pc = "judge" /\ RequestInv(answer.request)

OverlayInv ==
    /\ TablesInv /\ CacheInv /\ AnswerInv
    /\ req = NoRequest \/ RequestInv(req)

-----------------------------------------------------------------------------
(* Lemmas about the operators. *)
LEMMA ClampRange == \A x : Clamp(x) \in 0 .. 100 /\ (x \in 0 .. 100 => Clamp(x) = x)
BY DEF Clamp

LEMMA TheOne == \A x : The({x}) = x
BY DEF The

LEMMA SettlingType == Settling \in Nat /\ Settling = Ttl + Lag /\ Ttl \in Nat /\ Lag \in Nat
BY OverlayAssumption DEF Settling

(* A finite set of numbers has a last one: among what comes after each, the *)
(* least set is empty.                                                       *)
LEMMA LastAmong ==
    ASSUME NEW I, I \subseteq Nat, IsFiniteSet(I), NEW S, S \subseteq I, S # {}
    PROVE  \E last \in S : \A u \in S : u <= last
<1> DEFINE After(t) == {u \in S : t < u}
<1> DEFINE Afters == {After(t) : t \in S}
<1>2. FiniteSubsetsOf(I) = SUBSET I  BY FS_FiniteSubsetsOfFinite, Zenon
<1>3. Afters \subseteq SUBSET I /\ Afters # {}  OBVIOUS
<1>4. IsWellFoundedOn(StrictSubsetOrdering(I), SUBSET I)
  BY <1>2, FS_StrictSubsetOrderingWellFounded
<1>5. PICK least \in Afters : \A A \in Afters : <<A, least>> \notin StrictSubsetOrdering(I)
  <2> HIDE DEF Afters
  <2> QED  BY <1>3, <1>4, WFMin, Zenon
<1>6. PICK last \in S : least = After(last)  OBVIOUS
<1>7. ASSUME NEW u \in S, last < u  PROVE FALSE
  <2>1. After(u) \in Afters /\ After(u) \in SUBSET I /\ least \in SUBSET I  BY <1>3
  <2>2. ASSUME NEW v \in After(u)  PROVE v \in least
    <3>1. v \in Nat /\ u \in Nat /\ last \in Nat  OBVIOUS
    <3>2. last < v /\ v \in S  BY <3>1, <1>7
    <3> QED  BY <3>2, <1>6
  <2>3. u \in least /\ u \notin After(u)  BY <1>6, <1>7
  <2>4. <<After(u), least>> \in StrictSubsetOrdering(I)
    <3>1. After(u) \subseteq least /\ After(u) # least  BY <2>2, <2>3
    <3> HIDE DEF After
    <3> QED  BY <2>1, <3>1 DEF StrictSubsetOrdering
  <2> QED  BY <1>5, <2>1, <2>4
<1> QED  BY <1>7

LEMMA LastExists ==
    ASSUME NEW S, S \subseteq Instants, S # {}
    PROVE  \E last \in S : \A u \in S : u <= last
BY OverlayAssumption, LastAmong

LEMMA RowShape ==
    ASSUME NEW row \in RowsOf(Shares)
    PROVE  row.share \in {{}} \cup {{s} : s \in Shares}
<1>1. CASE row = NoRow  BY <1>1 DEF NoRow
<1>2. CASE row \in [known : {TRUE}, share : {{}} \cup {{s} : s \in Shares}]  BY <1>2
<1> QED  BY <1>1, <1>2 DEF RowsOf

LEMMA ReadIsHistory ==
    ASSUME NEW table \in [Instants -> RowsOf(Shares)], NEW from, NEW to
    PROVE  /\ SharesIn(table, from, to) \in Histories
           /\ \A t \in DOMAIN SharesIn(table, from, to) : t \in Instants /\ from <= t /\ t < to
<1> DEFINE D == {u \in Instants : from <= u /\ u < to /\ table[u].share # {}}
<1>1. ASSUME NEW t \in D  PROVE The(table[t].share) \in Shares
  <2>1. table[t] \in RowsOf(Shares) /\ table[t].share # {}  BY <1>1
  <2>2. PICK s \in Shares : table[t].share = {s}  BY <2>1, RowShape
  <2> QED  BY <2>2, TheOne
<1>2. SharesIn(table, from, to) = [t \in D |-> The(table[t].share)]  BY DEF SharesIn
<1> HIDE DEF D
<1>3. SharesIn(table, from, to) \in [D -> Shares]  BY <1>1, <1>2
<1>4. DOMAIN SharesIn(table, from, to) = D  BY <1>2
<1>5. D \in SUBSET Instants  BY DEF D
<1> QED  BY <1>3, <1>4, <1>5 DEF Histories, D

LEMMA NothingIsHistory == Nothing \in Histories /\ Nothing \in Tariffs
<1>1. DOMAIN Nothing = {} /\ Nothing \in [{} -> Shares] /\ Nothing \in [{} -> Prices]  BY DEF Nothing
<1> QED  BY <1>1 DEF Histories, Tariffs

LEMMA BaseIsAnchored ==
    ASSUME NEW table \in [Instants -> RowsOf(Shares)], NEW anchor \in Instants
    PROVE  BaseRead(table, anchor) \in Histories /\ \A t \in DOMAIN BaseRead(table, anchor) : InWindow(t, anchor)
<1>1. ASSUME NEW t \in Instants, t < anchor + Minute  PROVE t <= anchor
  BY <1>1, OverlayAssumption
<1> QED  BY <1>1, ReadIsHistory DEF BaseRead, InWindow

(* The extra read is of instants before the window. *)
LEMMA ExtraIsBefore ==
    ASSUME NEW table \in [Instants -> RowsOf(Shares)], NEW series \in Seq(Point), series # <<>>,
           NEW anchor \in Instants, NeedsExtra(series, anchor)
    PROVE  /\ ExtraRead(table, series, anchor) \in Histories
           /\ \A t \in DOMAIN ExtraRead(table, series, anchor) : t < anchor - Lookback
<1> DEFINE start == anchor - Lookback
           early == {n \in DOMAIN series : series[n].at < start}
           below == CHOOSE n \in DOMAIN series :
                       series[n].at < start /\ \A m \in DOMAIN series : series[m].at < start => m <= n
           end == IF series[below].at + Minute < start THEN series[below].at + Minute ELSE start
<1>1. anchor \in Int /\ Lookback \in Int /\ Minute \in Int /\ start \in Int /\ Instants \subseteq Int
  <2>1. Instants \subseteq Nat /\ Lookback \in Nat /\ Minute \in Nat  BY OverlayAssumption
  <2> QED  BY <2>1
<1>2. DOMAIN series = 1 .. Len(series) /\ Len(series) \in Nat /\ 1 \in DOMAIN series  OBVIOUS
<1>3. DOMAIN series \subseteq Nat /\ IsFiniteSet(DOMAIN series)
  <2>1. IsFiniteSet(1 .. Len(series))  BY <1>2, FS_Interval
  <2> QED  BY <1>2, <2>1
<1>4. early \subseteq DOMAIN series /\ early # {}
  <2>1. series[1].at < start  BY DEF NeedsExtra
  <2> QED  BY <1>2, <2>1
<1>5. below \in DOMAIN series
  <2>1. \E n \in early : \A m \in early : m <= n
    <3> HIDE DEF early
    <3> QED  BY <1>3, <1>4, LastAmong
  <2>2. \E n \in DOMAIN series :
           series[n].at < start /\ \A m \in DOMAIN series : series[m].at < start => m <= n
    BY <2>1
  <2> QED  BY <2>2
<1>6. series[below].at \in Int
  <2> HIDE DEF below
  <2>1. series[below] \in Point  BY <1>5
  <2> QED  BY <2>1 DEF Point
<1>7. end \in Int /\ end <= start
  <2> HIDE DEF below, start
  <2> QED  BY <1>1, <1>6
<1>8. ExtraRead(table, series, anchor) = SharesIn(table, series[1].at - NOWCAST_COVERAGE, end)
  BY DEF ExtraRead
<1>9. ASSUME NEW t \in DOMAIN ExtraRead(table, series, anchor)  PROVE t < start
  <2> HIDE DEF end
  <2>1. t \in Instants /\ t < end  BY <1>8, <1>9, ReadIsHistory
  <2> QED  BY <1>1, <1>7, <2>1
<1>10. ExtraRead(table, series, anchor) \in Histories
  <2> HIDE DEF end
  <2> QED  BY <1>8, ReadIsHistory
<1> QED  BY <1>9, <1>10

LEMMA LatestIsMeasured ==
    ASSUME NEW table \in [Instants -> RowsOf(Shares)]
    PROVE  LatestOf(table) \in {{}} \cup {{m} : m \in Measured}
<1> DEFINE known == {t \in Instants : table[t].known}
<1> DEFINE last == CHOOSE t \in known : \A u \in known : u <= t
<1>1. CASE known = {}  BY <1>1 DEF LatestOf
<1>2. CASE known # {}
  <2>1. \E t \in known : \A u \in known : u <= t  BY <1>2, LastExists
  <2>2. last \in known  BY <2>1
  <2>3. LatestOf(table) = {[at |-> last, share |-> table[last].share]}  BY <1>2 DEF LatestOf
  <2> HIDE DEF last
  <2>4. table[last].share \in {{}} \cup {{s} : s \in Shares}  BY <2>2, RowShape
  <2>5. [at |-> last, share |-> table[last].share] \in Measured  BY <2>2, <2>4 DEF Measured
  <2> QED  BY <2>3, <2>5
<1> QED  BY <1>1, <1>2

LEMMA ReadIsTariff ==
    ASSUME NEW table \in [Hours -> {{}} \cup {{p} : p \in Prices}], NEW series
    PROVE  PricesOf(table, series) \in Tariffs
<1> DEFINE D == {u \in Hours : /\ series[1].at - MAX_PRICE_AGE <= u
                               /\ u < series[Len(series)].at + Minute /\ table[u] # {}}
<1>1. ASSUME NEW t \in D  PROVE The(table[t]) \in Prices
  <2>1. PICK p \in Prices : table[t] = {p}  BY <1>1
  <2> QED  BY <2>1, TheOne
<1>2. PricesOf(table, series) = [t \in D |-> The(table[t])]  BY DEF PricesOf
<1>3. D \in SUBSET Hours  OBVIOUS
<1> HIDE DEF D
<1>4. PricesOf(table, series) \in [D -> Prices]  BY <1>1, <1>2
<1> QED  BY <1>3, <1>4 DEF Tariffs
-----------------------------------------------------------------------------
(* The invariant holds at first, and after each action. *)
LEMMA InitInv == Init => OverlayInv
<1> SUFFICES ASSUME Init PROVE OverlayInv  OBVIOUS
<1>1. rows \in [Instants -> RowsOf(Shares)]  BY DEF Init
<1>2. prices \in [Hours -> {{}} \cup {{p} : p \in Prices}]  BY DEF Init
<1>3. now \in Nat /\ quiet \in 0 .. Settling /\ cache = {} /\ req = NoRequest  BY SettlingType DEF Init
<1>4. ~Answered  BY DEF Init, Answered, NoAnswer
<1> QED  BY <1>1, <1>2, <1>3, <1>4 DEF OverlayInv, TablesInv, CacheInv, AnswerInv

(* The invariant of a request in progress, once its fields are known. *)
LEMMA NotIdle == OverlayInv /\ req.pc # "idle" => RequestInv(req)
BY DEF OverlayInv, NoRequest

LEMMA Unanswered == answer' = NoAnswer => AnswerInv'
BY DEF AnswerInv, Answered, NoAnswer

LEMMA SameTables ==
    OverlayInv /\ UNCHANGED <<rows, prices, now, quiet>> => TablesInv'
BY DEF OverlayInv, TablesInv

LEMMA SameCache ==
    OverlayInv /\ UNCHANGED <<rows, prices, cache, now, quiet>> => TablesInv' /\ CacheInv'
BY DEF OverlayInv, TablesInv, CacheInv, EntryInv

LEMMA ReadsShape ==
    ASSUME NEW value, NEW nothing, NEW read \in Reads(value, nothing)
    PROVE  /\ read.failed \in BOOLEAN
           /\ ~read.failed => read.got = value
           /\ read.failed => read.got = nothing
<1>1. CASE read = [got |-> value, failed |-> FALSE]  BY <1>1
<1>2. CASE read = [got |-> nothing, failed |-> TRUE]  BY <1>2
<1> QED  BY <1>1, <1>2 DEF Reads

LEMMA ReadLatestInv == OverlayInv /\ ReadLatest => OverlayInv'
<1> SUFFICES ASSUME OverlayInv, ReadLatest PROVE OverlayInv'  OBVIOUS
<1>1. RequestInv(req) /\ req.pc = "latest"  BY NotIdle DEF ReadLatest
<1>2. req \in InProgress  BY <1>1 DEF RequestInv
<1>3. TablesInv' /\ CacheInv'  BY SameCache DEF ReadLatest
<1>4. AnswerInv'  BY Unanswered DEF ReadLatest
<1>5. PICK read \in Reads(LatestOf(rows), {}) :
         req' = [req EXCEPT !.latest = read.got, !.settled = @ /\ ~read.failed,
                    !.pc = IF req.ruleset.surplus # {} THEN "prices" ELSE AfterPrices(read.got)]
  BY DEF ReadLatest
<1>6. read.got \in {{}} \cup {{m} : m \in Measured}
  BY LatestIsMeasured DEF Reads, OverlayInv, TablesInv
<1>7. /\ req'.pc = IF req.ruleset.surplus # {} THEN "prices" ELSE AfterPrices(read.got)
      /\ req'.settled = (req.settled /\ ~read.failed) /\ req'.latest = read.got
      /\ req'.wired = req.wired /\ req'.ruleset = req.ruleset /\ req'.points = req.points /\ req'.since = req.since
      /\ req'.prices = req.prices /\ req'.base = req.base /\ req'.extra = req.extra
  BY <1>2, <1>5 DEF InProgress
<1>8. req' \in InProgress
  <2>1. read.failed \in BOOLEAN  BY ReadsShape
  <2>2. AfterPrices(read.got) \in {"history", "judge"}  BY DEF AfterPrices
  <2> QED  BY <1>2, <1>5, <1>6, <2>1, <2>2 DEF InProgress
<1>9. Reached(req')
  <2>1. AfterPrices(read.got) = IF Wanted(req') THEN "history" ELSE "judge"
    BY <1>7 DEF AfterPrices, Wanted
  <2> QED  BY <1>1, <1>7, <2>1 DEF RequestInv, Reached
<1>10. Anchored(req') /\ (Timely(req))'
  <2>1. req.base = Nothing /\ req.extra = Nothing  BY <1>1 DEF RequestInv, Reached
  <2>2. UNCHANGED now  BY DEF ReadLatest
  <2> QED  BY <1>1, <1>7, <2>1, <2>2 DEF RequestInv, Timely, Anchored, Nothing
<1>11. (Current(req))'
  <2> SUFFICES ASSUME req'.settled PROVE (Current(req))'  BY DEF Current
  <2>1. req.settled /\ ~read.failed  BY <1>7
  <2>2. quiet' = Settling /\ rows' = rows /\ prices' = prices  BY <1>1, <2>1 DEF RequestInv, Current, ReadLatest
  <2>3. (LatestRead(req))'
    <3>1. req'.latest = LatestOf(rows)  BY <1>7, <2>1, ReadsShape
    <3> QED  BY <2>2, <3>1 DEF LatestRead
  <2>4. AfterPrices(read.got) = IF Wanted(req') THEN "history" ELSE "judge"
    BY <1>7 DEF AfterPrices, Wanted
  <2>5. req'.prices = Nothing /\ req'.base = Nothing /\ req'.extra = Nothing
    BY <1>1, <1>7 DEF RequestInv, Reached
  <2>6. req'.pc \notin {"latest", "prices"} => (PricesRead(req))'
    BY <1>7, <2>5 DEF PricesRead
  <2>7. req'.pc \notin {"latest", "prices", "history"} => (HistoryRead(req))' /\ (ExtraWasRead(req))'
    BY <1>7, <2>4, <2>5 DEF HistoryRead, ExtraWasRead
  <2> QED  BY <2>2, <2>3, <2>6, <2>7 DEF Current
<1>12. (FreshToStore(req))'
  BY <1>7 DEF FreshToStore, AfterPrices
<1> QED  BY <1>3, <1>4, <1>8, <1>9, <1>10, <1>11, <1>12 DEF OverlayInv, RequestInv

LEMMA ReadPricesInv == OverlayInv /\ ReadPrices => OverlayInv'
<1> SUFFICES ASSUME OverlayInv, ReadPrices PROVE OverlayInv'  OBVIOUS
<1>1. RequestInv(req) /\ req.pc = "prices"  BY NotIdle DEF ReadPrices
<1>2. req \in InProgress  BY <1>1 DEF RequestInv
<1>3. TablesInv' /\ CacheInv'  BY SameCache DEF ReadPrices
<1>4. AnswerInv'  BY Unanswered DEF ReadPrices
<1>5. PICK read \in Reads(PricesOf(prices, req.points), Nothing) :
         req' = [req EXCEPT !.prices = read.got, !.settled = @ /\ ~read.failed, !.pc = AfterPrices(req.latest)]
  BY DEF ReadPrices
<1>6. read.got \in Tariffs
  BY ReadIsTariff, NothingIsHistory, ReadsShape DEF OverlayInv, TablesInv
<1>7. /\ req'.pc = AfterPrices(req.latest)
      /\ req'.settled = (req.settled /\ ~read.failed) /\ req'.latest = req.latest
      /\ req'.wired = req.wired /\ req'.ruleset = req.ruleset /\ req'.points = req.points /\ req'.since = req.since
      /\ req'.prices = read.got /\ req'.base = req.base /\ req'.extra = req.extra
  BY <1>2, <1>5 DEF InProgress
<1>8. req' \in InProgress
  <2>1. read.failed \in BOOLEAN  BY ReadsShape
  <2>2. AfterPrices(req.latest) \in {"history", "judge"}  BY DEF AfterPrices
  <2> QED  BY <1>2, <1>5, <1>6, <2>1, <2>2 DEF InProgress
<1>9. AfterPrices(req.latest) = IF Wanted(req') THEN "history" ELSE "judge"
  BY <1>7 DEF AfterPrices, Wanted
<1>10. req'.base = Nothing /\ req'.extra = Nothing  BY <1>1, <1>7 DEF RequestInv, Reached
<1>11. Reached(req')  BY <1>7, <1>9, <1>10 DEF Reached
<1>12. Anchored(req') /\ (Timely(req))'
  <2>1. UNCHANGED now  BY DEF ReadPrices
  <2> QED  BY <1>1, <1>7, <1>10, <2>1 DEF RequestInv, Timely, Anchored, Nothing
<1>13. (Current(req))'
  <2> SUFFICES ASSUME req'.settled PROVE (Current(req))'  BY DEF Current
  <2>1. req.settled /\ ~read.failed  BY <1>7
  <2>2. quiet' = Settling /\ rows' = rows /\ prices' = prices  BY <1>1, <2>1 DEF RequestInv, Current, ReadPrices
  <2>3. (LatestRead(req))'  BY <1>1, <1>7, <2>1, <2>2 DEF RequestInv, Current, LatestRead
  <2>4. (PricesRead(req))'
    <3>1. req'.prices = PricesOf(prices, req'.points)  BY <1>7, <2>1, ReadsShape
    <3>2. req'.ruleset.surplus # {}  BY <1>1, <1>7 DEF RequestInv, Reached
    <3> QED  BY <2>2, <3>1, <3>2 DEF PricesRead
  <2>5. req'.pc # "history" => (HistoryRead(req))' /\ (ExtraWasRead(req))'
    BY <1>7, <1>9, <1>10 DEF HistoryRead, ExtraWasRead
  <2> QED  BY <2>2, <2>3, <2>4, <2>5 DEF Current
<1>14. (FreshToStore(req))'  BY <1>7, <1>9 DEF FreshToStore
<1> QED  BY <1>3, <1>4, <1>8, <1>11, <1>12, <1>13, <1>14 DEF OverlayInv, RequestInv

(* With the history, either from the cache or read; a settled request finds *)
(* a cache as young as it must be only when it is what the table answers.   *)
LEMMA HitIsCurrent ==
    ASSUME OverlayInv, NEW e \in cache, now - e.storedAt < Ttl, quiet = Settling
    PROVE  e.base = BaseRead(rows, e.anchor)
<1>1. EntryInv(e) /\ now \in Nat  BY DEF OverlayInv, CacheInv, TablesInv
<1>2. e.storedAt \in Nat  BY <1>1 DEF EntryInv
<1>3. ~(quiet <= now - e.storedAt + Lag)  BY <1>1, <1>2, SettlingType
<1> QED  BY <1>1, <1>3 DEF EntryInv

LEMMA ReadHistoryInv == OverlayInv /\ ReadHistory => OverlayInv'
<1> SUFFICES ASSUME OverlayInv, ReadHistory PROVE OverlayInv'  OBVIOUS
<1>1. RequestInv(req) /\ req.pc = "history"  BY NotIdle DEF ReadHistory
<1>2. req \in InProgress /\ Wanted(req)  BY <1>1 DEF RequestInv, Reached
<1>3. AnswerInv'  BY Unanswered DEF ReadHistory
<1>4. PICK m \in Measured : req.latest = {m} /\ The(req.latest) = m
  <2>1. req.latest # {} /\ req.latest \in {{}} \cup {{m} : m \in Measured}
    BY <1>2 DEF Wanted, InProgress
  <2> QED  BY <2>1, TheOne
<1>5. m.at \in Instants  BY DEF Measured
<1>6. req.extra = Nothing  BY <1>1 DEF RequestInv, Reached
<1>7. AfterBase \in {"extra", "judge"} /\ (AfterBase = "extra" <=> NeedsExtra(req.points, m.at))
  BY <1>4 DEF AfterBase
<1>8. CASE Hit
  <2>1. req' = [req EXCEPT !.base = The(cache).base, !.pc = AfterBase] /\ UNCHANGED <<rows, prices, cache, now, quiet>>
    BY <1>8 DEF ReadHistory
  <2>2. TablesInv' /\ CacheInv'  BY <2>1, SameCache
  <2>3. PICK e \in cache : e.anchor = m.at /\ now - e.storedAt < Ttl  BY <1>4, <1>8 DEF Hit
  <2>4. The(cache) = e /\ EntryInv(e)  BY <2>3, TheOne DEF OverlayInv, CacheInv
  <2>5. e.base \in Histories /\ \A t \in DOMAIN e.base : InWindow(t, m.at)  BY <2>3, <2>4 DEF EntryInv
  <2>6. /\ req'.pc = AfterBase /\ req'.settled = req.settled /\ req'.latest = req.latest
        /\ req'.wired = req.wired /\ req'.ruleset = req.ruleset /\ req'.points = req.points /\ req'.since = req.since
        /\ req'.prices = req.prices /\ req'.base = e.base /\ req'.extra = req.extra
    BY <1>2, <2>1, <2>4 DEF InProgress
  <2>7. req' \in InProgress  BY <1>2, <1>7, <2>1, <2>4, <2>5 DEF InProgress
  <2>8. Wanted(req')  BY <1>2, <2>6 DEF Wanted
  <2>9. Reached(req')  BY <1>4, <1>6, <1>7, <2>6, <2>8 DEF Reached
  <2>10. Anchored(req') /\ (Timely(req))'
    BY <1>1, <1>4, <1>6, <2>1, <2>5, <2>6 DEF RequestInv, Timely, Anchored, Nothing
  <2>11. (Current(req))'
    <3> SUFFICES ASSUME req'.settled PROVE (Current(req))'  BY DEF Current
    <3>1. req.settled  BY <2>6
    <3>2. Current(req)  BY <1>1 DEF RequestInv
    <3>3. quiet' = Settling  BY <2>1, <3>1, <3>2 DEF Current
    <3>4. LatestRead(req)' /\ PricesRead(req)'
      BY <1>1, <2>1, <2>6, <3>1, <3>2 DEF Current, LatestRead, PricesRead
    <3>5. HistoryRead(req)'
      <4>1. e.base = BaseRead(rows, e.anchor)  BY <2>1, <2>3, <3>3, HitIsCurrent
      <4> QED  BY <1>4, <2>1, <2>3, <2>6, <2>8, <4>1 DEF HistoryRead
    <3>6. req'.pc = "judge" => ExtraWasRead(req)'
      BY <1>4, <1>6, <1>7, <2>6 DEF ExtraWasRead
    <3> QED  BY <3>3, <3>4, <3>5, <3>6 DEF Current
  <2>12. (FreshToStore(req))'  BY <1>7, <2>6 DEF FreshToStore
  <2> QED  BY <1>3, <2>2, <2>7, <2>9, <2>10, <2>11, <2>12 DEF OverlayInv, RequestInv
<1>9. CASE ~Hit
  <2>1. PICK read \in Reads(BaseRead(rows, m.at), Nothing) :
          /\ req' = [req EXCEPT !.base = read.got, !.settled = @ /\ ~read.failed, !.pc = "store"]
          /\ quiet' = IF read.failed THEN 0 ELSE quiet
    BY <1>4, <1>9 DEF ReadHistory
  <2>2. UNCHANGED <<rows, prices, cache, now>>  BY DEF ReadHistory
  <2>3. read.failed \in BOOLEAN /\ (~read.failed => read.got = BaseRead(rows, m.at))
        /\ (read.failed => read.got = Nothing)
    BY ReadsShape
  <2>4. quiet' \in 0 .. Settling /\ quiet' <= quiet
    BY <2>1, SettlingType DEF OverlayInv, TablesInv
  <2>5. TablesInv'  BY <2>2, <2>4 DEF OverlayInv, TablesInv
  <2>6. CacheInv'
    <3> SUFFICES ASSUME NEW e \in cache PROVE cache = {e} /\ (EntryInv(e))'  BY <2>2 DEF CacheInv
    <3>1. cache = {e} /\ EntryInv(e)  BY DEF OverlayInv, CacheInv
    <3>2. quiet <= now - e.storedAt + Lag => quiet' <= now - e.storedAt + Lag
      <4>1. e.storedAt \in Nat /\ now \in Nat /\ quiet \in Nat /\ quiet' \in Nat
        BY <2>4, <3>1 DEF EntryInv, OverlayInv, TablesInv
      <4> QED  BY <2>4, <4>1, SettlingType
    <3> QED  BY <2>2, <3>1, <3>2 DEF EntryInv
  <2>7. read.got \in Histories /\ \A t \in DOMAIN read.got : InWindow(t, m.at)
    <3>1. DOMAIN Nothing = {}  BY DEF Nothing
    <3> QED  BY <1>5, <2>3, <3>1, BaseIsAnchored, NothingIsHistory DEF OverlayInv, TablesInv
  <2>8. /\ req'.pc = "store" /\ req'.settled = (req.settled /\ ~read.failed) /\ req'.latest = req.latest
        /\ req'.wired = req.wired /\ req'.ruleset = req.ruleset /\ req'.points = req.points /\ req'.since = req.since
        /\ req'.prices = req.prices /\ req'.base = read.got /\ req'.extra = req.extra
    BY <1>2, <2>1 DEF InProgress
  <2>9. req' \in InProgress  BY <1>2, <2>1, <2>3, <2>7 DEF InProgress
  <2>10. Wanted(req')  BY <1>2, <2>8 DEF Wanted
  <2>11. Reached(req')  BY <1>6, <2>8, <2>10 DEF Reached
  <2>12. Anchored(req') /\ (Timely(req))'
    BY <1>1, <1>4, <1>6, <2>2, <2>7, <2>8 DEF RequestInv, Timely, Anchored, Nothing
  <2>13. (Current(req))'
    <3> SUFFICES ASSUME req'.settled PROVE (Current(req))'  BY DEF Current
    <3>1. req.settled /\ ~read.failed  BY <2>8
    <3>2. Current(req)  BY <1>1 DEF RequestInv
    <3>3. quiet' = Settling  BY <2>1, <3>1, <3>2 DEF Current
    <3>4. LatestRead(req)' /\ PricesRead(req)'
      BY <1>1, <2>2, <2>8, <3>1, <3>2 DEF Current, LatestRead, PricesRead
    <3>5. HistoryRead(req)'
      BY <1>4, <2>2, <2>3, <2>8, <2>10, <3>1 DEF HistoryRead
    <3> QED  BY <2>8, <3>3, <3>4, <3>5 DEF Current
  <2>14. (FreshToStore(req))'
    <3>1. req.since \in Nat /\ now \in Nat /\ req.since <= now
      BY <1>1, <1>2 DEF RequestInv, Timely, InProgress, OverlayInv, TablesInv
    <3>2. 0 <= now - req.since  BY <3>1
    <3>3. CASE read.failed  BY <2>1, <2>2, <2>8, <3>2, <3>3 DEF FreshToStore
    <3>4. CASE ~read.failed  BY <1>4, <2>2, <2>3, <2>8, <3>4 DEF FreshToStore
    <3> QED  BY <2>3, <3>3, <3>4
  <2> QED  BY <1>3, <2>5, <2>6, <2>9, <2>11, <2>12, <2>13, <2>14 DEF OverlayInv, RequestInv
<1> QED  BY <1>8, <1>9

LEMMA StoreHistoryInv == OverlayInv /\ StoreHistory => OverlayInv'
<1> SUFFICES ASSUME OverlayInv, StoreHistory PROVE OverlayInv'  OBVIOUS
<1>1. RequestInv(req) /\ req.pc = "store"  BY NotIdle DEF StoreHistory
<1>2. req \in InProgress /\ Wanted(req) /\ req.extra = Nothing  BY <1>1 DEF RequestInv, Reached
<1>3. AnswerInv' /\ TablesInv'  BY Unanswered, SameTables DEF StoreHistory
<1>4. PICK m \in Measured : req.latest = {m} /\ The(req.latest) = m
  <2>1. req.latest # {} /\ req.latest \in {{}} \cup {{m} : m \in Measured}
    BY <1>2 DEF Wanted, InProgress
  <2> QED  BY <2>1, TheOne
<1>5. m.at \in Instants /\ req.base \in Histories  BY <1>2 DEF Measured, InProgress
<1>6. PICK e : e = [anchor |-> m.at, storedAt |-> now, base |-> req.base]  OBVIOUS
<1>7. cache' = {e} /\ UNCHANGED <<rows, prices, now, quiet>>  BY <1>4, <1>6 DEF StoreHistory
<1>8. (EntryInv(e))'
  <2>1. now \in Nat /\ quiet \in Nat  BY SettlingType DEF OverlayInv, TablesInv
  <2>2. e.anchor = m.at /\ e.storedAt = now /\ e.base = req.base  BY <1>6
  <2>3. e \in [anchor : Instants, storedAt : Nat, base : Histories]  BY <1>5, <1>6, <2>1
  <2>4. \A t \in DOMAIN e.base : InWindow(t, e.anchor)  BY <1>1, <1>4, <2>2 DEF RequestInv, Anchored
  <2>5. e.base = BaseRead(rows, e.anchor) \/ quiet <= now - req.since
    BY <1>1, <1>4, <2>2 DEF RequestInv, FreshToStore
  <2>6. e.storedAt <= now /\ (quiet <= now - req.since => quiet <= now - e.storedAt + Lag)
    <3>1. req.since \in Nat /\ now - req.since <= Lag  BY <1>1, <1>2 DEF RequestInv, Timely, InProgress
    <3> QED  BY <2>1, <2>2, <3>1, SettlingType
  <2> QED  BY <1>7, <2>3, <2>4, <2>5, <2>6 DEF EntryInv
<1>9. CacheInv'  BY <1>7, <1>8 DEF CacheInv
<1>10. req' = [req EXCEPT !.pc = AfterBase]  BY DEF StoreHistory
<1>11. AfterBase \in {"extra", "judge"} /\ (AfterBase = "extra" <=> NeedsExtra(req.points, m.at))
  BY <1>4 DEF AfterBase
<1>12. req' \in InProgress  BY <1>2, <1>10, <1>11 DEF InProgress
<1>13. /\ req'.pc = AfterBase /\ req'.settled = req.settled /\ req'.latest = req.latest
       /\ req'.wired = req.wired /\ req'.ruleset = req.ruleset /\ req'.points = req.points /\ req'.since = req.since
       /\ req'.prices = req.prices /\ req'.base = req.base /\ req'.extra = req.extra
  BY <1>2, <1>10 DEF InProgress
<1>14. Wanted(req')  BY <1>2, <1>13 DEF Wanted
<1>15. Reached(req')  BY <1>2, <1>4, <1>11, <1>13, <1>14 DEF Reached
<1>16. Anchored(req') /\ (Timely(req))'  BY <1>1, <1>7, <1>13 DEF RequestInv, Timely, Anchored
<1>17. (Current(req))'
  <2> SUFFICES ASSUME req'.settled PROVE (Current(req))'  BY DEF Current
  <2>1. req.settled /\ Current(req)  BY <1>1, <1>13 DEF RequestInv
  <2>2. quiet' = Settling /\ (LatestRead(req))' /\ (PricesRead(req))'
    BY <1>1, <1>7, <1>13, <2>1 DEF Current, LatestRead, PricesRead
  <2>3. HistoryRead(req)  BY <1>1, <2>1 DEF Current
  <2>4. (HistoryRead(req))'  BY <1>2, <1>7, <1>13, <1>14, <2>3 DEF HistoryRead
  <2>5. req'.pc = "judge" => (ExtraWasRead(req))'
    BY <1>2, <1>4, <1>11, <1>13 DEF ExtraWasRead
  <2> QED  BY <2>2, <2>4, <2>5 DEF Current
<1>18. (FreshToStore(req))'  BY <1>11, <1>13 DEF FreshToStore
<1> QED  BY <1>3, <1>9, <1>12, <1>15, <1>16, <1>17, <1>18 DEF OverlayInv, RequestInv

LEMMA ReadExtraInv == OverlayInv /\ ReadExtra => OverlayInv'
<1> SUFFICES ASSUME OverlayInv, ReadExtra PROVE OverlayInv'  OBVIOUS
<1>1. RequestInv(req) /\ req.pc = "extra"  BY NotIdle DEF ReadExtra
<1>2. req \in InProgress /\ Wanted(req) /\ NeedsExtra(req.points, The(req.latest).at)
  BY <1>1 DEF RequestInv, Reached
<1>3. TablesInv' /\ CacheInv'  BY SameCache DEF ReadExtra
<1>4. AnswerInv'  BY Unanswered DEF ReadExtra
<1>5. PICK read \in Reads(ExtraRead(rows, req.points, The(req.latest).at), Nothing) :
         req' = [req EXCEPT !.extra = read.got, !.settled = @ /\ ~read.failed, !.pc = "judge"]
  BY DEF ReadExtra
<1>6. read.got \in Histories /\ \A t \in DOMAIN read.got : t < The(req.latest).at - Lookback
  <2>1. PICK m \in Measured : req.latest = {m} /\ The(req.latest) = m
    <3>1. req.latest # {} /\ req.latest \in {{}} \cup {{m} : m \in Measured}
      BY <1>2 DEF Wanted, InProgress
    <3> QED  BY <3>1, TheOne
  <2>2. m.at \in Instants  BY DEF Measured
  <2>3. req.points \in Seq(Point) /\ req.points # <<>>
    BY <1>2, OverlayAssumption DEF InProgress
  <2>4. rows \in [Instants -> RowsOf(Shares)]  BY DEF OverlayInv, TablesInv
  <2>5. /\ ExtraRead(rows, req.points, m.at) \in Histories
        /\ \A t \in DOMAIN ExtraRead(rows, req.points, m.at) : t < m.at - Lookback
    BY <1>2, <2>1, <2>2, <2>3, <2>4, ExtraIsBefore
  <2>6. DOMAIN Nothing = {}  BY DEF Nothing
  <2>7. read.got \in {ExtraRead(rows, req.points, m.at), Nothing}  BY <2>1, ReadsShape
  <2> QED  BY <2>1, <2>5, <2>6, <2>7, NothingIsHistory
<1>7. /\ req'.pc = "judge"
      /\ req'.settled = (req.settled /\ ~read.failed) /\ req'.latest = req.latest
      /\ req'.wired = req.wired /\ req'.ruleset = req.ruleset /\ req'.points = req.points /\ req'.since = req.since
      /\ req'.prices = req.prices /\ req'.base = req.base /\ req'.extra = read.got
  BY <1>2, <1>5 DEF InProgress
<1>8. req' \in InProgress
  <2>1. read.failed \in BOOLEAN  BY ReadsShape
  <2> QED  BY <1>2, <1>5, <1>6, <2>1 DEF InProgress
<1>9. Wanted(req')  BY <1>2, <1>7 DEF Wanted
<1>10. Reached(req') /\ (FreshToStore(req))'  BY <1>7 DEF Reached, FreshToStore
<1>11. Anchored(req') /\ (Timely(req))'
  <2>1. UNCHANGED now  BY DEF ReadExtra
  <2> QED  BY <1>1, <1>2, <1>6, <1>7, <2>1 DEF RequestInv, Timely, Wanted, Anchored
<1>12. (Current(req))'
  <2> SUFFICES ASSUME req'.settled PROVE (Current(req))'  BY DEF Current
  <2>1. req.settled /\ ~read.failed /\ Current(req)  BY <1>1, <1>7 DEF RequestInv
  <2>2. UNCHANGED <<rows, prices, quiet>>  BY DEF ReadExtra
  <2>3. quiet' = Settling /\ (LatestRead(req))' /\ (PricesRead(req))'
    BY <1>1, <1>7, <2>1, <2>2 DEF Current, LatestRead, PricesRead
  <2>4. HistoryRead(req)  BY <1>1, <2>1 DEF Current
  <2>5. (HistoryRead(req))'  BY <1>2, <1>7, <1>9, <2>2, <2>4 DEF HistoryRead
  <2>6. (ExtraWasRead(req))'
    <3>1. read.got = ExtraRead(rows, req.points, The(req.latest).at)  BY <2>1, ReadsShape
    <3> QED  BY <1>2, <1>7, <1>9, <2>2, <3>1 DEF ExtraWasRead
  <2> QED  BY <2>3, <2>5, <2>6 DEF Current
<1> QED  BY <1>3, <1>4, <1>8, <1>10, <1>11, <1>12 DEF OverlayInv, RequestInv

(* Requests begin with nothing read, and end with their body. *)
LEMMA AskInv == OverlayInv /\ Ask => OverlayInv'
<1> SUFFICES ASSUME OverlayInv, Ask PROVE OverlayInv'  OBVIOUS
<1>1. TablesInv' /\ CacheInv'  BY SameCache DEF Ask
<1>2. AnswerInv'  BY Unanswered DEF Ask
<1>3. PICK settled \in BOOLEAN : settled = (quiet >= Settling)
  <2>1. CASE quiet >= Settling
    <3>1. (quiet >= Settling) = TRUE  BY <2>1
    <3> QED  BY <3>1
  <2>2. CASE ~(quiet >= Settling)
    <3>1. (quiet >= Settling) = FALSE  BY <2>2
    <3> QED  BY <3>1
  <2> QED  BY <2>1, <2>2
<1>4. PICK q \in Requests : \E r \in resolve_ruleset(q.framework, q.version) :
         req' = [pc |-> "latest", since |-> now, settled |-> quiet >= Settling, wired |-> q.wired, estimator |-> q.estimator,
                 ruleset |-> with_overrides(r, q.surplus, q.threshold, q.kwh), points |-> q.points,
                 latest |-> {}, prices |-> Nothing, base |-> Nothing, extra |-> Nothing]
  BY DEF Ask
<1>5. PICK r \in resolve_ruleset(q.framework, q.version) :
         req' = [pc |-> "latest", since |-> now, settled |-> settled, wired |-> q.wired, estimator |-> q.estimator,
                 ruleset |-> with_overrides(r, q.surplus, q.threshold, q.kwh), points |-> q.points,
                 latest |-> {}, prices |-> Nothing, base |-> Nothing, extra |-> Nothing]
  BY <1>3, <1>4
<1>6. req' \in InProgress
  <2>1. q.wired \in BOOLEAN  BY OverlayAssumption
  <2>2. with_overrides(r, q.surplus, q.threshold, q.kwh) \in Rulesets  BY DEF Rulesets
  <2>3. now \in Nat  BY DEF OverlayInv, TablesInv
  <2> QED  BY <1>5, <2>1, <2>2, <2>3, NothingIsHistory DEF InProgress
<1>7. /\ req'.pc = "latest" /\ req'.settled = settled /\ req'.since = now /\ req'.latest = {}
      /\ req'.prices = Nothing /\ req'.base = Nothing /\ req'.extra = Nothing
  BY <1>5
<1>8. Reached(req') /\ (FreshToStore(req))'  BY <1>7 DEF Reached, FreshToStore
<1>9. Anchored(req') /\ (Timely(req))'
  <2>1. now' = now /\ now \in Nat /\ now - now = 0  BY DEF Ask, OverlayInv, TablesInv
  <2> QED  BY <1>7, <2>1, SettlingType DEF Timely, Anchored, Nothing
<1>10. (Current(req))'
  <2>1. quiet >= Settling => quiet = Settling  BY SettlingType DEF OverlayInv, TablesInv
  <2>2. quiet' = quiet  BY DEF Ask
  <2>3. req'.settled => quiet' = Settling  BY <1>3, <1>7, <2>1, <2>2
  <2> QED  BY <1>7, <2>3 DEF Current
<1> QED  BY <1>1, <1>2, <1>6, <1>8, <1>9, <1>10 DEF OverlayInv, RequestInv

LEMMA JudgeInv == OverlayInv /\ Judge => OverlayInv'
<1> SUFFICES ASSUME OverlayInv, Judge PROVE OverlayInv'  OBVIOUS
<1>1. RequestInv(req) /\ req.pc = "judge"  BY NotIdle DEF Judge
<1>2. TablesInv' /\ CacheInv'  BY SameCache DEF Judge
<1>3. answer'.body = {BodyOf(req)} /\ answer'.request = req /\ req' = NoRequest
  BY DEF Judge
<1>4. UNCHANGED <<rows, prices, now, quiet>>  BY DEF Judge
<1>5. PICK r : r = req  OBVIOUS
<1>6. (RequestInv(r))'
  BY <1>1, <1>4, <1>5 DEF RequestInv, Timely, Current, FreshToStore, LatestRead, PricesRead, HistoryRead, ExtraWasRead
<1>7. AnswerInv'  BY <1>1, <1>3, <1>5, <1>6 DEF AnswerInv
<1> QED  BY <1>2, <1>3, <1>7 DEF OverlayInv, NoRequest

(* A tick ages the entry of the cache no more slowly than the quiet grows,  *)
(* and a write ends the quiet and unsettles the request in progress.        *)
LEMMA TickInv == OverlayInv /\ Tick => OverlayInv'
<1> SUFFICES ASSUME OverlayInv, Tick PROVE OverlayInv'  OBVIOUS
<1>1. /\ now' = now + 1 /\ quiet' = (IF quiet < Settling THEN quiet + 1 ELSE Settling)
      /\ UNCHANGED <<rows, prices, cache, req>>
  BY DEF Tick
<1>2. now \in Nat /\ quiet \in 0 .. Settling /\ Settling \in Nat /\ Lag \in Nat
  BY SettlingType DEF OverlayInv, TablesInv
<1>3. /\ now' \in Nat /\ quiet' \in 0 .. Settling /\ quiet' <= quiet + 1
      /\ quiet = Settling => quiet' = Settling
  BY <1>1, <1>2
<1>4. TablesInv'  BY <1>1, <1>3 DEF OverlayInv, TablesInv
<1>5. AnswerInv'  BY Unanswered DEF Tick
<1>6. req' = NoRequest \/ (RequestInv(req))'
  <2>1. CASE req = NoRequest  BY <1>1, <2>1
  <2>2. CASE RequestInv(req)
    <3>1. req \in InProgress /\ req.pc # "idle"  BY <2>2 DEF RequestInv, InProgress
    <3>2. req.since \in Nat /\ now - req.since < Lag  BY <3>1 DEF Tick, InProgress
    <3>3. (Timely(req))'  BY <1>1, <1>2, <2>2, <3>2 DEF RequestInv, Timely
    <3>4. (Current(req))'
      BY <1>1, <1>3, <2>2 DEF RequestInv, Current, LatestRead, PricesRead, HistoryRead, ExtraWasRead
    <3>5. (FreshToStore(req))'
      <4>1. quiet <= now - req.since => quiet' <= now' - req.since  BY <1>1, <1>2, <1>3, <3>2
      <4> QED  BY <1>1, <2>2, <4>1 DEF RequestInv, FreshToStore
    <3>6. req' \in InProgress /\ Reached(req') /\ Anchored(req')  BY <1>1, <2>2 DEF RequestInv
    <3> QED  BY <3>3, <3>4, <3>5, <3>6 DEF RequestInv
  <2> QED  BY <2>1, <2>2 DEF OverlayInv
<1>7. CacheInv'
  <2> SUFFICES ASSUME NEW e \in cache PROVE cache = {e} /\ (EntryInv(e))'  BY <1>1 DEF CacheInv
  <2>1. cache = {e} /\ EntryInv(e)  BY DEF OverlayInv, CacheInv
  <2>2. e.storedAt \in Nat  BY <2>1 DEF EntryInv
  <2>3. e.storedAt <= now => e.storedAt <= now'  BY <1>1, <1>2, <2>2
  <2>4. quiet <= now - e.storedAt + Lag => quiet' <= now' - e.storedAt + Lag  BY <1>1, <1>2, <1>3, <2>2
  <2> QED  BY <1>1, <2>1, <2>3, <2>4 DEF EntryInv
<1> QED  BY <1>4, <1>5, <1>6, <1>7 DEF OverlayInv

LEMMA WriteInv == OverlayInv /\ Write => OverlayInv'
<1> SUFFICES ASSUME OverlayInv, Write PROVE OverlayInv'  OBVIOUS
<1>1. quiet' = 0 /\ req' = Disturbed(req) /\ UNCHANGED <<cache, now>>  BY DEF Write
<1>2. AnswerInv'  BY Unanswered DEF Write
<1>3. rows' \in [Instants -> RowsOf(Shares)]  BY DEF Write, OverlayInv, TablesInv
<1>4. prices' \in [Hours -> {{}} \cup {{p} : p \in Prices}]  BY DEF Write, OverlayInv, TablesInv
<1>5. TablesInv'  BY <1>1, <1>3, <1>4, SettlingType DEF OverlayInv, TablesInv
<1>6. CacheInv'
  <2> SUFFICES ASSUME NEW e \in cache PROVE cache = {e} /\ (EntryInv(e))'  BY <1>1 DEF CacheInv
  <2>1. cache = {e} /\ EntryInv(e) /\ now \in Nat  BY DEF OverlayInv, CacheInv, TablesInv
  <2>2. e.storedAt \in Nat /\ e.storedAt <= now  BY <2>1 DEF EntryInv
  <2>3. 0 <= now - e.storedAt + Lag  BY <2>1, <2>2, SettlingType
  <2> QED  BY <1>1, <2>1, <2>3 DEF EntryInv
<1>7. CASE req = NoRequest
  <2>1. req' = NoRequest  BY <1>1, <1>7 DEF Disturbed, NoRequest
  <2> QED  BY <1>2, <1>5, <1>6, <2>1 DEF OverlayInv
<1>8. CASE RequestInv(req)
  <2>1. req \in InProgress /\ req.pc # "idle"  BY <1>8 DEF RequestInv, InProgress
  <2>2. req' = [req EXCEPT !.settled = FALSE]  BY <1>1, <2>1 DEF Disturbed
  <2>3. /\ req'.pc = req.pc /\ req'.settled = FALSE /\ req'.latest = req.latest
        /\ req'.wired = req.wired /\ req'.ruleset = req.ruleset /\ req'.points = req.points /\ req'.since = req.since
        /\ req'.prices = req.prices /\ req'.base = req.base /\ req'.extra = req.extra
    BY <2>1, <2>2 DEF InProgress
  <2>4. req' \in InProgress  BY <2>1, <2>2 DEF InProgress
  <2>5. Reached(req')  BY <1>8, <2>3 DEF RequestInv, Reached, Wanted
  <2>6. Anchored(req') /\ (Timely(req))'  BY <1>1, <1>8, <2>3 DEF RequestInv, Timely, Anchored
  <2>7. (Current(req))' /\ (FreshToStore(req))'
    <3>1. now \in Nat /\ req.since \in Nat /\ req.since <= now
      BY <1>8 DEF RequestInv, Timely, InProgress, OverlayInv, TablesInv
    <3>2. 0 <= now - req.since  BY <3>1
    <3> QED  BY <1>1, <2>3, <3>2 DEF Current, FreshToStore
  <2> QED  BY <1>2, <1>5, <1>6, <2>4, <2>5, <2>6, <2>7 DEF OverlayInv, RequestInv
<1> QED  BY <1>7, <1>8 DEF OverlayInv

(* A request that is given up leaves the cache as it is. *)
LEMMA AbandonInv == OverlayInv /\ Abandon => OverlayInv'
<1> SUFFICES ASSUME OverlayInv, Abandon PROVE OverlayInv'  OBVIOUS
<1>1. TablesInv' /\ CacheInv'  BY SameCache DEF Abandon
<1>2. AnswerInv'  BY Unanswered DEF Abandon
<1>3. req' = NoRequest  BY DEF Abandon
<1> QED  BY <1>1, <1>2, <1>3 DEF OverlayInv, NoRequest

LEMMA OverlayInvariant == Spec => []OverlayInv
<1>1. OverlayInv /\ [Next]_vars => OverlayInv'
  <2> SUFFICES ASSUME OverlayInv, [Next]_vars PROVE OverlayInv'  OBVIOUS
  <2>1. CASE UNCHANGED vars
    <3>1. UNCHANGED <<rows, prices, cache, req, answer, now, quiet>>  BY <2>1 DEF vars
    <3>2. TablesInv' /\ CacheInv'  BY <3>1, SameCache
    <3>3. PICK r, a : r = req /\ a = answer.request  OBVIOUS
    <3>4. (RequestInv(r) => (RequestInv(r))') /\ (RequestInv(a) => (RequestInv(a))')
      BY <3>1 DEF RequestInv, Timely, Current, FreshToStore, LatestRead, PricesRead, HistoryRead, ExtraWasRead
    <3>5. AnswerInv'  BY <3>1, <3>3, <3>4 DEF OverlayInv, AnswerInv, Answered
    <3> QED  BY <3>1, <3>2, <3>3, <3>4, <3>5 DEF OverlayInv
  <2> QED
    BY <2>1, TickInv, WriteInv, AskInv, ReadLatestInv, ReadPricesInv, ReadHistoryInv, StoreHistoryInv,
       ReadExtraInv, JudgeInv, AbandonInv DEF Next
<1> QED  BY <1>1, InitInv, PTL DEF Spec

-----------------------------------------------------------------------------
(* The theorems. *)
LEMMA SameRequest ==
    ASSUME NEW r \in InProgress, NEW l, NEW p, NEW b, NEW x,
           l = r.latest, p = r.prices, b = r.base, x = r.extra
    PROVE  [r EXCEPT !.latest = l, !.prices = p, !.base = b, !.extra = x] = r
BY DEF InProgress

(* An answer to a request begun when nothing had been written and no read   *)
(* had failed for a Ttl and the duration of a request, and undisturbed       *)
(* since, is the one of the tables read at once: the cache of                *)
(* share_history and the four reads of evaluate_eligibility change nothing.  *)
THEOREM QuietIsCurrent == Spec => []QuietMeansCurrent
<1>1. OverlayInv => QuietMeansCurrent
  <2> SUFFICES ASSUME OverlayInv, Answered, answer.request.settled PROVE QuietMeansCurrent
    BY DEF QuietMeansCurrent
  <2>1. PICK r : r = answer.request  OBVIOUS
  <2>2. answer.body = {BodyOf(r)} /\ r.pc = "judge" /\ r.settled /\ RequestInv(r)
    BY <2>1 DEF OverlayInv, AnswerInv
  <2>3. r \in InProgress /\ LatestRead(r) /\ PricesRead(r) /\ HistoryRead(r) /\ ExtraWasRead(r)
    BY <2>2 DEF RequestInv, Current
  <2> DEFINE latest == LatestOf(rows)
             anchored == IF latest = {} THEN Nothing ELSE BaseRead(rows, The(latest).at)
             extra == IF latest # {} /\ NeedsExtra(r.points, The(latest).at)
                      THEN ExtraRead(rows, r.points, The(latest).at) ELSE Nothing
             wanted == r.wired /\ r.ruleset.framework = "rfnbo"
             l == latest
             p == IF r.ruleset.surplus = {} THEN Nothing ELSE PricesOf(prices, r.points)
             b == IF wanted THEN anchored ELSE Nothing
             x == IF wanted THEN extra ELSE Nothing
  <2>4. l = r.latest /\ p = r.prices  BY <2>3 DEF LatestRead, PricesRead
  <2>5. b = r.base  BY <2>3, <2>4 DEF HistoryRead, Wanted
  <2>6. x = r.extra  BY <2>3, <2>4 DEF ExtraWasRead, Wanted
  <2>7. QuietMeansCurrent <=> answer.body =
          {BodyOf([r EXCEPT !.latest = l, !.prices = p, !.base = b, !.extra = x])}
    BY <2>1, Zenon DEF QuietMeansCurrent
  <2> HIDE DEF l, p, b, x
  <2>8. [r EXCEPT !.latest = l, !.prices = p, !.base = b, !.extra = x] = r
    BY <2>3, <2>4, <2>5, <2>6, SameRequest
  <2> QED  BY <2>2, <2>7, <2>8, Zenon
<1> QED  BY <1>1, OverlayInvariant, PTL

(* A share is an interval of percents; observed, it is that of a sample.    *)
LEMMA ObservedIsExact ==
    ASSUME NEW s \in Shares
    PROVE  ObservedShare(s) = [expected |-> s, lower |-> s, upper |-> s, source |-> "observed"]
<1>1. s \in 0 .. 100  BY OverlayAssumption
<1>2. Clamp(s) = s  BY <1>1, ClampRange
<1> QED  BY <1>2 DEF ObservedShare

LEMMA HistoryShape ==
    ASSUME NEW h \in Histories
    PROVE  DOMAIN h \subseteq Instants /\ \A t \in DOMAIN h : h[t] \in Shares
BY DEF Histories

LEMMA TariffShape ==
    ASSUME NEW h \in Tariffs
    PROVE  DOMAIN h \subseteq Hours /\ \A t \in DOMAIN h : h[t] \in Prices
BY DEF Tariffs

LEMMA ObservedAt ==
    ASSUME NEW h \in Histories, NEW at \in Int, NEW s \in observed_at(h, at)
    PROVE  s \in Shares /\ \E t \in DOMAIN h : /\ t <= at /\ at - t <= NOWCAST_COVERAGE /\ h[t] = s
                                              /\ \A w \in DOMAIN h : w <= at => w <= t
BY HistoryShape DEF observed_at

(* There is an observed share when a sample stands for the instant: the     *)
(* last one up to it then does.                                              *)
LEMMA StandsThen ==
    ASSUME NEW h \in Histories, NEW at \in Int, NEW u \in DOMAIN h, u <= at, at - u <= NOWCAST_COVERAGE
    PROVE  observed_at(h, at) # {}
<1> DEFINE before == {w \in DOMAIN h : w <= at}
<1>1. Instants \subseteq Nat /\ NOWCAST_COVERAGE \in Nat  BY OverlayAssumption
<1>2. DOMAIN h \subseteq Instants  BY HistoryShape
<1>3. PICK last \in before : \A w \in before : w <= last  BY <1>2, LastExists
<1>4. last \in Nat /\ u \in Nat /\ u <= last /\ last <= at  BY <1>1, <1>2, <1>3
<1>5. at - last <= NOWCAST_COVERAGE  BY <1>1, <1>4
<1>6. h[last] \in observed_at(h, at)  BY <1>3, <1>5 DEF observed_at
<1> QED  BY <1>6

(* The anchor of a forecast is no later than the latest measurement.        *)
LEMMA AnchorIsPast ==
    ASSUME NEW m \in Measured, NEW h \in Histories, DOMAIN h # {}, \A t \in DOMAIN h : t <= m.at
    PROVE  AnchorOf({m}, h).at \in Instants /\ AnchorOf({m}, h).at <= m.at
<1> DEFINE last == CHOOSE t \in DOMAIN h : \A u \in DOMAIN h : u <= t
<1>1. last \in DOMAIN h
  <2>1. \E t \in DOMAIN h : \A u \in DOMAIN h : u <= t  BY HistoryShape, LastExists
  <2> QED  BY <2>1
<1>2. m.at \in Instants /\ m.at <= m.at
  <2>1. m.at \in Instants /\ Instants \subseteq Nat  BY OverlayAssumption DEF Measured
  <2>2. m.at \in Nat  BY <2>1
  <2> QED  BY <2>1, <2>2
<1>3. CASE m.share # {}
  <2>1. AnchorOf({m}, h) = [at |-> m.at, share |-> The(m.share)]  BY <1>3, TheOne DEF AnchorOf
  <2> QED  BY <1>2, <2>1
<1>4. CASE m.share = {}
  <2>1. AnchorOf({m}, h) = [at |-> last, share |-> h[last]]  BY <1>4 DEF AnchorOf
  <2> HIDE DEF last
  <2> QED  BY <1>1, <2>1, HistoryShape
<1> QED  BY <1>3, <1>4

LEMMA ForecastShape ==
    ASSUME NEW h \in Histories, NEW at \in Int, NEW anchor, anchor.at \in Instants,
           NEW e \in forecast_at(h, at, anchor)
    PROVE  /\ e.source = "forecast" /\ at - anchor.at <= MaxHorizon /\ anchor.at < at
           /\ e.lower \in 0 .. 100 /\ e.upper \in 0 .. 100 /\ e.lower <= e.upper
<1> DEFINE dt == at - anchor.at
           expected == expected_at(h, at, anchor)
           q == Spread * (dt \div NOWCAST_COVERAGE)
<1>1. anchor.at \in Int /\ dt \in Int /\ MaxHorizon \in Nat
  <2>1. Instants \subseteq Nat /\ MaxHorizon \in Nat  BY OverlayAssumption
  <2>2. anchor.at \in Nat  BY <2>1
  <2> QED  BY <2>1, <2>2
<1>2. ~(dt <= 0 \/ dt > MaxHorizon)
      /\ e = [expected |-> expected, lower |-> Clamp(expected - q), upper |-> Clamp(expected + q),
              source |-> "forecast"]
  BY DEF forecast_at
<1>3. expected \in 0 .. 100  BY ClampRange DEF expected_at
<1>4. q \in Nat
  <2>1. dt \in Nat /\ NOWCAST_COVERAGE \in Nat \ {0} /\ Spread \in Nat  BY <1>1, <1>2, OverlayAssumption
  <2>2. dt \div NOWCAST_COVERAGE \in Nat  BY <2>1
  <2> HIDE DEF dt
  <2> QED  BY <2>1, <2>2
<1>5. Clamp(expected - q) \in 0 .. 100 /\ Clamp(expected + q) \in 0 .. 100  BY ClampRange
<1>6. Clamp(expected - q) <= Clamp(expected + q)
  <2> HIDE DEF expected, q
  <2> QED  BY <1>3, <1>4 DEF Clamp
<1>7. e.source = "forecast" /\ e.lower = Clamp(expected - q) /\ e.upper = Clamp(expected + q)
  <2> HIDE DEF expected, q
  <2> QED  BY <1>2
<1>8. at - anchor.at <= MaxHorizon /\ anchor.at < at  BY <1>1, <1>2
<1> HIDE DEF expected, q
<1> QED  BY <1>5, <1>6, <1>7, <1>8

(* A share is that of the latest measurement, which covers its instant, or  *)
(* that of the last sample up to it, or a forecast of a later instant.       *)
Observed(r, at, e) ==
    /\ e.source = "observed" /\ e.lower = e.expected /\ e.upper = e.expected
    /\ e.expected \in 0 .. 100
    /\ OwnShare(r, at, e.expected) \/ \E m \in r.latest : Covers(m, at) /\ m.share = {e.expected}

Forecast(r, at, e) ==
    /\ e.source = "forecast" /\ \E m \in r.latest : at > m.at
    /\ at - AnchorOf(r.latest, r.base).at <= MaxHorizon
    /\ e.lower \in 0 .. 100 /\ e.upper \in 0 .. 100 /\ e.lower <= e.upper

LEMMA SampleIsObserved ==
    ASSUME NEW r, NEW at, NEW s \in Shares,
           OwnShare(r, at, s) \/ \E m \in r.latest : Covers(m, at) /\ m.share = {s}
    PROVE  Observed(r, at, ObservedShare(s))
<1>1. s \in 0 .. 100  BY OverlayAssumption
<1> QED  BY <1>1, ObservedIsExact DEF Observed

(* The window is looked at first, then what is before it: either way no     *)
(* later sample up to the instant is passed over.                            *)
LEMMA OwnIsLast ==
    ASSUME NEW r \in InProgress, NEW m \in Measured, r.latest = {m}, Anchored(r), NEW at \in Int,
           NEW s \in IF observed_at(r.base, at) # {} THEN observed_at(r.base, at) ELSE observed_at(r.extra, at)
    PROVE  s \in Shares /\ OwnShare(r, at, s)
<1>1. r.base \in Histories /\ r.extra \in Histories  BY DEF InProgress
<1>2. DOMAIN r.base \subseteq Nat /\ DOMAIN r.extra \subseteq Nat /\ NOWCAST_COVERAGE \in Nat
      /\ m.at \in Nat /\ Lookback \in Nat
  <2>1. Instants \subseteq Nat /\ NOWCAST_COVERAGE \in Nat /\ Lookback \in Nat  BY OverlayAssumption
  <2> QED  BY <1>1, <2>1, HistoryShape DEF Measured
<1>3. The(r.latest) = m  BY TheOne
<1>4. /\ \A t \in DOMAIN r.base : m.at - Lookback <= t
      /\ \A t \in DOMAIN r.extra : t < m.at - Lookback
  BY <1>3 DEF Anchored, InWindow
<1>5. CASE observed_at(r.base, at) # {}
  <2>1. s \in observed_at(r.base, at)  BY <1>5
  <2>2. s \in Shares  BY <1>1, <2>1, ObservedAt
  <2>3. PICK t \in DOMAIN r.base : /\ t <= at /\ at - t <= NOWCAST_COVERAGE /\ r.base[t] = s
                                  /\ \A w \in DOMAIN r.base : w <= at => w <= t
    BY <1>1, <2>1, ObservedAt
  <2>4. ASSUME NEW w \in DOMAIN r.extra  PROVE w <= t
    BY <1>2, <1>4
  <2> QED  BY <2>2, <2>3, <2>4 DEF OwnShare
<1>6. CASE observed_at(r.base, at) = {}
  <2>1. s \in observed_at(r.extra, at)  BY <1>6
  <2>2. s \in Shares  BY <1>1, <2>1, ObservedAt
  <2>3. PICK t \in DOMAIN r.extra : /\ t <= at /\ at - t <= NOWCAST_COVERAGE /\ r.extra[t] = s
                                   /\ \A w \in DOMAIN r.extra : w <= at => w <= t
    BY <1>1, <2>1, ObservedAt
  <2>4. ASSUME NEW w \in DOMAIN r.base, w <= at  PROVE FALSE
    <3>1. w \in Nat /\ t \in Nat /\ t < w  BY <1>2, <1>4
    <3>2. at - w <= NOWCAST_COVERAGE  BY <1>2, <2>3, <3>1
    <3> QED  BY <1>1, <1>6, <2>4, <3>2, StandsThen
  <2> QED  BY <2>2, <2>3, <2>4 DEF OwnShare
<1> QED  BY <1>5, <1>6

LEMMA ShareOfSlot ==
    ASSUME NEW r \in InProgress, Anchored(r), NEW at \in Int, NEW wired,
           NEW e \in share_of(at, r.latest, wired, r.base, r.extra)
    PROVE  Observed(r, at, e) \/ Forecast(r, at, e)
<1>1. r.base \in Histories /\ r.extra \in Histories /\ r.latest \in {{}} \cup {{m} : m \in Measured}
  BY DEF InProgress
<1>2. NOWCAST_COVERAGE \in Nat /\ Instants \subseteq Nat  BY OverlayAssumption
<1>4. ASSUME NEW m \in Measured, r.latest = {m}
      PROVE  Observed(r, at, e) \/ Forecast(r, at, e)
  <2>1. The(r.latest) = m /\ r.latest # {}  BY <1>4, TheOne
  <2>2. m.at \in Nat /\ m.share \in {{}} \cup {{s} : s \in Shares}  BY <1>2 DEF Measured
  <2>3. CASE at <= m.at /\ m.at - at <= NOWCAST_COVERAGE
    <3>1. e \in {ObservedShare(s) : s \in m.share}  BY <2>1, <2>3 DEF share_of
    <3>2. PICK s \in m.share : e = ObservedShare(s)  BY <3>1
    <3>3. s \in Shares /\ m.share = {s}  BY <2>2, <3>2
    <3>4. Covers(m, at)  BY <2>3 DEF Covers
    <3> QED  BY <1>4, <3>2, <3>3, <3>4, SampleIsObserved
  <2>4. CASE at <= m.at /\ ~(m.at - at <= NOWCAST_COVERAGE)
    <3> DEFINE own == observed_at(r.base, at)
    <3>1. e \in {ObservedShare(s) : s \in IF own # {} THEN own ELSE observed_at(r.extra, at)}
      BY <2>1, <2>4 DEF share_of
    <3>2. PICK s \in IF own # {} THEN own ELSE observed_at(r.extra, at) : e = ObservedShare(s)  BY <3>1
    <3>3. s \in Shares /\ OwnShare(r, at, s)  BY <1>4, <3>2, OwnIsLast
    <3> QED  BY <3>2, <3>3, SampleIsObserved
  <2>5. CASE ~(at <= m.at)
    <3>1. DOMAIN r.base # {} /\ e \in forecast_at(r.base, at, AnchorOf(r.latest, r.base))
      BY <2>1, <2>5 DEF share_of
    <3> DEFINE anchor == AnchorOf(r.latest, r.base)
    <3>2. \A t \in DOMAIN r.base : t <= m.at  BY <2>1 DEF Anchored, InWindow
    <3>3. anchor.at \in Instants /\ anchor.at <= m.at  BY <1>1, <1>4, <3>1, <3>2, AnchorIsPast
    <3>4. e \in forecast_at(r.base, at, anchor)  BY <3>1
    <3>6. at > m.at  BY <2>2, <2>5
    <3> HIDE DEF anchor
    <3>5. /\ e.source = "forecast" /\ at - anchor.at <= MaxHorizon
          /\ e.lower \in 0 .. 100 /\ e.upper \in 0 .. 100 /\ e.lower <= e.upper
      BY <1>1, <3>3, <3>4, ForecastShape
    <3> QED  BY <1>4, <3>5, <3>6 DEF Forecast, anchor
  <2> QED  BY <2>3, <2>4, <2>5
<1>5. CASE r.latest = {}
  <2>1. DOMAIN r.base = {}  BY <1>5 DEF Anchored
  <2> QED  BY <1>5, <2>1 DEF share_of
<1> QED  BY <1>1, <1>4, <1>5

(* The price of a slot is the only one that covers its hour.                *)
LEMMA PriceOfSlot ==
    ASSUME NEW h \in Tariffs, NEW at \in Int
    PROVE  /\ \A p \in freshest_price(h, at) :
                p \in Int /\ \E t \in DOMAIN h : t <= at /\ at < t + MAX_PRICE_AGE /\ h[t] = p
           /\ freshest_price(h, at) = {} \/ \E p \in Int : freshest_price(h, at) = {p}
<1> DEFINE D == {u \in DOMAIN h : 0 <= at - u /\ at - u < MAX_PRICE_AGE /\ \A w \in DOMAIN h : w <= at => w <= u}
<1>1. DOMAIN h \subseteq Int /\ (\A t \in DOMAIN h : h[t] \in Int) /\ MAX_PRICE_AGE \in Int
  <2>1. Hours \subseteq Int /\ Prices \subseteq Int /\ MAX_PRICE_AGE \in Int  BY OverlayAssumption
  <2>2. DOMAIN h \subseteq Hours /\ \A t \in DOMAIN h : h[t] \in Prices  BY TariffShape
  <2> QED  BY <2>1, <2>2
<1>2. freshest_price(h, at) = {h[t] : t \in D}  BY DEF freshest_price
<1>3. \A t \in D : t \in DOMAIN h /\ h[t] \in Int /\ t <= at /\ at < t + MAX_PRICE_AGE  BY <1>1
<1>4. \A t, u \in D : t = u  BY <1>1
<1> HIDE DEF D
<1>5. CASE D = {}  BY <1>2, <1>5
<1>6. CASE D # {}
  <2>1. PICK t \in D : D = {t}  BY <1>4, <1>6
  <2>2. freshest_price(h, at) = {h[t]}  BY <1>2, <2>1
  <2> QED  BY <1>3, <2>2
<1> QED  BY <1>5, <1>6

(* What an answer is made of, slot by slot. *)
LEMMA PointShape ==
    ASSUME NEW r \in InProgress, NEW n \in DOMAIN r.points
    PROVE  r.points[n] \in Point /\ r.points[n].lower <= r.points[n].upper
<1>1. PICK q \in Requests : r.points = q.points  BY DEF InProgress
<1>2. q.points \in Seq(Point) /\ \A k \in DOMAIN q.points : q.points[k].lower <= q.points[k].upper
  BY OverlayAssumption
<1> QED  BY <1>1, <1>2

LEMMA BodyShape ==
    ASSUME NEW r \in InProgress
    PROVE  /\ BodyOf(r).slots = [n \in DOMAIN r.points |-> evaluate_slot(SlotOf(r.points[n], r), r.ruleset)]
           /\ BodyOf(r).basis = [pillar \in {"renewable-share", "surplus-price", "low-carbon-intensity"}
                                   |-> basis_for(r.ruleset, pillar)]
<1>1. \A rs, w, v : from_verdicts(rs, w, v).slots = v  BY DEF from_verdicts
<1>2. \A rs, w, v : from_verdicts(rs, w, v).basis =
         [pillar \in {"renewable-share", "surplus-price", "low-carbon-intensity"} |-> basis_for(rs, pillar)]
  BY DEF from_verdicts
<1>3. evaluate(SlotsOf(r), r.ruleset) =
         [n \in DOMAIN r.points |-> evaluate_slot(SlotOf(r.points[n], r), r.ruleset)]
  BY DEF evaluate, SlotsOf
<1> QED  BY <1>1, <1>2, <1>3 DEF BodyOf

LEMMA JudgedShape ==
    ASSUME OverlayInv, Answered, NEW r, r = answer.request, NEW n \in DOMAIN r.points
    PROVE  /\ Judged(n).slot = SlotOf(r.points[n], r)
           /\ Judged(n).verdict = evaluate_slot(SlotOf(r.points[n], r), r.ruleset)
<1>1. answer.body = {BodyOf(r)} /\ r \in InProgress  BY DEF OverlayInv, AnswerInv, RequestInv
<1>2. The(answer.body) = BodyOf(r)  BY <1>1, TheOne
<1>3. The(answer.body).slots[n] = evaluate_slot(SlotOf(r.points[n], r), r.ruleset)  <2>1. BodyOf(r).slots = [k \in DOMAIN r.points |-> evaluate_slot(SlotOf(r.points[k], r), r.ruleset)]
    BY <1>1, BodyShape
  <2> QED  BY <1>2, <2>1
<1>4. SlotsOf(r)[n] = SlotOf(r.points[n], r)  BY DEF SlotsOf
<1> QED  BY <1>3, <1>4 DEF Judged

(* The share of a slot and its price are of the instant of the slot, as     *)
(* share_of and freshest_price take them: the share of the latest            *)
(* measurement for a slot it covers, or of the last sample up to the slot    *)
(* and at most a step before it, or forecast after the latest measurement    *)
(* and within the horizon of its anchor; and the price of its hour.          *)
THEOREM PillarsMatch == Spec => []PillarsAtTheirSlot
<1>1. OverlayInv => PillarsAtTheirSlot
  <2> SUFFICES ASSUME OverlayInv, Answered PROVE PillarsAtTheirSlot  BY DEF PillarsAtTheirSlot
  <2>1. PICK r : r = answer.request  OBVIOUS
  <2>2. r \in InProgress /\ Anchored(r)  BY <2>1 DEF OverlayInv, AnswerInv, RequestInv
  <2>3. ASSUME NEW n \in DOMAIN r.points  PROVE OfItsInstant(Judged(n).slot, r)
    <3>1. PICK at, wired, slot :
             /\ at \in Int
             /\ slot = Judged(n).slot /\ slot.at = at
             /\ slot.share = share_of(at, r.latest, wired, r.base, r.extra)
             /\ slot.price = freshest_price(r.prices, at)
      <4>1. r.points[n].at \in Int  BY <2>2, PointShape DEF Point
      <4>2. Judged(n).slot = SlotOf(r.points[n], r)  BY <2>1, JudgedShape
      <4> QED  BY <4>1, <4>2 DEF SlotOf
    <3>2. ASSUME NEW e \in slot.share  PROVE Observed(r, at, e) \/ Forecast(r, at, e)
      BY <2>2, <3>1, ShareOfSlot
    <3>3. ASSUME NEW e \in slot.share
          PROVE  IF e.source = "observed"
                 THEN OwnShare(r, at, e.expected) \/ \E m \in r.latest : Covers(m, at) /\ m.share = {e.expected}
                 ELSE (\E m \in r.latest : at > m.at) /\ at - AnchorOf(r.latest, r.base).at <= MaxHorizon
      BY <3>2 DEF Observed, Forecast
    <3>4. r.prices \in Tariffs  BY <2>2 DEF InProgress
    <3>5. ASSUME NEW p \in slot.price
          PROVE  \E t \in DOMAIN r.prices : t <= at /\ at < t + MAX_PRICE_AGE /\ r.prices[t] = p
      BY <3>1, <3>4, PriceOfSlot
    <3> QED  BY <3>1, <3>3, <3>5 DEF OfItsInstant
  <2> QED  BY <2>1, <2>3 DEF PillarsAtTheirSlot
<1> QED  BY <1>1, OverlayInvariant, PTL

-----------------------------------------------------------------------------
(* The rulesets: what is in force, and what a request may override.         *)
LEMMA Catalogue ==
    /\ \A v : resolve_ruleset("rfnbo", v) \subseteq {rfnbo_2023_1184}
    /\ \A v : resolve_ruleset("low-carbon", v) \subseteq {low_carbon_2025_2359}
    /\ resolve_ruleset("rfnbo", {}) = {rfnbo_2023_1184}
    /\ resolve_ruleset("low-carbon", {}) = {low_carbon_2025_2359}
<1>1. ToSet(ruleset_catalog) = {rfnbo_2023_1184, low_carbon_2025_2359, rfnbo_2026_revision}
  BY DEF ToSet, ruleset_catalog
<1>2. rfnbo_2023_1184.framework = "rfnbo" /\ rfnbo_2023_1184.status = "served"
  BY DEF rfnbo_2023_1184
<1>3. low_carbon_2025_2359.framework = "low-carbon" /\ low_carbon_2025_2359.status = "served"
  BY DEF rfnbo_2023_1184, low_carbon_2025_2359
<1>4. rfnbo_2026_revision.status = "planned"
  BY DEF rfnbo_2023_1184, rfnbo_2026_revision
<1> QED  BY <1>1, <1>2, <1>3, <1>4 DEF resolve_ruleset

LEMMA ThresholdIsInt == \A kwh \in Nat \ {0} : low_carbon_intensity_threshold(kwh) \in Int
<1> TAKE kwh \in Nat \ {0}
<1> DEFINE numerator == 2 * LOW_CARBON_BUDGET_G_PER_KG + kwh
           denominator == 2 * kwh
<1>1. numerator \in Int /\ denominator \in Nat \ {0}  BY DEF LOW_CARBON_BUDGET_G_PER_KG
<1> HIDE DEF numerator, denominator
<1>2. numerator \div denominator \in Int  BY <1>1
<1> QED  BY <1>2 DEF low_carbon_intensity_threshold, numerator, denominator

OfRfnbo(rs) ==
    /\ rs.framework = "rfnbo" /\ rs.share = 90
    /\ \E t \in Int : rs.surplus = {t} /\ (~rs.surplusOverridden => t = 20)

OfLowCarbon(rs) ==
    /\ rs.framework = "low-carbon"
    /\ \E t \in Int : /\ rs.intensity = {t}
                      /\ ~rs.intensityOverridden =>
                            t = low_carbon_intensity_threshold(DEFAULT_ELECTROLYZER_KWH_PER_KG)

LEMMA RulesetShape ==
    ASSUME NEW rs \in Rulesets
    PROVE  OfRfnbo(rs) \/ OfLowCarbon(rs)
<1>1. PICK q \in Requests : \E c \in resolve_ruleset(q.framework, q.version) :
         rs = with_overrides(c, q.surplus, q.threshold, q.kwh)
  BY DEF Rulesets
<1>2. PICK c \in resolve_ruleset(q.framework, q.version) :
         rs = with_overrides(c, q.surplus, q.threshold, q.kwh)
  BY <1>1
<1>3. /\ q.framework \in {"rfnbo", "low-carbon"}
      /\ q.surplus = {} \/ \E t \in Int : q.surplus = {t}
      /\ q.threshold = {} \/ \E t \in Int : q.threshold = {t}
      /\ q.kwh = {} \/ \E k \in Nat \ {0} : q.kwh = {k}
  <2>1. /\ q.framework \in {"rfnbo", "low-carbon"}
        /\ q.surplus \in SUBSET Int /\ AtMostOne(q.surplus)
        /\ q.threshold \in SUBSET Int /\ AtMostOne(q.threshold)
        /\ q.kwh \in SUBSET (Nat \ {0}) /\ AtMostOne(q.kwh)
    BY OverlayAssumption
  <2>2. q.surplus # {} => \E t \in Int : q.surplus = {t}  BY <2>1 DEF AtMostOne
  <2>3. q.threshold # {} => \E t \in Int : q.threshold = {t}  BY <2>1 DEF AtMostOne
  <2>4. q.kwh # {} => \E k \in Nat \ {0} : q.kwh = {k}  BY <2>1 DEF AtMostOne
  <2> QED  BY <2>1, <2>2, <2>3, <2>4
<1>4. CASE q.framework = "rfnbo"
  <2>1. c = rfnbo_2023_1184  BY <1>4, Catalogue
  <2>2. /\ rs.framework = "rfnbo" /\ rs.share = 90
        /\ rs.surplus = IF q.surplus # {} THEN q.surplus ELSE {20}
        /\ ~rs.surplusOverridden => q.surplus = {}
    BY <1>2, <2>1 DEF with_overrides, rfnbo_2023_1184
  <2> QED  BY <1>3, <2>2 DEF OfRfnbo
<1>5. CASE q.framework = "low-carbon"
  <2> DEFINE default == low_carbon_intensity_threshold(DEFAULT_ELECTROLYZER_KWH_PER_KG)
             derived == low_carbon_intensity_threshold(The(q.kwh))
             capped == IF derived < MAX_LOW_CARBON_INTENSITY_THRESHOLD THEN derived
                       ELSE MAX_LOW_CARBON_INTENSITY_THRESHOLD
  <2>1. c = low_carbon_2025_2359  BY <1>5, Catalogue
  <2>2. PICK t : /\ t = default
                 /\ c = [framework |-> "low-carbon", version |-> "2025-2359", status |-> "served",
                         share |-> 0, surplus |-> {}, intensity |-> {t},
                         overridden |-> FALSE, surplusOverridden |-> FALSE, intensityOverridden |-> FALSE]
    BY <2>1 DEF low_carbon_2025_2359, rfnbo_2023_1184
  <2>3. default \in Int  BY ThresholdIsInt DEF DEFAULT_ELECTROLYZER_KWH_PER_KG
  <2>4. q.kwh # {} => capped \in Int
    <3>1. ASSUME q.kwh # {}  PROVE derived \in Int
      <4>1. PICK k \in Nat \ {0} : q.kwh = {k}  BY <1>3, <3>1
      <4> QED  BY <4>1, TheOne, ThresholdIsInt
    <3> HIDE DEF derived
    <3> QED  BY <3>1 DEF MAX_LOW_CARBON_INTENSITY_THRESHOLD
  <2> HIDE DEF default, capped
  <2>5. /\ rs.framework = "low-carbon"
        /\ rs.intensity = IF q.threshold # {} THEN q.threshold ELSE IF q.kwh # {} THEN {capped} ELSE {default}
        /\ ~rs.intensityOverridden => q.threshold = {} /\ q.kwh = {}
    BY <1>2, <2>2 DEF with_overrides, capped
  <2> QED  BY <1>3, <2>3, <2>4, <2>5 DEF OfLowCarbon, default
<1> QED  BY <1>3, <1>4, <1>5

-----------------------------------------------------------------------------
(* The verdict of a slot, for each framework. *)
ShareKnown(slot) ==
    slot.share # {} => /\ The(slot.share).lower \in 0 .. 100 /\ The(slot.share).upper \in 0 .. 100
                       /\ The(slot.share).lower <= The(slot.share).upper

PriceKnown(slot) == slot.price = {} \/ \E p \in Int : slot.price = {p}

IntensityKnown(slot) == slot.lower \in Int /\ slot.upper \in Int /\ slot.lower <= slot.upper

Lowest(slot) == IF slot.share = {} THEN 0 ELSE The(slot.share).lower
Highest(slot) == IF slot.share = {} THEN 100 ELSE The(slot.share).upper

LEMMA ShareSignal ==
    ASSUME NEW slot, ShareKnown(slot)
    PROVE  LET s == share_signal(slot, 90)
           IN  /\ s.verdict = IF Lowest(slot) >= 90 THEN "pass"
                              ELSE IF Highest(slot) < 90 THEN "fail" ELSE "indeterminate"
               /\ s.pillar = "renewable-share" /\ s.threshold \subseteq {90}
BY DEF ShareKnown, Lowest, Highest, share_signal, Decided, Undecided

LEMMA SurplusSignal ==
    ASSUME NEW slot, PriceKnown(slot), NEW t \in Int
    PROVE  LET s == surplus_signal(slot.price, t)
           IN  /\ s.verdict = IF \E p \in slot.price : p <= t THEN "pass" ELSE "indeterminate"
               /\ s.pillar = "surplus-price" /\ s.threshold \subseteq {t}
<1>1. CASE slot.price = {}  BY <1>1 DEF surplus_signal, Undecided
<1>2. ASSUME NEW p \in Int, slot.price = {p}
      PROVE  LET s == surplus_signal(slot.price, t)
             IN  /\ s.verdict = IF p <= t THEN "pass" ELSE "indeterminate"
                 /\ s.pillar = "surplus-price" /\ s.threshold \subseteq {t}
  BY <1>2, TheOne DEF surplus_signal, Decided, Undecided
<1> QED  BY <1>1, <1>2 DEF PriceKnown

LEMMA RfnboVerdict ==
    ASSUME NEW slot, ShareKnown(slot), PriceKnown(slot), NEW rs, OfRfnbo(rs)
    PROVE  LET v == evaluate_slot(slot, rs)
           IN  /\ Certain(v, slot, rs)
               /\ \A s \in ToSet(v.signals) :
                    \/ s.pillar = "renewable-share" /\ s.threshold \subseteq {90}
                    \/ s.pillar = "surplus-price" /\ s.threshold \subseteq rs.surplus
<1>1. PICK t \in Int : rs.surplus = {t} /\ The(rs.surplus) = t
  <2>1. PICK t \in Int : rs.surplus = {t}  BY DEF OfRfnbo
  <2> QED  BY <2>1, TheOne
<1> DEFINE S == share_signal(slot, 90)
           P == surplus_signal(slot.price, t)
           v == evaluate_slot(slot, rs)
           cheap == \E p \in slot.price : p <= t
           lo == Lowest(slot)
           hi == Highest(slot)
<1>2. v.signals = <<S, P>>
  <2>1. rfnbo_signals(slot, rs) = <<S, P>>  BY <1>1 DEF OfRfnbo, rfnbo_signals
  <2>2. v.signals = rfnbo_signals(slot, rs)  BY DEF OfRfnbo, evaluate_slot
  <2> QED  BY <2>1, <2>2
<1>3. v.eligible <=> \E s \in ToSet(v.signals) : s.verdict = "pass"
  BY DEF evaluate_slot
<1>4. lo \in Int /\ hi \in Int /\ lo <= hi  BY DEF ShareKnown, Lowest, Highest
<1>5. /\ S.verdict = IF lo >= 90 THEN "pass" ELSE IF hi < 90 THEN "fail" ELSE "indeterminate"
      /\ S.pillar = "renewable-share" /\ S.threshold \subseteq {90}
  BY ShareSignal
<1>6. /\ P.verdict = IF cheap THEN "pass" ELSE "indeterminate"
      /\ P.pillar = "surplus-price" /\ P.threshold \subseteq {t}
  BY SurplusSignal
<1> HIDE DEF S, P, v, lo, hi
<1>7. ToSet(v.signals) = {S, P}  BY <1>2 DEF ToSet
<1>8. v.eligible <=> lo >= 90 \/ cheap  BY <1>3, <1>5, <1>6, <1>7
<1>9. is_indeterminate(v) <=> ~(lo >= 90 \/ cheap)  BY <1>6, <1>7, <1>8 DEF is_indeterminate
<1>10. Worlds(slot, rs) = [share : {lo, hi}, surplus : IF cheap THEN {TRUE} ELSE BOOLEAN,
                           intensity : {slot.lower, slot.upper}]
  BY <1>1 DEF Worlds, Lowest, Highest, lo, hi
<1>11. \A w : Qualifies(w, rs) <=> w.share >= 90 \/ w.surplus  BY DEF OfRfnbo, Qualifies
<1>12. (\A w \in Worlds(slot, rs) : Qualifies(w, rs)) <=> lo >= 90 \/ cheap
  <2>1. ASSUME NEW w \in Worlds(slot, rs), lo >= 90 \/ cheap  PROVE w.share >= 90 \/ w.surplus
    <3>1. w.share \in {lo, hi} /\ w.surplus \in IF cheap THEN {TRUE} ELSE BOOLEAN
      <4>1. PICK X, Y, Z : /\ X = {lo, hi} /\ Y = (IF cheap THEN {TRUE} ELSE BOOLEAN)
                           /\ Z = {slot.lower, slot.upper}
        OBVIOUS
      <4>2. w \in [share : X, surplus : Y, intensity : Z]  BY <1>10, <4>1
      <4> QED  BY <4>1, <4>2
    <3>2. CASE lo >= 90  BY <1>4, <3>1, <3>2
    <3>3. CASE cheap  BY <3>1, <3>3
    <3> QED  BY <2>1, <3>2, <3>3
  <2>2. ASSUME ~(lo >= 90 \/ cheap)  PROVE \E w \in Worlds(slot, rs) : ~(w.share >= 90 \/ w.surplus)
    <3> DEFINE w == [share |-> lo, surplus |-> FALSE, intensity |-> slot.lower]
    <3>1. w \in Worlds(slot, rs)  BY <1>10, <2>2
    <3>2. ~(w.share >= 90 \/ w.surplus)  BY <2>2
    <3> QED  BY <3>1, <3>2
  <2> QED  BY <1>11, <2>1, <2>2
<1>13. ~cheap => \E w \in Worlds(slot, rs) : Qualifies(w, rs)
  <2> SUFFICES ASSUME ~cheap PROVE \E w \in Worlds(slot, rs) : Qualifies(w, rs)  OBVIOUS
  <2> DEFINE w == [share |-> lo, surplus |-> TRUE, intensity |-> slot.lower]
  <2>1. w \in Worlds(slot, rs)  BY <1>10
  <2>2. w.surplus  OBVIOUS
  <2> HIDE DEF w
  <2> QED  BY <1>11, <2>1, <2>2
<1>14. Certain(v, slot, rs)
  <2> HIDE DEF cheap
  <2> QED  BY <1>8, <1>9, <1>12, <1>13, Zenon DEF Certain
<1> QED  BY <1>1, <1>5, <1>6, <1>7, <1>14 DEF v

LEMMA LowCarbonVerdict ==
    ASSUME NEW slot, IntensityKnown(slot), NEW rs, OfLowCarbon(rs)
    PROVE  LET v == evaluate_slot(slot, rs)
           IN  /\ Certain(v, slot, rs)
               /\ \A s \in ToSet(v.signals) :
                    s.pillar = "low-carbon-intensity" /\ s.threshold \subseteq rs.intensity
<1>1. PICK t \in Int : rs.intensity = {t} /\ The(rs.intensity) = t
  <2>1. PICK t \in Int : rs.intensity = {t}  BY DEF OfLowCarbon
  <2> QED  BY <2>1, TheOne
<1>2. slot.lower \in Int /\ slot.upper \in Int /\ slot.lower <= slot.upper  BY DEF IntensityKnown
<1> DEFINE v == evaluate_slot(slot, rs)
<1>3. PICK s : /\ v.signals = <<s>> /\ s.pillar = "low-carbon-intensity" /\ s.threshold \subseteq {t}
               /\ s.verdict = IF slot.upper <= t THEN "pass"
                              ELSE IF slot.lower > t THEN "fail" ELSE "indeterminate"
  <2>1. v.signals = low_carbon_signals(slot, rs)  BY DEF OfLowCarbon, evaluate_slot
  <2> HIDE DEF v
  <2>2. CASE slot.upper <= t
    <3>1. v.signals = <<Decided("low-carbon-intensity", TRUE, slot.intensity, t, "forecast")>>
      BY <1>1, <2>1, <2>2 DEF low_carbon_signals
    <3> QED  BY <2>2, <3>1 DEF Decided
  <2>3. CASE ~(slot.upper <= t) /\ slot.lower > t
    <3>1. v.signals = <<Decided("low-carbon-intensity", FALSE, slot.intensity, t, "forecast")>>
      BY <1>1, <2>1, <2>3 DEF low_carbon_signals
    <3> QED  BY <2>3, <3>1 DEF Decided
  <2>4. CASE ~(slot.upper <= t) /\ ~(slot.lower > t)
    <3>1. v.signals = <<Undecided("low-carbon-intensity", "threshold-within-interval")>>
      BY <1>1, <2>1, <2>4 DEF low_carbon_signals
    <3> QED  BY <2>4, <3>1 DEF Undecided
  <2> QED  BY <2>2, <2>3, <2>4
<1>4. v.eligible <=> \E x \in ToSet(v.signals) : x.verdict = "pass"  BY DEF evaluate_slot
<1> HIDE DEF v
<1>5. ToSet(v.signals) = {s}  BY <1>3 DEF ToSet
<1>6. v.eligible <=> slot.upper <= t  BY <1>3, <1>4, <1>5
<1>7. is_indeterminate(v) <=> slot.lower <= t /\ ~(slot.upper <= t)
  BY <1>2, <1>3, <1>5, <1>6 DEF is_indeterminate
<1>8. \A w : Qualifies(w, rs) <=> w.intensity <= t  BY <1>1 DEF OfLowCarbon, Qualifies
<1>9. PICK X, Y : Worlds(slot, rs) = [share : X, surplus : Y, intensity : {slot.lower, slot.upper}]
                  /\ X # {} /\ Y # {}
  <2>1. PICK X, Y : /\ X = (IF slot.share = {} THEN {0, 100} ELSE {The(slot.share).lower, The(slot.share).upper})
                    /\ Y = (IF \E x \in rs.surplus, p \in slot.price : p <= x THEN {TRUE} ELSE BOOLEAN)
    OBVIOUS
  <2>2. X # {} /\ Y # {}  BY <2>1
  <2> QED  BY <2>1, <2>2 DEF Worlds
<1>10. \A w \in Worlds(slot, rs) : w.intensity \in {slot.lower, slot.upper}  BY <1>9
<1>11. \A i \in {slot.lower, slot.upper} : \E w \in Worlds(slot, rs) : w.intensity = i
  <2> TAKE i \in {slot.lower, slot.upper}
  <2>1. PICK x \in X, y \in Y : TRUE  BY <1>9
  <2> DEFINE w == [share |-> x, surplus |-> y, intensity |-> i]
  <2>2. w \in Worlds(slot, rs) /\ w.intensity = i  BY <1>9
  <2> QED  BY <2>2
<1>12. (\A w \in Worlds(slot, rs) : Qualifies(w, rs)) <=> slot.upper <= t
  BY <1>1, <1>2, <1>8, <1>10, <1>11
<1>13. (\E a, b \in Worlds(slot, rs) : Qualifies(a, rs) /\ ~Qualifies(b, rs))
          <=> slot.lower <= t /\ ~(slot.upper <= t)
  BY <1>1, <1>2, <1>8, <1>10, <1>11
<1>14. Certain(v, slot, rs)  BY <1>6, <1>7, <1>12, <1>13, Zenon DEF Certain
<1> QED  BY <1>1, <1>3, <1>5, <1>14 DEF v

(* A slot is eligible exactly when it is in every world that is still       *)
(* possible, undecided exactly when the worlds differ, and a threshold told *)
(* to be regulatory is the one of the catalogue: evaluate_slot, for every   *)
(* table, every interleaving of writes with the reads, and every failure.   *)
THEOREM VerdictsAreCertain == Spec => []VerdictIsCertain
<1>1. OverlayInv => VerdictIsCertain
  <2> SUFFICES ASSUME OverlayInv, Answered PROVE VerdictIsCertain  BY DEF VerdictIsCertain
  <2>1. PICK r, rs : r = answer.request /\ rs = r.ruleset  OBVIOUS
  <2>2. r \in InProgress /\ Anchored(r) /\ answer.body = {BodyOf(r)}
    BY <2>1 DEF OverlayInv, AnswerInv, RequestInv
  <2>3. rs \in Rulesets  BY <2>1, <2>2 DEF InProgress
  <2>4. The(answer.body).basis = [pillar \in {"renewable-share", "surplus-price", "low-carbon-intensity"}
                                    |-> basis_for(rs, pillar)]
    <3>1. The(answer.body) = BodyOf(r)  BY <2>2, TheOne
    <3>2. BodyOf(r).basis = [pillar \in {"renewable-share", "surplus-price", "low-carbon-intensity"}
                               |-> basis_for(r.ruleset, pillar)]
      BY <2>2, BodyShape
    <3> QED  BY <2>1, <3>1, <3>2
  <2>5. ASSUME NEW n \in DOMAIN r.points
        PROVE  /\ Certain(Judged(n).verdict, Judged(n).slot, rs)
               /\ Regulatory(Judged(n).verdict, The(answer.body).basis, rs)
    <3>1. PICK slot : slot = Judged(n).slot /\ slot = SlotOf(r.points[n], r)
                      /\ Judged(n).verdict = evaluate_slot(slot, rs)
      BY <2>1, JudgedShape
    <3>2. r.points[n] \in Point /\ r.points[n].lower <= r.points[n].upper  BY <2>2, PointShape
    <3>3. IntensityKnown(slot)
      <4>1. slot.lower = r.points[n].lower /\ slot.upper = r.points[n].upper  BY <3>1 DEF SlotOf
      <4> QED  BY <3>2, <4>1 DEF IntensityKnown, Point
    <3>4. PICK at, wired :
             /\ at \in Int
             /\ slot.share = share_of(at, r.latest, wired, r.base, r.extra)
             /\ slot.price = freshest_price(r.prices, at)
      BY <3>1, <3>2 DEF SlotOf, Point
    <3>5. ShareKnown(slot)
      <4>1. ASSUME slot.share # {}  PROVE The(slot.share) \in slot.share  BY <4>1 DEF The
      <4>2. ASSUME slot.share # {}
            PROVE Observed(r, at, The(slot.share)) \/ Forecast(r, at, The(slot.share))
        BY <2>2, <3>4, <4>1, <4>2, ShareOfSlot
      <4> QED  BY <4>2 DEF ShareKnown, Observed, Forecast
    <3>6. PriceKnown(slot)  BY <2>2, <3>4, PriceOfSlot DEF PriceKnown, InProgress
    <3>7. CASE OfRfnbo(rs)
      <4>1. Certain(Judged(n).verdict, slot, rs)  BY <3>1, <3>5, <3>6, <3>7, RfnboVerdict
      <4>2. PICK c : c = The(resolve_ruleset(rs.framework, {})) /\ c.share = 90 /\ c.surplus = {20}
        <5>1. resolve_ruleset(rs.framework, {}) = {rfnbo_2023_1184}  BY <3>7, Catalogue DEF OfRfnbo
        <5>2. The(resolve_ruleset(rs.framework, {})) = rfnbo_2023_1184  BY <5>1, TheOne
        <5> QED  BY <5>2 DEF rfnbo_2023_1184
      <4>3. ASSUME NEW s \in ToSet(Judged(n).verdict.signals),
                   The(answer.body).basis[s.pillar] # "user-override"
            PROVE  s.threshold \subseteq {c.share} \cup c.surplus \cup c.intensity
        <5>1. \/ s.pillar = "renewable-share" /\ s.threshold \subseteq {90}
              \/ s.pillar = "surplus-price" /\ s.threshold \subseteq rs.surplus
          BY <3>1, <3>5, <3>6, <3>7, <4>3, RfnboVerdict
        <5>2. s.pillar = "surplus-price" => rs.surplus = {20}
          BY <2>4, <3>7, <4>3 DEF basis_for, OfRfnbo
        <5> QED  BY <4>2, <5>1, <5>2
      <4> QED  BY <3>1, <4>1, <4>2, <4>3 DEF Regulatory
    <3>8. CASE OfLowCarbon(rs)
      <4>1. Certain(Judged(n).verdict, slot, rs)  BY <3>1, <3>3, <3>8, LowCarbonVerdict
      <4>2. PICK c : /\ c = The(resolve_ruleset(rs.framework, {}))
                     /\ c.intensity = {low_carbon_intensity_threshold(DEFAULT_ELECTROLYZER_KWH_PER_KG)}
        <5>1. resolve_ruleset(rs.framework, {}) = {low_carbon_2025_2359}  BY <3>8, Catalogue DEF OfLowCarbon
        <5>2. The(resolve_ruleset(rs.framework, {})) = low_carbon_2025_2359  BY <5>1, TheOne
        <5>3. low_carbon_2025_2359.intensity = {low_carbon_intensity_threshold(DEFAULT_ELECTROLYZER_KWH_PER_KG)}
          BY DEF low_carbon_2025_2359, rfnbo_2023_1184
        <5> QED  BY <5>2, <5>3
      <4>3. ASSUME NEW s \in ToSet(Judged(n).verdict.signals),
                   The(answer.body).basis[s.pillar] # "user-override"
            PROVE  s.threshold \subseteq {c.share} \cup c.surplus \cup c.intensity
        <5>1. s.pillar = "low-carbon-intensity" /\ s.threshold \subseteq rs.intensity
          BY <3>1, <3>3, <3>8, <4>3, LowCarbonVerdict
        <5>2. rs.intensity = c.intensity
          BY <2>4, <3>8, <4>2, <4>3, <5>1 DEF basis_for, OfLowCarbon
        <5> QED  BY <5>1, <5>2
      <4> QED  BY <3>1, <4>1, <4>2, <4>3 DEF Regulatory
    <3> QED  BY <2>3, <3>7, <3>8, RulesetShape
  <2> QED  BY <2>1, <2>5 DEF VerdictIsCertain
<1> QED  BY <1>1, OverlayInvariant, PTL

-----------------------------------------------------------------------------

(* What holds of the empty set, and of a set when it holds of that set       *)
(* without any one of its members, holds of every finite set.                *)
LEMMA ByFiniteSubsets ==
    ASSUME NEW D, IsFiniteSet(D), NEW G, {} \in G,
           \A s \in SUBSET D : s # {} /\ (\A x \in s : s \ {x} \in G) => s \in G
    PROVE  SUBSET D \subseteq G
<1> DEFINE Bad == {s \in SUBSET D : s \notin G}
<1>1. SUFFICES ASSUME Bad # {} PROVE FALSE  OBVIOUS
<1>2. FiniteSubsetsOf(D) = SUBSET D  BY FS_FiniteSubsetsOfFinite, Zenon
<1>3. IsWellFoundedOn(StrictSubsetOrdering(D), SUBSET D)
  BY <1>2, FS_StrictSubsetOrderingWellFounded
<1>4. PICK s \in Bad : \A u \in Bad : <<u, s>> \notin StrictSubsetOrdering(D)
  <2>1. Bad \subseteq SUBSET D  OBVIOUS
  <2> HIDE DEF Bad
  <2> QED  BY <1>1, <1>3, <2>1, WFMin, Zenon
<1>5. s \in SUBSET D /\ s \notin G /\ s # {}  OBVIOUS
<1>6. ASSUME NEW x \in s  PROVE s \ {x} \in G
  <2>1. PICK u : u = s \ {x}  OBVIOUS
  <2>2. u \in SUBSET D /\ u \subseteq s /\ u # s  BY <1>5, <1>6, <2>1
  <2>3. <<u, s>> \in StrictSubsetOrdering(D)
    <3> HIDE DEF Bad
    <3> QED  BY <1>5, <2>2 DEF StrictSubsetOrdering
  <2> QED  BY <1>4, <2>1, <2>2, <2>3
<1> QED  BY <1>5, <1>6

LEMMA BySubsets ==
    ASSUME NEW n \in Nat, NEW G, {} \in G,
           \A s \in SUBSET (1 .. n) : s # {} /\ (\A x \in s : s \ {x} \in G) => s \in G
    PROVE  SUBSET (1 .. n) \subseteq G
<1>1. IsFiniteSet(1 .. n)  BY FS_Interval
<1> QED  BY <1>1, ByFiniteSubsets

(* Induction over positions. *)
LEMMA Onwards ==
    ASSUME NEW n \in Nat, NEW G, 1 \in G, \A k \in 1 .. n : k \in G /\ k < n => k + 1 \in G
    PROVE  1 .. n \subseteq G
<1> DEFINE H == {s \in SUBSET (1 .. n) : s # {} => \E k \in 1 .. n : s \subseteq 1 .. k /\ k \in s}
<1>1. SUBSET (1 .. n) \subseteq H
  <2>1. {} \in H  OBVIOUS
  <2>2. ASSUME NEW s \in SUBSET (1 .. n), s # {}, \A x \in s : s \ {x} \in H  PROVE s \in H
    <3>1. PICK x \in s : TRUE  BY <2>2
    <3>2. CASE s \ {x} = {}
      <4>1. s \subseteq 1 .. x  BY <2>2, <3>2
      <4> QED  BY <2>2, <4>1
    <3>3. CASE s \ {x} # {}
      <4>1. s \ {x} \in H  BY <2>2
      <4>2. PICK k \in 1 .. n : s \ {x} \subseteq 1 .. k /\ k \in s \ {x}  BY <3>3, <4>1
      <4>3. PICK m \in {k, x} : k <= m /\ x <= m
        <5>1. k \in Int /\ x \in Int  BY <2>2
        <5> QED  BY <5>1
      <4>4. m \in s /\ s \subseteq 1 .. m  BY <2>2, <4>2, <4>3
      <4> QED  BY <2>2, <4>4
    <3> QED  BY <3>2, <3>3
  <2> HIDE DEF H
  <2> QED  BY <2>1, <2>2, BySubsets
<1> DEFINE R == {k \in 1 .. n : 1 .. k \subseteq G}
<1>2. SUFFICES ASSUME n > 0 PROVE 1 .. n \subseteq G  OBVIOUS
<1>3. R \in SUBSET (1 .. n) /\ 1 \in R  BY <1>2
<1>4. PICK k \in R : R \subseteq 1 .. k
  <2> HIDE DEF R
  <2>1. R \in H  BY <1>1, <1>3
  <2> QED  BY <1>3, <2>1
<1>5. k \in 1 .. n /\ 1 .. k \subseteq G /\ k \in G  OBVIOUS
<1>6. CASE k < n
  <2>1. k + 1 \in G  BY <1>5, <1>6
  <2>2. 1 .. k + 1 \subseteq G  BY <1>5, <2>1
  <2>3. k + 1 \in R  BY <1>5, <1>6, <2>2
  <2> HIDE DEF R
  <2> QED  BY <1>4, <1>5, <2>3
<1> QED  BY <1>5, <1>6

-----------------------------------------------------------------------------
(* A sum over sets of positions: nothing for none, and each position adds   *)
(* its value, whichever is taken away first.                                  *)
IsSum(sum, n, v) ==
    /\ \A i \in 1 .. n : v[i] \in Int
    /\ \A s \in SUBSET (1 .. n) : sum[s] \in Int
    /\ sum[{}] = 0
    /\ \A s \in SUBSET (1 .. n) : \A x \in s : sum[s] = v[x] + sum[s \ {x}]

(* There is one such sum, built one position at a time.                     *)
LEMMA SumExists ==
    ASSUME NEW n \in Nat, NEW v \in [1 .. n -> Int]
    PROVE  \E sum : IsSum(sum, n, v)
<1> DEFINE UpTo(k, sum) ==
      /\ sum \in [SUBSET (1 .. n) -> Int]
      /\ \A s \in SUBSET (1 .. n) : s \cap (1 .. k) = {} => sum[s] = 0
      /\ \A s \in SUBSET (1 .. n) : \A x \in s : x <= k => sum[s] = v[x] + sum[s \ {x}]
      /\ \A s \in SUBSET (1 .. n) : \A x \in s : k < x => sum[s] = sum[s \ {x}]
           G == {k \in 1 .. n : \E sum : UpTo(k, sum)}
<1>1. CASE n = 0
  <2>1. PICK sum : sum = [s \in SUBSET (1 .. n) |-> 0]  OBVIOUS
  <2>2. \A s \in SUBSET (1 .. n) : s = {} /\ sum[s] = 0  BY <1>1, <2>1
  <2>3. IsSum(sum, n, v)
    <3>1. \A s \in SUBSET (1 .. n) : sum[s] \in Int  BY <2>1
    <3>2. sum[{}] = 0  BY <2>1
    <3> QED  BY <2>2, <3>1, <3>2 DEF IsSum
  <2> QED  BY <2>3
<1>2. CASE n > 0
  <2>1. ASSUME NEW k \in 0 .. n - 1, NEW old, UpTo(k, old)  PROVE \E sum : UpTo(k + 1, sum)
    <3>1. PICK sum : sum = [s \in SUBSET (1 .. n) |-> IF k + 1 \in s THEN v[k + 1] + old[s] ELSE old[s]]  OBVIOUS
    <3>0. k + 1 \in 1 .. n /\ v[k + 1] \in Int  BY <1>2
    <3>2. sum \in [SUBSET (1 .. n) -> Int]  BY <2>1, <3>0, <3>1
    <3>3. ASSUME NEW s \in SUBSET (1 .. n), s \cap (1 .. k + 1) = {}  PROVE sum[s] = 0
      <4>1. s \cap (1 .. k) = {} /\ k + 1 \notin s  BY <3>3
      <4> QED  BY <2>1, <3>1, <4>1
    <3>4. ASSUME NEW s \in SUBSET (1 .. n), NEW x \in s
          PROVE  /\ x <= k + 1 => sum[s] = v[x] + sum[s \ {x}]
                 /\ k + 1 < x => sum[s] = sum[s \ {x}]
      <4>1. PICK t : t = s \ {x}  OBVIOUS
      <4>2. t \in SUBSET (1 .. n) /\ x \in 1 .. n /\ v[x] \in Int /\ old[s] \in Int /\ old[t] \in Int
        BY <2>1, <4>1
      <4>3. x # k + 1 => (k + 1 \in s <=> k + 1 \in t)  BY <4>1
      <4>4. /\ sum[s] = IF k + 1 \in s THEN v[k + 1] + old[s] ELSE old[s]
            /\ sum[t] = IF k + 1 \in t THEN v[k + 1] + old[t] ELSE old[t]
        BY <3>1, <4>2
      <4>5. /\ x <= k => old[s] = v[x] + old[t]
            /\ k < x => old[s] = old[t]
        BY <2>1, <4>1
      <4>6. x = k + 1 => k + 1 \in s /\ k + 1 \notin t  BY <4>1
      <4>7. sum[s] \in Int /\ sum[t] \in Int  BY <3>2, <4>2
      <4>8. /\ x <= k + 1 => sum[s] = v[x] + sum[t]
            /\ k + 1 < x => sum[s] = sum[t]
        <5>1. CASE x = k + 1  BY <4>4, <4>5, <4>6, <5>1
        <5>2. CASE x < k + 1
          <6>1. x <= k  BY <4>2, <5>2
          <6> QED  BY <3>0, <4>2, <4>3, <4>4, <4>5, <5>2, <6>1
        <5>3. CASE x > k + 1
          BY <4>2, <4>3, <4>4, <4>5, <5>3
        <5> QED  BY <4>2, <5>1, <5>2, <5>3
      <4> QED  BY <4>1, <4>8
    <3>5. UpTo(k + 1, sum)  BY <3>2, <3>3, <3>4
    <3> HIDE DEF UpTo
    <3> QED  BY <3>5
  <2>2. PICK zero : UpTo(0, zero)
    <3>1. PICK zero : zero = [s \in SUBSET (1 .. n) |-> 0]  OBVIOUS
    <3>2. UpTo(0, zero)  BY <3>1
    <3> HIDE DEF UpTo
    <3> QED  BY <3>2
  <2>3. 1 \in G
    <3>1. \E sum : UpTo(0 + 1, sum)
      <4> HIDE DEF UpTo
      <4> QED  BY <1>2, <2>1, <2>2
    <3>2. 0 + 1 = 1  OBVIOUS
    <3> HIDE DEF UpTo
    <3> QED  BY <1>2, <3>1, <3>2
  <2>4. ASSUME NEW k \in 1 .. n, k \in G, k < n  PROVE k + 1 \in G
    <3>1. PICK old : UpTo(k, old)  BY <2>4
    <3>2. k \in 0 .. n - 1 /\ k + 1 \in 1 .. n  BY <2>4
    <3> HIDE DEF UpTo
    <3> QED  BY <2>1, <3>1, <3>2
  <2>5. n \in G
    <3> HIDE DEF G
    <3>1. 1 .. n \subseteq G  BY <2>3, <2>4, Onwards
    <3> QED  BY <1>2, <3>1
  <2>6. PICK sum : UpTo(n, sum)  BY <2>5
  <2>7. IsSum(sum, n, v)
    <3>1. sum[{}] = 0  BY <2>6
    <3>2. ASSUME NEW s \in SUBSET (1 .. n), NEW x \in s  PROVE sum[s] = v[x] + sum[s \ {x}]
      <4>1. x <= n  OBVIOUS
      <4> QED  BY <2>6, <4>1
    <3>3. \A s \in SUBSET (1 .. n) : sum[s] \in Int  BY <2>6
    <3> HIDE DEF UpTo
    <3> QED  BY <3>1, <3>2, <3>3 DEF IsSum
  <2> QED  BY <2>7
<1> QED  BY <1>1, <1>2

(* What a fold that adds is: the value of each set comes from that of the   *)
(* set without one of its members.                                            *)
Adds(f, set, fun) ==
    f = [s \in SUBSET set |-> IF s = {} THEN 0
                              ELSE fun[CHOOSE x \in s : TRUE] + f[s \ {CHOOSE x \in s : TRUE}]]

(* A fold that adds over a finite set is any function of its parts to which *)
(* each member adds its value.                                                *)
Accumulates(closed, set, fun) ==
    /\ closed[{}] = 0
    /\ \A s \in SUBSET set : \A x \in s : closed[s] = fun[x] + closed[s \ {x}]

FoldOf(fun, set) == (CHOOSE f : Adds(f, set, fun))[set]

LEMMA FoldAccumulates ==
    ASSUME NEW set, IsFiniteSet(set), NEW fun, NEW closed, Accumulates(closed, set, fun)
    PROVE  FoldOf(fun, set) = closed[set]
<1> DEFINE Some(s) == CHOOSE x \in s : TRUE
           all == [s \in SUBSET set |-> closed[s]]
<1>0. \A s : s # {} => Some(s) \in s  OBVIOUS
<1> HIDE DEF Some
<1>1. Adds(all, set, fun)
  <2>1. ASSUME NEW s \in SUBSET set
        PROVE  closed[s] = IF s = {} THEN 0 ELSE fun[Some(s)] + closed[s \ {Some(s)}]
    BY <1>0 DEF Accumulates
  <2>2. \A s \in SUBSET set : all[s] = closed[s] /\ all[s \ {Some(s)}] = closed[s \ {Some(s)}]  OBVIOUS
  <2>3. all = [s \in SUBSET set |-> all[s]]  OBVIOUS
  <2>4. all = [s \in SUBSET set |-> IF s = {} THEN 0 ELSE fun[Some(s)] + all[s \ {Some(s)}]]
    <3> HIDE DEF all
    <3> QED  BY <2>1, <2>2, <2>3
  <2> QED  BY <2>4 DEF Adds, Some
<1>2. ASSUME NEW f, Adds(f, set, fun)  PROVE f[set] = closed[set]
  <2>0. f = [s \in SUBSET set |-> IF s = {} THEN 0 ELSE fun[Some(s)] + f[s \ {Some(s)}]]
    BY <1>2 DEF Adds, Some
  <2> DEFINE G == {s \in SUBSET set : f[s] = closed[s]}
  <2>1. {} \in G  BY <2>0 DEF Accumulates
  <2>2. ASSUME NEW s \in SUBSET set, s # {}, \A x \in s : s \ {x} \in G  PROVE s \in G
    <3>1. Some(s) \in s  BY <1>0, <2>2
    <3>2. f[s] = fun[Some(s)] + f[s \ {Some(s)}]  BY <2>0, <2>2
    <3>3. f[s \ {Some(s)}] = closed[s \ {Some(s)}]  BY <2>2, <3>1
    <3>4. closed[s] = fun[Some(s)] + closed[s \ {Some(s)}]  BY <3>1 DEF Accumulates
    <3> QED  BY <3>2, <3>3, <3>4
  <2>3. set \in G
    <3> HIDE DEF G
    <3> QED  BY <2>1, <2>2, ByFiniteSubsets
  <2> QED  BY <2>3
<1>3. Adds(CHOOSE f : Adds(f, set, fun), set, fun)
  BY <1>1
<1> QED  BY <1>2, <1>3 DEF FoldOf

(* A fold that adds is the sum. *)
LEMMA FoldIsSum ==
    ASSUME NEW n \in Nat, NEW v, NEW sum, IsSum(sum, n, v), NEW set \in SUBSET (1 .. n),
           NEW fun, \A i \in set : fun[i] = v[i]
    PROVE  (CHOOSE f : Adds(f, set, fun))[set] = sum[set]
<1>1. IsFiniteSet(set)
  <2>1. IsFiniteSet(1 .. n)  BY FS_Interval
  <2> QED  BY <2>1, FS_Subset
<1>2. Accumulates(sum, set, fun)
  <2>1. ASSUME NEW s \in SUBSET set, NEW x \in s  PROVE sum[s] = fun[x] + sum[s \ {x}]
    <3>1. s \in SUBSET (1 .. n) /\ x \in set  OBVIOUS
    <3> QED  BY <3>1 DEF IsSum
  <2> QED  BY <2>1 DEF IsSum, Accumulates
<1> QED  BY <1>1, <1>2, FoldAccumulates DEF FoldOf

(* The first n points of a series have the values v. *)
Valued(series, n, v, estimator) ==
    \A i \in 1 .. n : i \in DOMAIN series /\ Schedule!estimate(series[i], estimator) = v[i]

(* The total of a part of the series is the sum over its positions.         *)
LEMMA TotalIsSum ==
    ASSUME NEW n \in Nat, NEW v, NEW sum, IsSum(sum, n, v), NEW series, NEW estimator,
           Valued(series, n, v, estimator), NEW from \in Int, NEW to \in Int, from >= 1, to <= n
    PROVE  Schedule!Total(series, from, to, estimator) = sum[from .. to]
<1> DEFINE fun == [i \in DOMAIN series |-> Schedule!estimate(series[i], estimator)]
           set == from .. to
<1>1. Schedule!Total(series, from, to, estimator) = (CHOOSE f : Adds(f, set, fun))[set]
  BY DEF Schedule!Total, Schedule!FoldFunctionOnSet, Schedule!MapThenFoldSet, Adds
<1>2. set \in SUBSET (1 .. n) /\ \A i \in set : fun[i] = v[i]
  <2>1. set \subseteq 1 .. n  OBVIOUS
  <2> HIDE DEF set
  <2> QED  BY <2>1 DEF Valued
<1> HIDE DEF fun, set
<1>3. (CHOOSE f : Adds(f, set, fun))[set] = sum[set]
  BY <1>2, FoldIsSum
<1> QED  BY <1>1, <1>3 DEF set

(* The window of k positions that starts one position later. *)
Moves(sum, n, v, k) == \A i \in 1 .. n : i + k <= n =>
    sum[i + 1 .. i + k] = sum[i .. i + k - 1] + v[i + k] - v[i]

(* One position later, the first value leaves and the next one enters.      *)
LEMMA NextWindow ==
    ASSUME NEW n \in Nat, NEW v, NEW sum, IsSum(sum, n, v), NEW k \in 1 .. n
    PROVE  Moves(sum, n, v, k)
<1>0. SUFFICES ASSUME NEW i \in 1 .. n, i + k <= n
               PROVE  sum[i + 1 .. i + k] = sum[i .. i + k - 1] + v[i + k] - v[i]
  BY DEF Moves
<1>1. PICK u, a, b : u = i .. i + k /\ a = i + 1 .. i + k /\ b = i .. i + k - 1  OBVIOUS
<1>2. u \in SUBSET (1 .. n) /\ i \in u /\ i + k \in u  BY <1>0, <1>1
<1>3. u \ {i} = a /\ u \ {i + k} = b  BY <1>1
<1>4. sum[u] = v[i] + sum[a] /\ sum[u] = v[i + k] + sum[b]  BY <1>2, <1>3 DEF IsSum
<1>5. a \in SUBSET (1 .. n) /\ b \in SUBSET (1 .. n) /\ i + k \in 1 .. n  BY <1>2, <1>3
<1>6. sum[a] \in Int /\ sum[b] \in Int /\ v[i] \in Int /\ v[i + k] \in Int  BY <1>5 DEF IsSum
<1>7. sum[a] = sum[b] + v[i + k] - v[i]
  <2>1. PICK p : p = sum[a]  OBVIOUS
  <2>2. PICK q : q = sum[b]  OBVIOUS
  <2>3. PICK x : x = v[i]  OBVIOUS
  <2>4. PICK y : y = v[i + k]  OBVIOUS
  <2>5. p \in Int /\ q \in Int /\ x \in Int /\ y \in Int /\ x + p = y + q
    BY <1>4, <1>6, <2>1, <2>2, <2>3, <2>4
  <2>6. p = q + y - x  BY <2>5
  <2> QED  BY <2>1, <2>2, <2>3, <2>4, <2>6
<1> QED  BY <1>1, <1>7

(* The earliest of the least of the windows of k positions that start up to j. *)
EarliestLeast(sum, k, b, j) ==
    /\ b \in 1 .. j
    /\ \A m \in 1 .. j : \/ sum[b .. b + k - 1] < sum[m .. m + k - 1]
                         \/ sum[b .. b + k - 1] = sum[m .. m + k - 1] /\ b <= m

(* What the running sum comes to.                                            *)
SlidesTo(series, k, estimator, n, sum) == \E b \in 1 .. n - k + 1 :
    /\ EarliestLeast(sum, k, b, n - k + 1)
    /\ Schedule!Slide(series, k, estimator) =
          [sum |-> sum[n - k + 1 .. n], best |-> sum[b .. b + k - 1], from |-> b]

(* The running sum is that of the last window, and the least so far the     *)
(* earliest of the least: by induction over the windows.                     *)
LEMMA SlideIs ==
    ASSUME NEW n \in Nat, NEW k \in 1 .. n, NEW v, NEW sum, IsSum(sum, n, v),
           NEW estimator, NEW series, DOMAIN series = 1 .. n, Len(series) = n,
           \A i \in 1 .. n : Schedule!estimate(series[i], estimator) = v[i]
    PROVE  SlidesTo(series, k, estimator, n, sum)
<1>0. ASSUME NEW i \in 1 .. n, i + k <= n
      PROVE  sum[i + 1 .. i + k] = sum[i .. i + k - 1] + v[i + k] - v[i]
  <2>1. Moves(sum, n, v, k)  BY NextWindow
  <2> QED  BY <1>0, <2>1 DEF Moves
<1> DEFINE T(j) == sum[j .. j + k - 1]
           first == Schedule!Total(series, 1, k, estimator)
           Moved(r, i) == r.sum + Schedule!estimate(series[i], estimator) - Schedule!estimate(series[i - k], estimator)
           Slid(r, i) == IF Moved(r, i) < r.best
                         THEN [sum |-> Moved(r, i), best |-> Moved(r, i), from |-> i - k + 1]
                         ELSE [r EXCEPT !.sum = Moved(r, i)]
           Equation(f, to) == f = [i \in k .. to |-> IF i = k THEN [sum |-> first, best |-> first, from |-> 1]
                                                     ELSE Slid(f[i - 1], i)]
           count == n - k + 1
<1>1. Schedule!Slide(series, k, estimator) = (CHOOSE f : Equation(f, n))[n]
  BY DEF Schedule!Slide
<1>2. first = T(1)
  <2>1. Valued(series, n, v, estimator) /\ 1 \in Int /\ k \in Int /\ 1 >= 1 /\ k <= n  BY DEF Valued
  <2>2. first = sum[1 .. k]  BY <2>1, TotalIsSum
  <2>3. 1 + k - 1 = k  OBVIOUS
  <2> QED  BY <2>2, <2>3
<1>3. \A j \in 1 .. count : T(j) \in Int
  <2>1. ASSUME NEW j \in 1 .. count  PROVE T(j) \in Int
    <3>1. j .. j + k - 1 \in SUBSET (1 .. n)  OBVIOUS
    <3> QED  BY <3>1 DEF IsSum
  <2> QED  BY <2>1
<1>4. ASSUME NEW j \in 1 .. count, j < count, NEW r, r.sum = T(j)
      PROVE  Moved(r, k + j) = T(j + 1)
  <2>1. k + j \in 1 .. n /\ (k + j) - k = j /\ j \in 1 .. n  BY <1>4
  <2>2. Moved(r, k + j) = T(j) + v[k + j] - v[j]  BY <1>4, <2>1
  <2>3. sum[j + 1 .. j + k] = sum[j .. j + k - 1] + v[j + k] - v[j]
    <3>1. j + k <= n  BY <2>1
    <3> QED  BY <1>0, <2>1, <3>1
  <2>4. (j + 1) + k - 1 = j + k /\ k + j = j + k  OBVIOUS
  <2> QED  BY <2>2, <2>3, <2>4
<1> DEFINE G == {j \in 1 .. count : \E f : Equation(f, k + j - 1)}
<1>5. 1 \in G
  <2>1. PICK f : f = [i \in k .. k |-> [sum |-> first, best |-> first, from |-> 1]]  OBVIOUS
  <2> HIDE DEF Slid
  <2>2. f = [i \in k .. k |-> IF i = k THEN [sum |-> first, best |-> first, from |-> 1] ELSE Slid(f[i - 1], i)]
    BY <2>1
  <2>3. Equation(f, k + 1 - 1)
    <3>1. k + 1 - 1 = k  OBVIOUS
    <3> QED  BY <2>2, <3>1
  <2>4. 1 \in 1 .. count  OBVIOUS
  <2> HIDE DEF Equation
  <2> QED  BY <2>3, <2>4
<1>6. ASSUME NEW j \in 1 .. count, j \in G, j < count  PROVE j + 1 \in G
  <2>1. PICK f : Equation(f, k + j - 1)  BY <1>6
  <2>2. PICK g : g = [i \in k .. k + j |-> IF i = k + j THEN Slid(f[i - 1], i) ELSE f[i]]  OBVIOUS
  <2> HIDE DEF Slid
  <2>3. ASSUME NEW i \in k .. k + j
        PROVE  g[i] = IF i = k THEN [sum |-> first, best |-> first, from |-> 1] ELSE Slid(g[i - 1], i)
    <3>1. CASE i = k + j
      <4>1. i # k /\ i - 1 \in k .. k + j /\ i - 1 # k + j  BY <3>1
      <4>2. g[i - 1] = f[i - 1]  BY <2>2, <4>1
      <4> QED  BY <2>2, <3>1, <4>1, <4>2
    <3>2. CASE i # k + j
      <4>1. i \in k .. k + j - 1 /\ g[i] = f[i]  BY <2>2, <3>2
      <4>2. i # k => i - 1 \in k .. k + j /\ i - 1 # k + j  BY <3>2
      <4>3. i # k => g[i - 1] = f[i - 1]  BY <2>2, <4>2
      <4> QED  BY <2>1, <4>1, <4>3
    <3> QED  BY <3>1, <3>2
  <2>4. Equation(g, k + (j + 1) - 1)
    <3>1. k + (j + 1) - 1 = k + j  OBVIOUS
    <3>2. g = [i \in k .. k + j |-> g[i]]  BY <2>2
    <3> QED  BY <2>3, <3>1, <3>2
  <2>5. j + 1 \in 1 .. count  BY <1>6
  <2> HIDE DEF Equation
  <2> QED  BY <2>4, <2>5
<1>7. count \in Nat /\ 1 \in 1 .. count /\ k + count - 1 = n  OBVIOUS
<1>8. PICK f : f = (CHOOSE g : Equation(g, n))  OBVIOUS
<1>9. Equation(f, n)
  <2>1. count \in G
    <3> HIDE DEF G, count
    <3>1. 1 .. count \subseteq G  BY <1>5, <1>6, <1>7, Onwards
    <3> QED  BY <1>7, <3>1
  <2>2. \E g : Equation(g, n)
    <3> HIDE DEF Equation
    <3> QED  BY <1>7, <2>1
  <2> HIDE DEF Equation
  <2> QED  BY <1>8, <2>2
<1> DEFINE Best(r, j) == \E b \in 1 .. j : /\ EarliestLeast(sum, k, b, j)
                                          /\ r = [sum |-> T(j), best |-> T(b), from |-> b]
           H == {j \in 1 .. count : Best(f[k + j - 1], j)}
<1>10. 1 \in H
  <2>1. k + 1 - 1 = k /\ k \in k .. n  OBVIOUS
  <2>2. f[k] = [sum |-> T(1), best |-> T(1), from |-> 1]
    <3> HIDE DEF Slid, T, first
    <3> QED  BY <1>2, <1>9, <2>1
  <2>3. EarliestLeast(sum, k, 1, 1)  BY DEF EarliestLeast
  <2>4. Best(f[k], 1)
    <3> HIDE DEF T
    <3> QED  BY <2>2, <2>3
  <2> HIDE DEF Best
  <2> QED  BY <1>7, <2>1, <2>4
<1>11. ASSUME NEW j \in 1 .. count, j \in H, j < count  PROVE j + 1 \in H
  <2>0. PICK at : at = k + j /\ at - 1 = k + j - 1 /\ k + (j + 1) - 1 = at /\ at \in k .. n /\ at # k /\ at - k + 1 = j + 1
    BY <1>11
  <2>1. PICK b \in 1 .. j : /\ EarliestLeast(sum, k, b, j)
                            /\ f[at - 1] = [sum |-> T(j), best |-> T(b), from |-> b]
    BY <1>11, <2>0
  <2>2. PICK r : r = f[at - 1] /\ r = [sum |-> T(j), best |-> T(b), from |-> b]  BY <2>1
  <2>3. Moved(r, at) = T(j + 1)
    <3>1. r.sum = T(j)  BY <2>2
    <3> HIDE DEF Moved, T
    <3> QED  BY <1>4, <1>11, <2>0, <3>1
  <2>4. f[at] = Slid(r, at)
    <3> HIDE DEF Slid
    <3> QED  BY <1>9, <2>0, <2>2
  <2>5. T(j + 1) \in Int /\ T(b) \in Int /\ j + 1 \in 1 .. count /\ \A m \in 1 .. j : T(m) \in Int
    <3>1. j + 1 \in 1 .. count /\ b \in 1 .. count /\ \A m \in 1 .. j : m \in 1 .. count  BY <1>11
    <3> HIDE DEF T, count
    <3> QED  BY <1>3, <3>1
  <2>6. \A m \in 1 .. j : T(b) < T(m) \/ (T(b) = T(m) /\ b <= m)  BY <2>1 DEF EarliestLeast
  <2>7. \A m \in 1 .. j + 1 : m \in 1 .. j \/ m = j + 1  OBVIOUS
  <2>8. CASE T(j + 1) < T(b)
    <3>1. f[at] = [sum |-> T(j + 1), best |-> T(j + 1), from |-> j + 1]
      <4>1. Moved(r, at) < r.best  BY <2>2, <2>3, <2>8
      <4> HIDE DEF Moved, T
      <4> QED  BY <2>0, <2>3, <2>4, <4>1
    <3>2. \A m \in 1 .. j + 1 : T(j + 1) < T(m) \/ (T(j + 1) = T(m) /\ j + 1 <= m)
      <4>1. j + 1 \in Nat  OBVIOUS
      <4> HIDE DEF T
      <4> QED  BY <2>5, <2>6, <2>7, <2>8, <4>1
    <3>3. EarliestLeast(sum, k, j + 1, j + 1)  BY <3>2 DEF EarliestLeast
    <3>4. Best(f[at], j + 1)
      <4> HIDE DEF T
      <4> QED  BY <2>5, <3>1, <3>3
    <3> HIDE DEF Best
    <3> QED  BY <2>0, <2>5, <3>4
  <2>9. CASE ~(T(j + 1) < T(b))
    <3>1. f[at] = [sum |-> T(j + 1), best |-> T(b), from |-> b]
      <4>1. ~(Moved(r, at) < r.best)  BY <2>2, <2>3, <2>9
      <4>2. Slid(r, at) = [r EXCEPT !.sum = T(j + 1)]
        <5> HIDE DEF Moved, T
        <5> QED  BY <2>3, <4>1
      <4> HIDE DEF Slid, T
      <4> QED  BY <2>2, <2>4, <4>2
    <3>2. \A m \in 1 .. j + 1 : T(b) < T(m) \/ (T(b) = T(m) /\ b <= m)
      <4>1. b <= j + 1  OBVIOUS
      <4> HIDE DEF T
      <4> QED  BY <2>5, <2>6, <2>7, <2>9, <4>1
    <3>3. EarliestLeast(sum, k, b, j + 1) /\ b \in 1 .. j + 1  BY <3>2 DEF EarliestLeast
    <3>4. Best(f[at], j + 1)
      <4> HIDE DEF T
      <4> QED  BY <3>1, <3>3
    <3> HIDE DEF Best
    <3> QED  BY <2>0, <2>5, <3>4
  <2> QED  BY <2>8, <2>9
<1>12. Best(f[n], count)
  <2>1. count \in H
    <3> HIDE DEF H, count
    <3>1. 1 .. count \subseteq H  BY <1>7, <1>10, <1>11, Onwards
    <3> QED  BY <1>7, <3>1
  <2> HIDE DEF Best
  <2> QED  BY <1>7, <2>1
<1>13. count + k - 1 = n  OBVIOUS
<1> QED
  <2> HIDE DEF Equation
  <2> QED  BY <1>1, <1>8, <1>12, <1>13 DEF SlidesTo

(* The multiples of a step, in their order.                                  *)
LEMMA Multiples ==
    ASSUME NEW d \in Nat \ {0}
    PROVE  /\ \A i \in Int : d * (i - 1) + d = d * i
           /\ \A i, j \in Int : i <= j <=> d * i <= d * j
           /\ \A i, k \in Int : d * (i - 1) + d * k = d * (i + k - 1)
<1>1. \A i \in Int : d * (i - 1) + d = d * i  OBVIOUS
<1>2. \A i, k \in Int : d * (i - 1) + d * k = d * (i + k - 1)  OBVIOUS
<1>3. \A i, j \in Int : i <= j => d * i <= d * j  OBVIOUS
<1>4. \A i, j \in Int : i < j => d * i < d * j  OBVIOUS
<1>5. ASSUME NEW i \in Int, NEW j \in Int, d * i <= d * j  PROVE i <= j
  <2>1. CASE j < i
    <3>1. d * j < d * i  BY <1>4, <2>1
    <3>2. d * j \in Int /\ d * i \in Int  OBVIOUS
    <3> QED  BY <1>5, <3>1, <3>2
  <2> QED  BY <2>1
<1> QED  BY <1>1, <1>2, <1>3, <1>5

(* A job of any duration takes a slot, of more than the step more than one.  *)
LEMMA SlotsIs ==
    ASSUME NEW d \in Nat \ {0}, NEW duration \in Nat \ {0}
    PROVE  /\ Schedule!Slots(duration, d) \in Nat \ {0}
           /\ duration > d <=> Schedule!Slots(duration, d) > 1
<1>1. PICK k : k = Schedule!Slots(duration, d)  OBVIOUS
<1>2. k = (duration + d - 1) \div d  BY <1>1 DEF Schedule!Slots
<1>3. k \in Int /\ d * k <= duration + d - 1 /\ duration + d - 1 < d * (k + 1)
  BY <1>2
<1>4. d * (k + 1) = d * k + d  BY <1>3
<1>5. d * k >= duration  BY <1>3, <1>4
<1>0. d * 0 = 0 /\ d * 1 = d /\ d * 2 = d + d /\ d * k \in Int  BY <1>3
<1>6. k > 0
  <2>1. CASE k <= 0
    <3>1. d * k <= d * 0  BY <1>3, <2>1, Multiples
    <3> QED  BY <1>0, <1>5, <3>1
  <2> QED  BY <1>3, <2>1
<1>7. CASE duration > d
  <2>1. CASE k <= 1
    <3>1. d * k <= d * 1  BY <1>3, <2>1, Multiples
    <3> QED  BY <1>0, <1>5, <1>7, <3>1
  <2> QED  BY <1>1, <1>3, <1>6, <1>7, <2>1
<1>8. CASE ~(duration > d)
  <2>1. CASE k > 1
    <3>1. d * 2 <= d * k  BY <1>3, <2>1, Multiples
    <3> QED  BY <1>0, <1>3, <1>8, <3>1
  <2> QED  BY <1>1, <1>3, <1>6, <1>8, <2>1
<1> QED  BY <1>7, <1>8

(* The window of k slots from position b. *)
WindowFrom(b, k, step, sum) ==
    [start |-> step * (b - 1), end |-> step * (b - 1) + step * k, total |-> sum[b .. b + k - 1], slots |-> k]

(* A series of m points, one for each step, with the values v.               *)
Graded(series, m, v, step, estimator) ==
    /\ DOMAIN series = 1 .. m /\ Len(series) = m
    /\ \A i \in 1 .. m : Schedule!estimate(series[i], estimator) = v[i]
    /\ \A i \in 1 .. m : series[i].at = step * (i - 1)

(* The greenest of the windows of k slots within the first m points. *)
BestOf(window, m, k, step, sum) ==
    /\ k > m => window = Schedule!NoWindow
    /\ k <= m => \E b \in 1 .. m - k + 1 :
          EarliestLeast(sum, k, b, m - k + 1) /\ window = WindowFrom(b, k, step, sum)

(* The window of k slots of a series of more than one point.                 *)
LEMMA GreenestIs ==
    ASSUME NEW m \in Nat, m > 1, NEW k \in Nat \ {0}, NEW v, NEW sum, IsSum(sum, m, v),
           NEW estimator, NEW series, NEW step \in Nat \ {0}, Graded(series, m, v, step, estimator),
           NEW duration \in Nat \ {0}, k = Schedule!Slots(duration, step)
    PROVE  BestOf(Schedule!greenest_window(series, duration, estimator), m, k, step, sum)
<1>1. Schedule!step_of(series) = step
  <2>1. step * (1 - 1) = 0 /\ step * (2 - 1) = step  OBVIOUS
  <2>2. Len(series) = m /\ series[1].at = 0 /\ series[2].at = step  BY <2>1 DEF Graded
  <2> QED  BY <2>2 DEF Schedule!step_of
<1>2. CASE k > m
  <2>1. Schedule!greenest_window(series, duration, estimator) = Schedule!NoWindow
    BY <1>1, <1>2 DEF Schedule!greenest_window, Graded
  <2> QED  BY <1>2, <2>1 DEF BestOf
<1>3. CASE k <= m
  <2>1. PICK b \in 1 .. m - k + 1 :
              /\ EarliestLeast(sum, k, b, m - k + 1)
              /\ Schedule!Slide(series, k, estimator) =
                    [sum |-> sum[m - k + 1 .. m], best |-> sum[b .. b + k - 1], from |-> b]
    <3>1. k \in 1 .. m  BY <1>3
    <3>2. SlidesTo(series, k, estimator, m, sum)  BY <3>1, SlideIs DEF Graded
    <3> QED  BY <3>2 DEF SlidesTo
  <2>2. Schedule!greenest_window(series, duration, estimator) =
           [start |-> series[Schedule!Slide(series, k, estimator).from].at,
            end |-> series[Schedule!Slide(series, k, estimator).from + k - 1].at + step,
            total |-> Schedule!Slide(series, k, estimator).best, slots |-> k]
    BY <1>1, <1>3 DEF Schedule!greenest_window, Graded
  <2>3. PICK slid : slid = Schedule!Slide(series, k, estimator)  OBVIOUS
  <2>4. slid.from = b /\ slid.best = sum[b .. b + k - 1]  BY <2>1, <2>3
  <2>5. Schedule!greenest_window(series, duration, estimator) =
           [start |-> series[b].at, end |-> series[b + k - 1].at + step,
            total |-> sum[b .. b + k - 1], slots |-> k]
    BY <2>2, <2>3, <2>4
  <2>6. b + k - 1 \in 1 .. m /\ b \in 1 .. m
    <3>1. b \in Int /\ 1 <= b /\ b <= m - k + 1  OBVIOUS
    <3> QED  BY <3>1
  <2>7. step * ((b + k - 1) - 1) + step = step * (b - 1) + step * k
    <3>1. PICK x : x = b + k - 1  OBVIOUS
    <3>2. x \in Int /\ b \in Int /\ k \in Int  BY <3>1
    <3>3. step * (x - 1) + step = step * x  BY <3>2, Multiples
    <3>4. step * (b - 1) + step * k = step * (b + k - 1)  BY <3>2, Multiples
    <3> QED  BY <3>1, <3>3, <3>4
  <2>8. Schedule!greenest_window(series, duration, estimator) = WindowFrom(b, k, step, sum)
    BY <2>5, <2>6, <2>7 DEF WindowFrom, Graded
  <2> QED  BY <1>3, <2>1, <2>8 DEF BestOf
<1> QED  BY <1>2, <1>3

(* Every set of positions has a least.                                       *)
LEMMA LeastOf ==
    ASSUME NEW n \in Nat, NEW I \in SUBSET (1 .. n), I # {}
    PROVE  \E x \in I : \A y \in I : x <= y
<1> DEFINE G == {k \in 1 .. n : (\A y \in I : y > k) \/ \E x \in I : \A y \in I : x <= y}
<1>1. n > 0
  <2>1. PICK y \in I : TRUE  OBVIOUS
  <2>2. y \in 1 .. n  OBVIOUS
  <2> QED  BY <2>2
<1>2. 1 \in G
  <2>1. CASE 1 \in I  BY <1>1, <2>1
  <2>2. CASE 1 \notin I
    <3>1. \A y \in I : y > 1  BY <2>2
    <3> QED  BY <1>1, <3>1
  <2> QED  BY <2>1, <2>2
<1>3. ASSUME NEW k \in 1 .. n, k \in G, k < n  PROVE k + 1 \in G
  <2>1. CASE \E x \in I : \A y \in I : x <= y  BY <1>3, <2>1
  <2>2. CASE \A y \in I : y > k
    <3>1. \A y \in I : y >= k + 1  BY <2>2
    <3>2. CASE k + 1 \in I  BY <1>3, <3>1, <3>2
    <3>3. CASE k + 1 \notin I
      <4>1. \A y \in I : y > k + 1  BY <3>1, <3>3
      <4> QED  BY <1>3, <4>1
    <3> QED  BY <3>2, <3>3
  <2> QED  BY <1>3, <2>1, <2>2
<1>4. n \in G
  <2> HIDE DEF G
  <2>1. 1 .. n \subseteq G  BY <1>2, <1>3, Onwards
  <2> QED  BY <1>1, <2>1
<1>5. ~(\A y \in I : y > n)
  <2>1. PICK y \in I : TRUE  OBVIOUS
  <2>2. y \in 1 .. n  OBVIOUS
  <2>3. ~(y > n)  BY <2>2
  <2> QED  BY <2>3
<1> QED  BY <1>4, <1>5

(* The points whose slots end by the deadline are the first m.               *)
UpTo(m, n, step, deadline) ==
    /\ m \in 0 .. n
    /\ ~deadline.given => m = n
    /\ deadline.given => \A i \in 1 .. n : i <= m <=> step * i <= deadline.at

(* The first point whose slot ends after the deadline, or 0.                 *)
Cutoff(series, step, deadline) ==
    LET I == {i \in 1 .. Len(series) : series[i].at + step > deadline}
    IN  IF I # {} THEN CHOOSE x \in I : \A y \in I : x <= y ELSE 0

(* Cutting before the first point too late keeps the points in time.         *)
LEMMA CutoffIs ==
    ASSUME NEW n \in Nat, n > 1, NEW v, NEW estimator, NEW series,
           NEW step \in Nat \ {0}, Graded(series, n, v, step, estimator), NEW deadline, deadline.given,
           deadline.at \in Int, NEW c, c = Cutoff(series, step, deadline.at)
    PROVE  /\ c = 0 => UpTo(n, n, step, deadline)
           /\ c # 0 => c \in 1 .. n /\ UpTo(c - 1, n, step, deadline)
<1> DEFINE I == {i \in 1 .. Len(series) : series[i].at + step > deadline.at}
           J == {i \in 1 .. n : step * i > deadline.at}
<1>1. c = IF I # {} THEN CHOOSE x \in I : \A y \in I : x <= y ELSE 0
  BY DEF Cutoff
<1>2. I = J
  <2>1. \A i \in 1 .. n : series[i].at + step = step * i
    <3>1. \A i \in 1 .. n : series[i].at = step * (i - 1)  BY DEF Graded
    <3>2. \A i \in 1 .. n : step * (i - 1) + step = step * i  BY Multiples
    <3> QED  BY <3>1, <3>2
  <2>2. Len(series) = n  BY DEF Graded
  <2> QED  BY <2>1, <2>2
<1>3. \A i \in 1 .. n : step * i \in Int  OBVIOUS
<1>4. CASE I = {}
  <2>1. ASSUME NEW i \in 1 .. n  PROVE step * i <= deadline.at
    <3>1. ~(step * i > deadline.at)  BY <1>2, <1>4
    <3>2. PICK p : p = step * i  OBVIOUS
    <3>3. p \in Int /\ ~(p > deadline.at)  BY <1>3, <3>1, <3>2
    <3>4. p <= deadline.at  BY <3>3
    <3> QED  BY <3>2, <3>4
  <2>2. c = 0  BY <1>1, <1>4
  <2> QED  BY <2>1, <2>2 DEF UpTo
<1>5. CASE I # {}
  <2>1. PICK x \in J : \A y \in J : x <= y
    <3>1. J \in SUBSET (1 .. n) /\ J # {}  BY <1>2, <1>5
    <3> HIDE DEF J
    <3> QED  BY <3>1, LeastOf
  <2>2. c \in J /\ \A y \in J : c <= y
    <3> HIDE DEF I, J
    <3> QED  BY <1>1, <1>2, <1>5, <2>1
  <2>3. c \in 1 .. n /\ step * c > deadline.at  BY <2>2
  <2>4. ASSUME NEW i \in 1 .. n  PROVE i <= c - 1 <=> step * i <= deadline.at
    <3>1. CASE i <= c - 1
      <4>1. i \notin J
        <5>1. ~(c <= i)  BY <2>3, <3>1
        <5> HIDE DEF J
        <5> QED  BY <2>2, <5>1
      <4> QED  BY <1>3, <3>1, <4>1
    <3>2. CASE ~(i <= c - 1)
      <4>1. c <= i  BY <2>3, <3>2
      <4>2. step * c <= step * i  BY <2>3, <4>1, Multiples
      <4>3. step * c \in Int /\ step * i \in Int  BY <1>3, <2>3
      <4> QED  BY <2>3, <3>2, <4>2, <4>3
    <3> QED  BY <3>1, <3>2
  <2>5. c - 1 \in 0 .. n /\ c # 0  BY <2>3
  <2>6. UpTo(c - 1, n, step, deadline)  BY <2>4, <2>5 DEF UpTo
  <2> QED  BY <2>3, <2>5, <2>6
<1> QED  BY <1>4, <1>5

(* The window of a job is the best within the points its deadline keeps.     *)
LEMMA WindowIsBest ==
    ASSUME NEW n \in Nat, n > 1, NEW k \in Nat \ {0}, NEW v, NEW sum, IsSum(sum, n, v),
           NEW P, NEW series \in Seq(P), NEW step \in Nat \ {0}, NEW estimator, Graded(series, n, v, step, estimator),
           NEW duration \in Nat \ {0}, k = Schedule!Slots(duration, step),
           NEW deadline, deadline.given \in BOOLEAN, deadline.at \in Int
    PROVE  \E m \in 0 .. n :
              /\ UpTo(m, n, step, deadline)
              /\ BestOf(Schedule!schedule_window(series, duration, deadline, estimator).window, m, k, step, sum)
<1>1. CASE ~deadline.given
  <2>1. Schedule!schedule_window(series, duration, deadline, estimator).window
          = Schedule!greenest_window(series, duration, estimator)
    BY <1>1 DEF Schedule!schedule_window
  <2>2. BestOf(Schedule!greenest_window(series, duration, estimator), n, k, step, sum)  BY GreenestIs
  <2>3. UpTo(n, n, step, deadline)  BY <1>1 DEF UpTo
  <2>4. n \in 0 .. n  OBVIOUS
  <2> QED  BY <2>1, <2>2, <2>3, <2>4
<1>2. CASE deadline.given
  <2>1. Schedule!schedule_window(series, duration, deadline, estimator).window
          = Schedule!greenest_window_before(series, duration, deadline.at, estimator)
    BY <1>2 DEF Schedule!schedule_window
  <2>2. Schedule!step_of(series) = step
    <3>1. step * (1 - 1) = 0 /\ step * (2 - 1) = step  OBVIOUS
    <3>2. Len(series) = n /\ series[1].at = 0 /\ series[2].at = step  BY <3>1 DEF Graded
    <3> QED  BY <3>2 DEF Schedule!step_of
  <2>3. PICK c : c = Cutoff(series, step, deadline.at)  OBVIOUS
  <2>4. PICK kept : kept = IF c = 0 THEN series ELSE SubSeq(series, 1, c - 1)  OBVIOUS
  <2>5. PICK m : m = IF c = 0 THEN n ELSE c - 1  OBVIOUS
  <2>6. m \in 0 .. n /\ UpTo(m, n, step, deadline)
    <3>1. /\ c = 0 => UpTo(n, n, step, deadline)
          /\ c # 0 => c \in 1 .. n /\ UpTo(c - 1, n, step, deadline)
      BY <1>2, <2>3, CutoffIs
    <3> QED  BY <2>5, <3>1
  <2>7. Graded(kept, m, v, step, estimator)
    <3>1. Len(series) = n /\ DOMAIN series = 1 .. n  BY DEF Graded
    <3>2. CASE c = 0  BY <2>4, <2>5, <3>2
    <3>3. CASE c # 0
      <4>1. kept = SubSeq(series, 1, m) /\ m \in 0 .. Len(series)  BY <2>4, <2>5, <2>6, <3>1, <3>3
      <4>2. Len(kept) = m /\ DOMAIN kept = 1 .. m /\ \A i \in 1 .. m : kept[i] = series[i]
        <5>1. 1 \in 1 .. Len(series) + 1 /\ 1 - 1 <= m  BY <2>6, <3>1
        <5> QED  BY <4>1, <5>1
      <4> QED  BY <2>6, <4>2 DEF Graded
    <3> QED  BY <3>2, <3>3
  <2>8. Len(kept) = m  BY <2>7 DEF Graded
  <2>9. Schedule!greenest_window_before(series, duration, deadline.at, estimator) =
           LET cut == Cutoff(series, Schedule!step_of(series), deadline.at)
               rest == IF cut = 0 THEN series ELSE SubSeq(series, 1, cut - 1)
           IN  IF Schedule!step_of(series) = 0 THEN Schedule!NoWindow
               ELSE IF Len(rest) # 1 THEN Schedule!greenest_window(rest, duration, estimator)
               ELSE IF duration <= 0 \/ duration > Schedule!step_of(series) THEN Schedule!NoWindow
               ELSE [start |-> series[1].at, end |-> series[1].at + Schedule!step_of(series),
                     total |-> Schedule!estimate(series[1], estimator), slots |-> 1]
    BY DEF Schedule!greenest_window_before, Schedule!SelectInSeq, Schedule!Min, Cutoff
  <2>10. Schedule!greenest_window_before(series, duration, deadline.at, estimator) =
           IF Len(kept) # 1 THEN Schedule!greenest_window(kept, duration, estimator)
           ELSE IF duration <= 0 \/ duration > step THEN Schedule!NoWindow
           ELSE [start |-> series[1].at, end |-> series[1].at + step,
                 total |-> Schedule!estimate(series[1], estimator), slots |-> 1]
    BY <2>2, <2>3, <2>4, <2>9
  <2>11. BestOf(Schedule!greenest_window_before(series, duration, deadline.at, estimator), m, k, step, sum)
    <3>1. CASE m > 1
      <4>1. IsSum(sum, m, v)
        <5>1. 1 .. m \subseteq 1 .. n  BY <2>6
        <5> QED  BY <5>1 DEF IsSum
      <4>2. BestOf(Schedule!greenest_window(kept, duration, estimator), m, k, step, sum)
        BY <2>6, <2>7, <3>1, <4>1, GreenestIs
      <4> QED  BY <2>8, <2>10, <3>1, <4>2
    <3>2. CASE m = 0
      <4>1. Schedule!greenest_window(kept, duration, estimator) = Schedule!NoWindow
        BY <2>8, <3>2 DEF Schedule!greenest_window
      <4> QED  BY <2>8, <2>10, <3>2, <4>1 DEF BestOf
    <3>3. CASE m = 1
      <4>1. duration > step <=> k > 1  BY SlotsIs
      <4>2. CASE duration > step
        BY <2>8, <2>10, <3>3, <4>1, <4>2 DEF BestOf
      <4>3. CASE ~(duration > step)
        <5>1. k = 1  BY <4>1, <4>3
        <5>2. Schedule!greenest_window_before(series, duration, deadline.at, estimator) =
                 [start |-> series[1].at, end |-> series[1].at + step,
                  total |-> Schedule!estimate(series[1], estimator), slots |-> 1]
          BY <2>8, <2>10, <3>3, <4>3
        <5>3. sum[1 .. 1] = v[1]
          <6>1. PICK s : s = 1 .. 1  OBVIOUS
          <6>2. s \in SUBSET (1 .. n) /\ 1 \in s /\ s \ {1} = {}  BY <6>1
          <6>3. sum[s] = v[1] + sum[s \ {1}] /\ sum[{}] = 0 /\ v[1] \in Int  BY <6>2 DEF IsSum
          <6>4. PICK x : x = v[1]  OBVIOUS
          <6>5. sum[s] = x + 0 /\ x \in Int  BY <6>2, <6>3, <6>4
          <6>6. sum[s] = x  BY <6>5
          <6> QED  BY <6>1, <6>4, <6>6
        <5>4. series[1].at = step * (1 - 1) /\ Schedule!estimate(series[1], estimator) = v[1]
          <6>1. PICK i \in 1 .. n : i = 1  OBVIOUS
          <6>2. series[i].at = step * (i - 1) /\ Schedule!estimate(series[i], estimator) = v[i]  BY DEF Graded
          <6> QED  BY <6>1, <6>2
        <5>5. WindowFrom(1, k, step, sum) =
                 [start |-> series[1].at, end |-> series[1].at + step,
                  total |-> Schedule!estimate(series[1], estimator), slots |-> 1]
          <6>1. step * 1 = step /\ 1 + 1 - 1 = 1  OBVIOUS
          <6> QED  BY <5>1, <5>3, <5>4, <6>1 DEF WindowFrom
        <5>6. EarliestLeast(sum, k, 1, 1)  BY DEF EarliestLeast
        <5>7. m - k + 1 = 1  BY <3>3, <5>1
        <5> QED  BY <3>3, <5>1, <5>2, <5>5, <5>6, <5>7 DEF BestOf
      <4> QED  BY <4>2, <4>3
    <3> QED  BY <2>6, <3>1, <3>2, <3>3
  <2> QED  BY <2>1, <2>6, <2>11
<1> QED  BY <1>1, <1>2

(* The windows that cover the job are those within the points kept.          *)
LEMMA CoveringIs ==
    ASSUME NEW n \in Nat, n > 1, NEW v, Step \in Nat \ {0}, Graded(points, n, v, Step, job.estimator),
           NEW k \in Nat \ {0}, k = Schedule!Slots(job.duration, Step),
           job.deadline.given \in BOOLEAN, job.deadline.at \in Int,
           NEW m \in 0 .. n, UpTo(m, n, Step, job.deadline)
    PROVE  Schedule!Covering = {from \in 1 .. n : from + k - 1 <= m}
<1>1. DOMAIN points = 1 .. n /\ Len(points) = n /\ \A i \in 1 .. n : points[i].at = Step * (i - 1)
  BY DEF Graded
<1>2. ASSUME NEW from \in 1 .. n
      PROVE  (/\ from + k - 1 <= Len(points)
              /\ job.deadline.given => points[from].at + Step * k <= job.deadline.at) <=> from + k - 1 <= m
  <2>1. PICK last : last = from + k - 1  OBVIOUS
  <2>2. last \in Int /\ last >= 1 /\ from \in Int /\ k \in Int  BY <2>1
  <2>3. points[from].at + Step * k = Step * last
    <3>1. Step * (from - 1) + Step * k = Step * (from + k - 1)  BY <2>2, Multiples
    <3> QED  BY <1>1, <2>1, <3>1
  <2>4. CASE ~job.deadline.given
    <3>1. m = n  BY <2>4 DEF UpTo
    <3> QED  BY <1>1, <2>4, <3>1
  <2>5. CASE job.deadline.given
    <3>1. \A i \in 1 .. n : i <= m <=> Step * i <= job.deadline.at  BY <2>5 DEF UpTo
    <3>2. last <= n => (last <= m <=> Step * last <= job.deadline.at)
      <4>1. last <= n => last \in 1 .. n  BY <2>2
      <4> QED  BY <3>1, <4>1
    <3>3. last <= m => last <= n  BY <2>2
    <3> QED  BY <1>1, <2>1, <2>3, <2>5, <3>2, <3>3
  <2> QED  BY <2>4, <2>5
<1>3. Schedule!Covering =
         {from \in 1 .. n : /\ from + k - 1 <= Len(points)
                            /\ job.deadline.given => points[from].at + Step * k <= job.deadline.at}
  BY <1>1 DEF Schedule!Covering
<1> QED  BY <1>2, <1>3

(* The window of k positions from b, within the first m.                     *)
LEMMA Within ==
    ASSUME NEW n \in Nat, NEW k \in Nat \ {0}, NEW m \in 0 .. n, k <= m, NEW b \in 1 .. m - k + 1
    PROVE  /\ b \in 1 .. n /\ b + k - 1 \in 1 .. n /\ 1 \in 1 .. m - k + 1
           /\ b .. b + k - 1 \in SUBSET (1 .. n)
           /\ Cardinality(b .. b + k - 1) = k
<1>1. PICK last : last = b + k - 1  OBVIOUS
<1>2. b \in Int /\ last \in Int /\ 1 <= b /\ b <= last /\ last <= n /\ last - b + 1 = k  BY <1>1
<1>3. b \in 1 .. n /\ last \in 1 .. n /\ b .. last \in SUBSET (1 .. n)  BY <1>2
<1>4. Cardinality(b .. last) = k
  <2>1. Cardinality(b .. last) = IF b > last THEN 0 ELSE last - b + 1  BY <1>2, FS_Interval
  <2> QED  BY <1>2, <2>1
<1>5. 1 \in 1 .. m - k + 1  OBVIOUS
<1> QED  BY <1>1, <1>3, <1>4, <1>5

(* What is advised is the earliest of the greenest windows that cover the job. *)
LEMMA GreenestAdvised ==
    ASSUME NEW n \in Nat, n > 1, NEW v, NEW sum, IsSum(sum, n, v),
           NEW P, points \in Seq(P), Step \in Nat \ {0}, Graded(points, n, v, Step, job.estimator),
           job.duration \in Nat \ {0}, NEW k \in Nat \ {0}, k = Schedule!Slots(job.duration, Step),
           job.deadline.given \in BOOLEAN, job.deadline.at \in Int,
           advice.window = Schedule!schedule_window(points, job.duration, job.deadline, job.estimator).window
    PROVE  IF Schedule!Covering = {} THEN advice.window = Schedule!NoWindow
           ELSE \E best \in Schedule!Covering :
              /\ \A from \in Schedule!Covering :
                    \/ Schedule!TotalFrom(best) < Schedule!TotalFrom(from)
                    \/ Schedule!TotalFrom(best) = Schedule!TotalFrom(from) /\ best <= from
              /\ advice.window = [start |-> points[best].at, end |-> points[best].at + Step * k,
                                  total |-> Schedule!TotalFrom(best), slots |-> k]
<1>1. PICK m \in 0 .. n : UpTo(m, n, Step, job.deadline) /\ BestOf(advice.window, m, k, Step, sum)
  <2>1. \E m \in 0 .. n :
           /\ UpTo(m, n, Step, job.deadline)
           /\ BestOf(Schedule!schedule_window(points, job.duration, job.deadline, job.estimator).window, m, k, Step, sum)
    BY WindowIsBest
  <2> QED  BY <2>1
<1>2. Schedule!Covering = {from \in 1 .. n : from + k - 1 <= m}
  BY <1>1, CoveringIs
<1>3. CASE k > m
  <2>1. Schedule!Covering = {}
    <3>1. \A from \in 1 .. n : ~(from + k - 1 <= m)  BY <1>3
    <3> QED  BY <1>2, <3>1
  <2> QED  BY <1>1, <1>3, <2>1 DEF BestOf
<1>4. CASE k <= m
  <2>1. Schedule!Covering = 1 .. m - k + 1
    <3>1. \A from \in Int : from \in 1 .. n /\ from + k - 1 <= m <=> from \in 1 .. m - k + 1  BY <1>4
    <3> QED  BY <1>2, <3>1
  <2>2. PICK b \in 1 .. m - k + 1 : EarliestLeast(sum, k, b, m - k + 1) /\ advice.window = WindowFrom(b, k, Step, sum)
    BY <1>1, <1>4 DEF BestOf
  <2>3. ASSUME NEW from \in 1 .. m - k + 1  PROVE Schedule!TotalFrom(from) = sum[from .. from + k - 1]
    <3>1. PICK to : to = from + k - 1  OBVIOUS
    <3>2. from \in Int /\ to \in Int /\ from >= 1 /\ to <= n
      <4>1. from \in 1 .. n /\ to \in 1 .. n  BY <1>4, <3>1, Within
      <4> QED  BY <4>1
    <3>3. Valued(points, n, v, job.estimator)  BY DEF Valued, Graded
    <3>4. Schedule!Total(points, from, to, job.estimator) = sum[from .. to]
      BY <3>2, <3>3, TotalIsSum
    <3> QED  BY <3>1, <3>4 DEF Schedule!TotalFrom
  <2>4. \A from \in 1 .. m - k + 1 :
           \/ sum[b .. b + k - 1] < sum[from .. from + k - 1]
           \/ sum[b .. b + k - 1] = sum[from .. from + k - 1] /\ b <= from
    BY <2>2 DEF EarliestLeast
  <2>5. points[b].at = Step * (b - 1)
    <3>1. b \in 1 .. n  BY <1>4, <2>1, <1>2
    <3> QED  BY <3>1 DEF Graded
  <2>6. advice.window = [start |-> points[b].at, end |-> points[b].at + Step * k,
                         total |-> Schedule!TotalFrom(b), slots |-> k]
    BY <2>2, <2>3, <2>5 DEF WindowFrom
  <2>7. \A from \in 1 .. m - k + 1 :
           \/ Schedule!TotalFrom(b) < Schedule!TotalFrom(from)
           \/ Schedule!TotalFrom(b) = Schedule!TotalFrom(from) /\ b <= from
    BY <2>3, <2>4
  <2>8. b \in Schedule!Covering  BY <2>1
  <2>9. \A from \in Schedule!Covering :
           \/ Schedule!TotalFrom(b) < Schedule!TotalFrom(from)
           \/ Schedule!TotalFrom(b) = Schedule!TotalFrom(from) /\ b <= from
    BY <2>1, <2>7
  <2> QED  BY <2>6, <2>8, <2>9
<1> QED  BY <1>1, <1>3, <1>4

(* The positions sorted before i: of a lesser value, or the earlier of equals. *)
Before(v, n, i) == {j \in 1 .. n : v[j] < v[i] \/ (v[j] = v[i] /\ j < i)}

(* The first k of them all. *)
Least(v, n, k) == {i \in 1 .. n : Cardinality(Before(v, n, i)) < k}

(* Sets of positions are finite.                                             *)
LEMMA FiniteParts ==
    ASSUME NEW n \in Nat, NEW s \in SUBSET (1 .. n)
    PROVE  IsFiniteSet(s) /\ Cardinality(s) \in Nat
<1>1. IsFiniteSet(1 .. n)  BY FS_Interval
<1>2. IsFiniteSet(s)  BY <1>1, FS_Subset
<1> QED  BY <1>2, FS_CardinalityType

(* Every set of positions has one that all the others are before. *)
LEMMA LastOf ==
    ASSUME NEW n \in Nat, NEW v, \A i \in 1 .. n : v[i] \in Int, NEW s \in SUBSET (1 .. n), s # {}
    PROVE  \E x \in s : s \ {x} \subseteq Before(v, n, x)
<1> DEFINE G == {u \in SUBSET (1 .. n) : u # {} => \E x \in u : u \ {x} \subseteq Before(v, n, x)}
<1>1. {} \in G  OBVIOUS
<1>2. ASSUME NEW u \in SUBSET (1 .. n), u # {}, \A x \in u : u \ {x} \in G  PROVE u \in G
  <2>1. PICK x \in u : TRUE  BY <1>2
  <2>2. CASE u \ {x} = {}
    <3>1. u \ {x} \subseteq Before(v, n, x)  BY <2>2
    <3> QED  BY <3>1
  <2>3. CASE u \ {x} # {}
    <3>1. u \ {x} \in G  BY <1>2
    <3>2. PICK y \in u \ {x} : (u \ {x}) \ {y} \subseteq Before(v, n, y)  BY <2>3, <3>1
    <3>3. x \in 1 .. n /\ y \in 1 .. n /\ x # y /\ v[x] \in Int /\ v[y] \in Int  BY <1>2
    <3>4. CASE x \in Before(v, n, y)
      <4>1. u \ {y} \subseteq Before(v, n, y)  BY <3>2, <3>4
      <4> QED  BY <3>2, <4>1
    <3>5. CASE x \notin Before(v, n, y)
      <4>1. v[y] < v[x] \/ (v[y] = v[x] /\ y < x)  BY <3>3, <3>5 DEF Before
      <4>2. y \in Before(v, n, x)  BY <3>3, <4>1 DEF Before
      <4>3. ASSUME NEW z \in Before(v, n, y)  PROVE z \in Before(v, n, x)
        <5>1. z \in 1 .. n /\ v[z] \in Int /\ (v[z] < v[y] \/ (v[z] = v[y] /\ z < y))  BY DEF Before
        <5>2. v[z] < v[x] \/ (v[z] = v[x] /\ z < x)  BY <3>3, <4>1, <5>1
        <5> QED  BY <5>1, <5>2 DEF Before
      <4>4. u \ {x} \subseteq Before(v, n, x)  BY <3>2, <4>2, <4>3
      <4> QED  BY <4>4
    <3> QED  BY <3>4, <3>5
  <2> QED  BY <2>2, <2>3
<1>3. s \in G
  <2> HIDE DEF G
  <2> QED  BY <1>1, <1>2, BySubsets
<1> QED  BY <1>3

(* No more than k are kept: all of them but the last are before the last.   *)
LEMMA LeastCount ==
    ASSUME NEW n \in Nat, NEW v, \A i \in 1 .. n : v[i] \in Int, NEW k \in Nat
    PROVE  Cardinality(Least(v, n, k)) <= k
<1>1. PICK s : s = Least(v, n, k)  OBVIOUS
<1>2. s \in SUBSET (1 .. n) /\ \A i \in s : Cardinality(Before(v, n, i)) < k  BY <1>1 DEF Least
<1>3. CASE s = {}
  <2>1. Cardinality(s) = 0  BY <1>3, FS_EmptySet
  <2> QED  BY <1>1, <2>1
<1>4. CASE s # {}
  <2>1. PICK x \in s : s \ {x} \subseteq Before(v, n, x)  BY <1>2, <1>4, LastOf
  <2>2. PICK rest, before : rest = s \ {x} /\ before = Before(v, n, x)  OBVIOUS
  <2>3. before \in SUBSET (1 .. n) /\ rest \in SUBSET (1 .. n) /\ rest \subseteq before
    BY <1>2, <2>1, <2>2 DEF Before
  <2>4. /\ IsFiniteSet(s) /\ IsFiniteSet(before) /\ Cardinality(before) \in Nat
        /\ Cardinality(rest) \in Nat /\ Cardinality(s) \in Nat
    BY <1>2, <2>3, FiniteParts
  <2>5. Cardinality(rest) <= Cardinality(before)  BY <2>3, <2>4, FS_Subset
  <2>6. Cardinality(rest) = Cardinality(s) - 1  BY <2>1, <2>2, <2>4, FS_RemoveElement
  <2>7. Cardinality(before) < k  BY <1>2, <2>2
  <2>8. Cardinality(s) <= k  BY <2>4, <2>5, <2>6, <2>7
  <2> QED  BY <1>1, <2>8
<1> QED  BY <1>3, <1>4

(* What is left out is not less than what is kept. *)
LEMMA LeastIsLeast ==
    ASSUME NEW n \in Nat, NEW v, \A i \in 1 .. n : v[i] \in Int, NEW k \in Nat,
           NEW a \in Least(v, n, k), NEW b \in 1 .. n, b \notin Least(v, n, k)
    PROVE  v[a] <= v[b]
<1>1. SUFFICES ASSUME v[b] < v[a] PROVE FALSE
  <2>1. a \in 1 .. n  BY DEF Least
  <2>2. v[a] \in Int /\ v[b] \in Int  BY <2>1
  <2> QED  BY <2>2
<1>2. a \in 1 .. n /\ v[a] \in Int /\ v[b] \in Int  BY DEF Least
<1>3. PICK p, q : p = Before(v, n, a) /\ q = Before(v, n, b)  OBVIOUS
<1>4. p \in SUBSET (1 .. n) /\ q \in SUBSET (1 .. n)  BY <1>3 DEF Before
<1>5. q \subseteq p
  <2>1. ASSUME NEW z \in q  PROVE z \in p
    <3>1. z \in 1 .. n /\ v[z] \in Int /\ v[z] <= v[b]  BY <1>2, <1>3 DEF Before
    <3>2. v[z] < v[a]  BY <1>1, <1>2, <3>1
    <3> QED  BY <1>3, <3>1, <3>2 DEF Before
  <2> QED  BY <2>1
<1>6. IsFiniteSet(p) /\ Cardinality(p) \in Nat /\ Cardinality(q) \in Nat  BY <1>4, FiniteParts
<1>7. Cardinality(q) <= Cardinality(p)  BY <1>5, <1>6, FS_Subset
<1>8. Cardinality(p) < k  BY <1>3 DEF Least
<1>9. Cardinality(q) < k  BY <1>6, <1>7, <1>8
<1> QED  BY <1>3, <1>9 DEF Least

(* Natural values add up to a natural sum.                                   *)
LEMMA SumIsNat ==
    ASSUME NEW n \in Nat, NEW v, NEW sum, IsSum(sum, n, v), \A i \in 1 .. n : v[i] \in Nat, NEW s \in SUBSET (1 .. n)
    PROVE  sum[s] \in Nat
<1> DEFINE G == {u \in SUBSET (1 .. n) : sum[u] \in Nat}
<1>1. {} \in G  BY DEF IsSum
<1>2. ASSUME NEW u \in SUBSET (1 .. n), u # {}, \A x \in u : u \ {x} \in G  PROVE u \in G
  <2>1. PICK x \in u : TRUE  BY <1>2
  <2>2. sum[u \ {x}] \in Nat /\ v[x] \in Nat  BY <1>2
  <2>3. sum[u] = v[x] + sum[u \ {x}]  BY DEF IsSum
  <2> QED  BY <2>2, <2>3
<1>3. s \in G
  <2> HIDE DEF G
  <2> QED  BY <1>1, <1>2, BySubsets
<1> QED  BY <1>3

(* The sum of disjoint sets is that of their union.                          *)
LEMMA SumSplits ==
    ASSUME NEW n \in Nat, NEW v, NEW sum, IsSum(sum, n, v), NEW s \in SUBSET (1 .. n), NEW w \in SUBSET (1 .. n),
           s \cap w = {}
    PROVE  sum[s \cup w] = sum[s] + sum[w]
<1> DEFINE G == {u \in SUBSET (1 .. n) : u \cap w = {} => sum[u \cup w] = sum[u] + sum[w]}
<1>1. {} \in G
  <2>1. {} \cup w = w /\ sum[w] \in Int /\ sum[{}] = 0  BY DEF IsSum
  <2> QED  BY <2>1
<1>2. ASSUME NEW u \in SUBSET (1 .. n), u # {}, \A x \in u : u \ {x} \in G  PROVE u \in G
  <2>1. SUFFICES ASSUME u \cap w = {} PROVE sum[u \cup w] = sum[u] + sum[w]  OBVIOUS
  <2>2. PICK x \in u : TRUE  BY <1>2
  <2>3. PICK all, rest : all = u \cup w /\ rest = u \ {x}  OBVIOUS
  <2>4. all \in SUBSET (1 .. n) /\ x \in all /\ all \ {x} = rest \cup w /\ rest \cap w = {}
    BY <2>1, <2>3
  <2>5. sum[rest \cup w] = sum[rest] + sum[w]  BY <1>2, <2>3, <2>4
  <2>6. sum[all] = v[x] + sum[rest \cup w] /\ sum[u] = v[x] + sum[rest]
    <3>1. sum[all] = v[x] + sum[all \ {x}]  BY <2>4 DEF IsSum
    <3>2. sum[u] = v[x] + sum[u \ {x}]  BY DEF IsSum
    <3> QED  BY <2>3, <2>4, <3>1, <3>2
  <2>7. sum[rest] \in Int /\ sum[w] \in Int /\ v[x] \in Int  BY <2>3 DEF IsSum
  <2> QED  BY <2>3, <2>5, <2>6, <2>7
<1>3. s \in G
  <2> HIDE DEF G
  <2> QED  BY <1>1, <1>2, BySubsets
<1> QED  BY <1>3

(* No more positions, each of a value no greater, add up to no more. *)
LEMMA NoMore ==
    ASSUME NEW n \in Nat, NEW v, NEW sum, IsSum(sum, n, v), \A i \in 1 .. n : v[i] \in Nat,
           NEW a \in SUBSET (1 .. n), NEW b \in SUBSET (1 .. n),
           Cardinality(a) <= Cardinality(b), \A x \in a : \A y \in b : v[x] <= v[y]
    PROVE  sum[a] <= sum[b]
<1> DEFINE G == {u \in SUBSET (1 .. n) : \A w \in SUBSET (1 .. n) :
                    Cardinality(u) <= Cardinality(w) /\ (\A x \in u : \A y \in w : v[x] <= v[y]) => sum[u] <= sum[w]}
<1>1. {} \in G
  <2>1. sum[{}] = 0  BY DEF IsSum
  <2>2. \A w \in SUBSET (1 .. n) : sum[w] >= 0
    <3>1. \A w \in SUBSET (1 .. n) : sum[w] \in Nat  BY SumIsNat
    <3> QED  BY <3>1
  <2> QED  BY <2>1, <2>2
<1>2. ASSUME NEW u \in SUBSET (1 .. n), u # {}, \A x \in u : u \ {x} \in G  PROVE u \in G
  <2>1. SUFFICES ASSUME NEW w \in SUBSET (1 .. n), Cardinality(u) <= Cardinality(w),
                        \A x \in u : \A y \in w : v[x] <= v[y]
                 PROVE  sum[u] <= sum[w]
    OBVIOUS
  <2>2. PICK x \in u : TRUE  BY <1>2
  <2>3. /\ IsFiniteSet(u) /\ Cardinality(u) \in Nat /\ IsFiniteSet(w) /\ Cardinality(w) \in Nat
    BY FiniteParts
  <2>4. w # {}
    <3>1. Cardinality(u) # 0  BY <1>2, <2>3, FS_EmptySet
    <3>2. Cardinality(w) # 0  BY <2>1, <2>3, <3>1
    <3> QED  BY <3>2, FS_EmptySet
  <2>5. PICK y \in w : TRUE  BY <2>4
  <2>6. PICK less, fewer : less = u \ {x} /\ fewer = w \ {y}  OBVIOUS
  <2>7. /\ less \in SUBSET (1 .. n) /\ fewer \in SUBSET (1 .. n)
        /\ Cardinality(less) = Cardinality(u) - 1 /\ Cardinality(fewer) = Cardinality(w) - 1
    BY <2>2, <2>3, <2>5, <2>6, FS_RemoveElement
  <2>8. Cardinality(less) <= Cardinality(fewer)  BY <2>1, <2>3, <2>7
  <2>9. sum[less] <= sum[fewer]
    <3>1. less \in G  BY <1>2, <2>6
    <3>2. \A p \in less : \A q \in fewer : v[p] <= v[q]  BY <2>1, <2>6
    <3> QED  BY <2>7, <2>8, <3>1, <3>2
  <2>10. sum[u] = v[x] + sum[less] /\ sum[w] = v[y] + sum[fewer]  BY <2>6 DEF IsSum
  <2>11. v[x] <= v[y]  BY <2>1
  <2>12. sum[less] \in Int /\ sum[fewer] \in Int /\ v[x] \in Int /\ v[y] \in Int  BY <2>7 DEF IsSum
  <2> QED  BY <2>9, <2>10, <2>11, <2>12
<1>3. a \in G
  <2> HIDE DEF G
  <2> QED  BY <1>1, <1>2, BySubsets
<1> QED  BY <1>3

(* The k least add up to no more than any k. *)
LEMMA LeastSum ==
    ASSUME NEW n \in Nat, NEW v, NEW sum, IsSum(sum, n, v), \A i \in 1 .. n : v[i] \in Nat, NEW k \in Nat,
           NEW w \in SUBSET (1 .. n), Cardinality(w) = k
    PROVE  sum[Least(v, n, k)] <= sum[w]
<1>1. PICK s : s = Least(v, n, k)  OBVIOUS
<1>2. s \in SUBSET (1 .. n)  BY <1>1 DEF Least
<1>3. PICK a, b, c : a = s \ w /\ b = w \ s /\ c = s \cap w  OBVIOUS
<1>4. a \in SUBSET (1 .. n) /\ b \in SUBSET (1 .. n) /\ c \in SUBSET (1 .. n)  BY <1>2, <1>3
<1>5. /\ IsFiniteSet(s) /\ IsFiniteSet(w) /\ Cardinality(s) \in Nat /\ Cardinality(c) \in Nat
  BY <1>2, <1>4, FiniteParts
<1>6. Cardinality(a) = Cardinality(s) - Cardinality(c)  BY <1>3, <1>5, FS_Difference
<1>7. Cardinality(b) = Cardinality(w) - Cardinality(c)
  <2>1. w \cap s = c  BY <1>3
  <2>2. Cardinality(w \ s) = Cardinality(w) - Cardinality(w \cap s)  BY <1>5, FS_Difference
  <2> QED  BY <1>3, <2>1, <2>2
<1>0. \A i \in 1 .. n : v[i] \in Int  OBVIOUS
<1>8. Cardinality(s) <= k  BY <1>0, <1>1, LeastCount
<1>9. Cardinality(a) <= Cardinality(b)  BY <1>5, <1>6, <1>7, <1>8
<1>10. \A x \in a : \A y \in b : v[x] <= v[y]
  BY <1>0, <1>1, <1>3, <1>4, LeastIsLeast
<1>11. sum[a] <= sum[b]  BY <1>4, <1>9, <1>10, NoMore
<1>12. sum[s] = sum[a] + sum[c] /\ sum[w] = sum[b] + sum[c]
  <2>1. s = a \cup c /\ w = b \cup c /\ a \cap c = {} /\ b \cap c = {}  BY <1>3
  <2>2. sum[a \cup c] = sum[a] + sum[c]  BY <1>4, <2>1, SumSplits
  <2>3. sum[b \cup c] = sum[b] + sum[c]  BY <1>4, <2>1, SumSplits
  <2> QED  BY <2>1, <2>2, <2>3
<1>13. sum[a] \in Int /\ sum[b] \in Int /\ sum[c] \in Int  BY <1>4 DEF IsSum
<1>14. sum[s] <= sum[w]  BY <1>11, <1>12, <1>13
<1> QED  BY <1>1, <1>14

(* The slots advised are the k least, each with its value.                   *)
LEMMA LowestIs ==
    ASSUME NEW n \in Nat, NEW v, NEW step, NEW estimator, NEW series, Graded(series, n, v, step, estimator), NEW k
    PROVE  Schedule!lowest_slots(series, k, estimator)
             = [i \in Least(v, n, k) |-> [at |-> step * (i - 1), intensity |-> v[i]]]
<1> DEFINE value(i) == Schedule!estimate(series[i], estimator)
           before(i) == {j \in DOMAIN series : value(j) < value(i) \/ (value(j) = value(i) /\ j < i)}
           least == {i \in DOMAIN series : Cardinality(before(i)) < k}
<1>1. Schedule!lowest_slots(series, k, estimator)
        = [i \in least |-> [at |-> series[i].at, intensity |-> value(i)]]
  BY DEF Schedule!lowest_slots, Schedule!Cardinality, Cardinality
<1>2. DOMAIN series = 1 .. n /\ \A i \in 1 .. n : value(i) = v[i] /\ series[i].at = step * (i - 1)
  BY DEF Graded
<1>3. \A i \in 1 .. n : before(i) = Before(v, n, i)
  <2> HIDE DEF value
  <2> QED  BY <1>2 DEF Before
<1>4. least = Least(v, n, k)
  <2> HIDE DEF before
  <2> QED  BY <1>2, <1>3 DEF Least
<1>5. \A i \in Least(v, n, k) : series[i].at = step * (i - 1) /\ value(i) = v[i]
  BY <1>2 DEF Least
<1> HIDE DEF least, value
<1> QED  BY <1>1, <1>4, <1>5

(* The k least slots, each at its position. *)
IsLowest(lowest, v, n, k, step) ==
    lowest = [i \in Least(v, n, k) |-> [at |-> step * (i - 1), intensity |-> v[i]]]

(* The values of the slots advised, added up. *)
LowestSum(lowest) ==
    LET fun == [i \in DOMAIN lowest |-> lowest[i].intensity]
    IN  (CHOOSE f : Adds(f, DOMAIN fun, fun))[DOMAIN fun]

(* Their values add up to the sum over their positions.                      *)
LEMMA LowestTotal ==
    ASSUME NEW n \in Nat, NEW v, NEW sum, IsSum(sum, n, v), NEW step, NEW k, NEW lowest, IsLowest(lowest, v, n, k, step)
    PROVE  LowestSum(lowest) = sum[Least(v, n, k)]
<1> DEFINE fun == [i \in DOMAIN lowest |-> lowest[i].intensity]
           set == Least(v, n, k)
<1>1. DOMAIN lowest = set /\ \A i \in set : lowest[i].intensity = v[i]
  <2> HIDE DEF set
  <2>1. lowest = [i \in set |-> [at |-> step * (i - 1), intensity |-> v[i]]]  BY DEF set, IsLowest
  <2> QED  BY <2>1
<1>2. set \in SUBSET (1 .. n)  BY DEF Least
<1>3. DOMAIN fun = set /\ \A i \in set : fun[i] = v[i]
  <2> HIDE DEF set
  <2> QED  BY <1>1
<1>4. LowestSum(lowest) = (CHOOSE f : Adds(f, DOMAIN fun, fun))[DOMAIN fun]
  BY DEF LowestSum
<1> HIDE DEF set, fun
<1>5. (CHOOSE f : Adds(f, set, fun))[set] = sum[set]
  <2>1. \A i \in set : fun[i] = v[i]  BY <1>3
  <2> QED  BY <1>2, <2>1, FoldIsSum
<1>6. LowestSum(lowest) = sum[set]  BY <1>3, <1>4, <1>5
<1> QED  BY <1>6 DEF set

(* The slots advised add up to no more than any k. *)
LEMMA LowestNoMore ==
    ASSUME NEW n \in Nat, NEW v, NEW sum, IsSum(sum, n, v), \A i \in 1 .. n : v[i] \in Nat,
           NEW step, NEW estimator, NEW series, Graded(series, n, v, step, estimator), NEW k \in Nat,
           NEW w \in SUBSET (1 .. n), Cardinality(w) = k
    PROVE  LowestSum(Schedule!lowest_slots(series, k, estimator)) <= sum[w]
<1>1. PICK lowest : lowest = Schedule!lowest_slots(series, k, estimator)  OBVIOUS
<1>2. IsLowest(lowest, v, n, k, step)  BY <1>1, LowestIs DEF IsLowest
<1>3. LowestSum(lowest) = sum[Least(v, n, k)]  BY <1>2, LowestTotal
<1>4. sum[Least(v, n, k)] <= sum[w]  BY LeastSum
<1> QED  BY <1>1, <1>3, <1>4

(* There is no window without two points and a duration. *)
LEMMA NothingToAdvise ==
    ASSUME NEW series, NEW duration, NEW deadline, NEW estimator, Len(series) < 2 \/ duration <= 0
    PROVE  Schedule!schedule_window(series, duration, deadline, estimator).window = Schedule!NoWindow
<1>1. \A kept : Len(kept) < 2 \/ duration <= 0
          => Schedule!greenest_window(kept, duration, estimator) = Schedule!NoWindow
  BY DEF Schedule!greenest_window
<1>2. Len(series) < 2 => Schedule!step_of(series) = 0  BY DEF Schedule!step_of
<1>3. Schedule!greenest_window_before(series, duration, deadline.at, estimator) = Schedule!NoWindow
  BY <1>1, <1>2 DEF Schedule!greenest_window_before
<1>4. Schedule!greenest_window(series, duration, estimator) = Schedule!NoWindow
  BY <1>1
<1> QED  BY <1>3, <1>4 DEF Schedule!schedule_window

(* A job of no duration takes no slot.                                        *)
LEMMA SlotsIsNat ==
    ASSUME NEW d \in Nat \ {0}, NEW duration \in Nat
    PROVE  Schedule!Slots(duration, d) \in Nat
<1>1. CASE duration = 0
  <2>1. (duration + d - 1) \in Nat  BY <1>1
  <2>2. PICK k : k = (duration + d - 1) \div d  OBVIOUS
  <2>3. k \in Int /\ duration + d - 1 < d * (k + 1)  BY <2>2
  <2>4. d * (k + 1) > 0 /\ d * 0 = 0 /\ d * (k + 1) \in Int  BY <2>1, <2>3
  <2>5. ~(k + 1 <= 0)
    <3>1. k + 1 \in Int  BY <2>3
    <3>2. k + 1 <= 0 => d * (k + 1) <= d * 0  BY <3>1, Multiples
    <3> QED  BY <2>4, <3>2
  <2> QED  BY <2>2, <2>3, <2>5 DEF Schedule!Slots
<1>2. CASE duration # 0
  BY <1>2, SlotsIs
<1> QED  BY <1>1, <1>2

-----------------------------------------------------------------------------
(* The advice of a job on its forecast. *)
Computed ==
    [window |-> Schedule!schedule_window(points, job.duration, job.deadline, job.estimator).window,
     saved |-> Schedule!schedule_window(points, job.duration, job.deadline, job.estimator).saved,
     lowest |-> Schedule!lowest_slots(points, Schedule!Slots(job.duration, Step), job.estimator),
     below |-> Schedule!slots_below(points, job.duration, job.estimator)]

Jobs == [estimator : {"central", "prudent"}, duration : 0 .. Step * MaxPoints, deadline : Schedule!Deadlines]

ScheduleInv ==
    /\ job # Schedule!NoJob => job \in Jobs /\ \E forecast \in Schedule!Forecasts : points = Schedule!PointsOf(forecast)
    /\ advice # Schedule!NoAdvice => job # Schedule!NoJob /\ advice = Computed

(* Advice is what the job computes on its forecast, and neither changes     *)
(* before it is forgotten.                                                    *)
LEMMA AdviceComputed == Schedule!Spec => []ScheduleInv
<1>1. Schedule!Init => ScheduleInv  BY DEF Schedule!Init, ScheduleInv
<1>2. ScheduleInv /\ [Schedule!Next]_(Schedule!vars) => ScheduleInv'
  <2> SUFFICES ASSUME ScheduleInv, [Schedule!Next]_(Schedule!vars) PROVE ScheduleInv'
    OBVIOUS
  <2>1. CASE Schedule!Ask
    <3>1. advice = Schedule!NoAdvice /\ advice' = advice  BY <2>1 DEF Schedule!Ask, ScheduleInv
    <3>2. job' \in Jobs  BY <2>1 DEF Schedule!Ask, Jobs
    <3>3. \E forecast \in Schedule!Forecasts : points' = Schedule!PointsOf(forecast)  BY <2>1 DEF Schedule!Ask
    <3> QED  BY <3>1, <3>2, <3>3 DEF ScheduleInv, Jobs, Schedule!Deadlines, Schedule!PointsOf, Schedule!Forecasts, Schedule!NoJob, Schedule!NoAdvice
  <2>2. CASE Schedule!Advise
    <3>1. job # Schedule!NoJob /\ job' = job /\ points' = points  BY <2>2 DEF Schedule!Advise
    <3>2. advice' = Computed  BY <2>2 DEF Schedule!Advise, Computed
    <3>3. Computed' = Computed  BY <3>1 DEF Computed
    <3> QED  BY <3>1, <3>2, <3>3 DEF ScheduleInv
  <2>3. CASE Schedule!Forget
    BY <2>3 DEF Schedule!Forget, ScheduleInv
  <2>4. CASE UNCHANGED Schedule!vars
    BY <2>4 DEF Schedule!vars, ScheduleInv, Computed
  <2> QED  BY <2>1, <2>2, <2>3, <2>4 DEF Schedule!Next
<1> QED  BY <1>1, <1>2, PTL DEF Schedule!Spec

(* The forecast as a series of natural values, one for each step. *)
LEMMA ForecastIs ==
    ASSUME NEW forecast \in Schedule!Forecasts, points = Schedule!PointsOf(forecast),
           NEW estimator \in {"central", "prudent"}
    PROVE  \E n \in Nat : \E v, sum :
              /\ points \in Seq([at : Int, expected : Nat, upper : Nat])
              /\ Graded(points, n, v, Step, estimator)
              /\ \A i \in 1 .. n : v[i] \in Nat
              /\ IsSum(sum, n, v)
<1>1. PICK n \in 0 .. MaxPoints : forecast \in [1 .. n -> [expected : Intensities, margin : Margins]]
  BY DEF Schedule!Forecasts
<1>2. n \in Nat /\ MaxPoints \in Nat /\ Step \in Nat \ {0} /\ Intensities \subseteq Nat /\ Margins \subseteq Nat
  BY ScheduleAssumption
<1>3. ASSUME NEW i \in 1 .. n
      PROVE  /\ forecast[i].expected \in Nat /\ forecast[i].expected + forecast[i].margin \in Nat
             /\ Step * (i - 1) \in Int
  <2>1. forecast[i] \in [expected : Intensities, margin : Margins]  BY <1>1
  <2>2. forecast[i].expected \in Nat /\ forecast[i].margin \in Nat  BY <1>2, <2>1
  <2>3. i \in Int  OBVIOUS
  <2> QED  BY <1>2, <2>2, <2>3
<1>4. points = [i \in 1 .. n |-> [at |-> Step * (i - 1), expected |-> forecast[i].expected,
                                  upper |-> forecast[i].expected + forecast[i].margin]]
  BY <1>1 DEF Schedule!PointsOf
<1>5. points \in Seq([at : Int, expected : Nat, upper : Nat]) /\ Len(points) = n /\ DOMAIN points = 1 .. n
  <2>1. PICK P : P = [at : Int, expected : Nat, upper : Nat]  OBVIOUS
  <2>2. ASSUME NEW i \in 1 .. n  PROVE points[i] \in P
    <3>1. PICK at, expected, upper : at = Step * (i - 1) /\ expected = forecast[i].expected
                                     /\ upper = forecast[i].expected + forecast[i].margin
      OBVIOUS
    <3>2. at \in Int /\ expected \in Nat /\ upper \in Nat  BY <1>3, <3>1
    <3>3. points[i] = [at |-> at, expected |-> expected, upper |-> upper]  BY <1>4, <3>1
    <3> QED  BY <2>1, <3>2, <3>3
  <2>3. DOMAIN points = 1 .. n  BY <1>4
  <2>4. points \in [1 .. n -> P]  BY <1>4, <2>2, <2>3
  <2>5. points \in Seq(P) /\ Len(points) = n  BY <1>2, <2>4
  <2> QED  BY <2>1, <2>3, <2>5
<1>6. PICK v : v = [i \in 1 .. n |-> Schedule!estimate(points[i], estimator)]  OBVIOUS
<1>7. v \in [1 .. n -> Nat] /\ \A i \in 1 .. n : v[i] \in Nat
  <2>1. ASSUME NEW i \in 1 .. n  PROVE points[i].expected \in Nat /\ points[i].upper \in Nat
    <3>1. points[i].expected = forecast[i].expected /\ points[i].upper = forecast[i].expected + forecast[i].margin
      BY <1>4
    <3> QED  BY <1>3, <3>1
  <2>2. \A i \in 1 .. n : Schedule!estimate(points[i], estimator) \in Nat  BY <2>1 DEF Schedule!estimate
  <2> QED  BY <1>6, <2>2
<1>8. Graded(points, n, v, Step, estimator)
  <2>1. \A i \in 1 .. n : points[i].at = Step * (i - 1)  BY <1>4
  <2> QED  BY <1>5, <1>6, <2>1 DEF Graded
<1>9. \E sum : IsSum(sum, n, v)
  <2>1. v \in [1 .. n -> Int]  BY <1>7
  <2> QED  BY <1>2, <2>1, SumExists
<1> QED  BY <1>2, <1>5, <1>7, <1>8, <1>9

(* The k least are advised, the least of all together and each on its own.   *)
LEMMA LowestAdvised ==
    ASSUME NEW n \in Nat, n > 1, NEW v, NEW sum, IsSum(sum, n, v), \A i \in 1 .. n : v[i] \in Nat,
           NEW P, points \in Seq(P), Step \in Nat \ {0}, Graded(points, n, v, Step, job.estimator),
           job.duration \in Nat \ {0}, job.deadline.given \in BOOLEAN, job.deadline.at \in Int, advice = Computed
    PROVE  /\ advice.window # Schedule!NoWindow =>
                LowestSum(advice.lowest) <= advice.window.total
           /\ advice.window.slots = 1 => advice.saved >= 0
<1>1. PICK k : k = Schedule!Slots(job.duration, Step)  OBVIOUS
<1>2. k \in Nat \ {0}  BY <1>1, SlotsIs
<1>3. advice.window = Schedule!schedule_window(points, job.duration, job.deadline, job.estimator).window
  BY DEF Computed
<1>4. PICK m \in 0 .. n : BestOf(advice.window, m, k, Step, sum)
  <2>1. \E m \in 0 .. n :
           /\ UpTo(m, n, Step, job.deadline)
           /\ BestOf(Schedule!schedule_window(points, job.duration, job.deadline, job.estimator).window, m, k, Step, sum)
    BY <1>1, <1>2, WindowIsBest
  <2> QED  BY <1>3, <2>1
<1>5. CASE k > m
  <2>1. advice.window = Schedule!NoWindow  BY <1>4, <1>5 DEF BestOf
  <2>2. advice.window.slots # 1  BY <2>1 DEF Schedule!NoWindow
  <2> QED  BY <2>1, <2>2
<1>6. CASE k <= m
  <2>1. PICK b \in 1 .. m - k + 1 : EarliestLeast(sum, k, b, m - k + 1) /\ advice.window = WindowFrom(b, k, Step, sum)
    BY <1>4, <1>6 DEF BestOf
  <2>2. PICK w : w = b .. b + k - 1  OBVIOUS
  <2>3. 1 \in 1 .. m - k + 1 /\ b .. b + k - 1 \in SUBSET (1 .. n) /\ Cardinality(b .. b + k - 1) = k
    BY <1>2, <1>6, Within
  <2>4. w \in SUBSET (1 .. n) /\ Cardinality(w) = k  BY <2>2, <2>3
  <2>5. advice.window.total = sum[w] /\ advice.window.slots = k  BY <2>1, <2>2 DEF WindowFrom
  <2>6. LowestSum(Schedule!lowest_slots(points, k, job.estimator)) <= sum[w]
    BY <1>2, <2>4, LowestNoMore
  <2>7. advice.lowest = Schedule!lowest_slots(points, k, job.estimator)  BY <1>1 DEF Computed
  <2>8. LowestSum(advice.lowest) <= sum[w]  BY <2>6, <2>7
  <2>9. ASSUME advice.window.slots = 1  PROVE advice.saved >= 0
    <3>1. k = 1  BY <2>5, <2>9
    <3>2. sum[w] <= sum[1 .. 1]
      <4>1. sum[b .. b + k - 1] < sum[1 .. 1 + k - 1] \/ sum[b .. b + k - 1] = sum[1 .. 1 + k - 1]
        BY <2>1, <2>3 DEF EarliestLeast
      <4>2. 1 + k - 1 = 1  BY <3>1
      <4>3. PICK p, q : p = sum[w] /\ q = sum[1 .. 1]  OBVIOUS
      <4>4. 1 .. 1 \in SUBSET (1 .. n)  OBVIOUS
      <4>5. p \in Int /\ q \in Int  BY <2>4, <4>3, <4>4 DEF IsSum
      <4>6. p < q \/ p = q  BY <2>2, <4>1, <4>2, <4>3
      <4> QED  BY <4>3, <4>5, <4>6
    <3>3. sum[1 .. 1] = v[1] /\ v[1] \in Int
      <4>1. PICK s : s = 1 .. 1  OBVIOUS
      <4>2. s \in SUBSET (1 .. n) /\ 1 \in s /\ s \ {1} = {}  BY <4>1
      <4>3. sum[s] = v[1] + sum[s \ {1}] /\ sum[{}] = 0 /\ v[1] \in Int  BY <4>2 DEF IsSum
      <4>4. PICK x : x = v[1]  OBVIOUS
      <4>5. sum[s] = x + 0 /\ x \in Int  BY <4>2, <4>3, <4>4
      <4>6. sum[s] = x  BY <4>5
      <4> QED  BY <4>1, <4>4, <4>5, <4>6
    <3>4. advice.window # Schedule!NoWindow  BY <2>9 DEF Schedule!NoWindow
    <3>5. advice.saved = Schedule!savings_vs_now(points, advice.window, job.estimator)
      BY <1>3, <3>4 DEF Computed, Schedule!schedule_window
    <3>6. advice.saved = v[1] * 1 - sum[w]
      <4>1. Schedule!estimate(points[1], job.estimator) = v[1]
        <5>1. PICK i \in 1 .. n : i = 1  OBVIOUS
        <5>2. Schedule!estimate(points[i], job.estimator) = v[i]  BY DEF Graded
        <5> QED  BY <5>1, <5>2
      <4> QED  BY <2>5, <2>9, <3>5, <4>1 DEF Schedule!savings_vs_now
    <3>7. PICK p, q : p = sum[w] /\ q = v[1]  OBVIOUS
    <3>8. p \in Int /\ q \in Int /\ p <= q  BY <2>4, <3>2, <3>3, <3>7 DEF IsSum
    <3>9. q * 1 - p >= 0  BY <3>8
    <3> QED  BY <3>6, <3>7, <3>9
  <2> QED  BY <2>5, <2>8, <2>9
<1> QED  BY <1>2, <1>5, <1>6

(* No slot left out is greener than one advised. *)
LEMMA NoneGreener ==
    ASSUME NEW n \in Nat, NEW v, \A i \in 1 .. n : v[i] \in Nat, NEW step, NEW estimator, NEW series,
           Graded(series, n, v, step, estimator), NEW k \in Nat
    PROVE  LET lowest == Schedule!lowest_slots(series, k, estimator)
           IN  \A slot \in Schedule!ToSet(lowest) : \A i \in DOMAIN series :
                  series[i].at \notin {s.at : s \in Schedule!ToSet(lowest)}
                     => slot.intensity <= Schedule!estimate(series[i], estimator)
<1>1. PICK lowest : lowest = Schedule!lowest_slots(series, k, estimator)  OBVIOUS
<1>2. lowest = [i \in Least(v, n, k) |-> [at |-> step * (i - 1), intensity |-> v[i]]]
  BY <1>1, LowestIs
<1>3. Schedule!ToSet(lowest) = {lowest[i] : i \in Least(v, n, k)}
  <2>1. DOMAIN lowest = Least(v, n, k)  BY <1>2
  <2> QED  BY <2>1 DEF Schedule!ToSet
<1>4. ASSUME NEW slot \in Schedule!ToSet(lowest), NEW i \in DOMAIN series,
             series[i].at \notin {s.at : s \in Schedule!ToSet(lowest)}
      PROVE  slot.intensity <= Schedule!estimate(series[i], estimator)
  <2>1. PICK a \in Least(v, n, k) : slot = lowest[a]  BY <1>3
  <2>2. slot.intensity = v[a]  BY <1>2, <2>1
  <2>3. i \in 1 .. n /\ series[i].at = step * (i - 1) /\ Schedule!estimate(series[i], estimator) = v[i]
    BY DEF Graded
  <2>4. i \notin Least(v, n, k)
    <3>1. SUFFICES ASSUME i \in Least(v, n, k) PROVE FALSE  OBVIOUS
    <3>2. lowest[i] \in Schedule!ToSet(lowest)  BY <1>3, <3>1
    <3>3. lowest[i].at = series[i].at  BY <1>2, <2>3, <3>1
    <3> QED  BY <1>4, <3>2, <3>3
  <2>5. \A j \in 1 .. n : v[j] \in Int  OBVIOUS
  <2>6. v[a] <= v[i]  BY <2>3, <2>4, <2>5, LeastIsLeast
  <2> QED  BY <2>2, <2>3, <2>6
<1> QED  BY <1>1, <1>4

(* The window advised is the earliest of the greenest that cover the job by *)
(* its deadline, and the slots of a divisible job are never worse, whatever  *)
(* the values, the step and the length of the forecast (window.rs and         *)
(* schedule.rs of the domain).                                               *)
THEOREM AdviceHolds == Schedule!Spec => []AdviceIsBest
<1>1. ASSUME ScheduleInv  PROVE AdviceIsBest
  <2> SUFFICES ASSUME Schedule!Advised PROVE AdviceIsBest
    BY DEF AdviceIsBest, Schedule!WindowIsGreenest, Schedule!DivisibleIsGreener
  <2>1. job \in Jobs /\ advice = Computed  BY <1>1 DEF Schedule!Advised, ScheduleInv
  <2>2. PICK forecast \in Schedule!Forecasts : points = Schedule!PointsOf(forecast)
    BY <1>1 DEF Schedule!Advised, ScheduleInv
  <2>3. Step \in Nat \ {0} /\ MaxPoints \in Nat  BY ScheduleAssumption
  <2>4. /\ job.estimator \in {"central", "prudent"} /\ job.duration \in Nat
        /\ job.deadline.given \in BOOLEAN /\ job.deadline.at \in Int
    <3>1. Step * MaxPoints + 1 \in Int /\ Step * MaxPoints \in Int  BY <2>3
    <3>2. job.estimator \in {"central", "prudent"} /\ job.duration \in 0 .. Step * MaxPoints /\ job.deadline \in Schedule!Deadlines
      BY <2>1 DEF Jobs
    <3>3. PICK limit : limit = Step * MaxPoints + 1  OBVIOUS
    <3>4. Schedule!Deadlines = [given : {FALSE}, at : {0}] \cup [given : {TRUE}, at : 0 .. limit]
      BY <3>3 DEF Schedule!Deadlines
    <3>5. job.deadline.given \in BOOLEAN /\ job.deadline.at \in Int
      <4>0. PICK d : d = job.deadline  OBVIOUS
      <4>1. CASE d \in [given : {FALSE}, at : {0}]
        <5>1. d.given \in {FALSE}  BY <4>1
        <5>2. d.at \in {0}  BY <4>1
        <5>3. d.given \in BOOLEAN  BY <5>1
        <5> QED  BY <4>0, <5>2, <5>3
      <4>2. CASE d \in [given : {TRUE}, at : 0 .. limit]
        <5>1. d.given \in {TRUE}  BY <4>2
        <5>2. d.at \in 0 .. limit  BY <4>2
        <5>3. d.given \in BOOLEAN  BY <5>1
        <5> QED  BY <4>0, <5>2, <5>3
      <4> QED  BY <3>2, <3>4, <4>0, <4>1, <4>2
    <3> QED  BY <3>1, <3>2, <3>5
  <2>5. PICK n \in Nat : \E v, sum :
              /\ points \in Seq([at : Int, expected : Nat, upper : Nat])
              /\ Graded(points, n, v, Step, job.estimator)
              /\ \A i \in 1 .. n : v[i] \in Nat
              /\ IsSum(sum, n, v)
    BY <1>1, <2>2, <2>4, ForecastIs
  <2>6. PICK v, sum :
              /\ points \in Seq([at : Int, expected : Nat, upper : Nat])
              /\ Graded(points, n, v, Step, job.estimator)
              /\ \A i \in 1 .. n : v[i] \in Nat
              /\ IsSum(sum, n, v)
    BY <2>5
  <2>7. Len(points) = n  BY <2>6 DEF Graded
  <2>8. PICK k : k = Schedule!Slots(job.duration, Step)  OBVIOUS
  <2>9. k \in Nat /\ (job.duration > 0 => k \in Nat \ {0})  BY <2>3, <2>4, <2>8, SlotsIs, SlotsIsNat
  <2>10. advice.window = Schedule!schedule_window(points, job.duration, job.deadline, job.estimator).window
    BY <2>1 DEF Computed
  <2>11. Schedule!WindowIsGreenest
    <3>1. SUFFICES ASSUME job.duration > 0, Len(points) > 1
                   PROVE  IF Schedule!Covering = {} THEN advice.window = Schedule!NoWindow
                          ELSE \E best \in Schedule!Covering :
                            /\ \A from \in Schedule!Covering :
                                  \/ Schedule!TotalFrom(best) < Schedule!TotalFrom(from)
                                  \/ Schedule!TotalFrom(best) = Schedule!TotalFrom(from) /\ best <= from
                            /\ advice.window = [start |-> points[best].at, end |-> points[best].at + Step * k,
                                                total |-> Schedule!TotalFrom(best), slots |-> k]
      BY <2>8 DEF Schedule!WindowIsGreenest
    <3>2. job.duration \in Nat \ {0} /\ n > 1 /\ k \in Nat \ {0}  BY <2>4, <2>7, <2>9, <3>1
    <3> QED  BY <2>3, <2>4, <2>6, <2>8, <2>10, <3>2, GreenestAdvised
  <2>12. Schedule!DivisibleIsGreener
    <3>1. /\ advice.window # Schedule!NoWindow =>
               LowestSum(advice.lowest) <= advice.window.total
          /\ advice.window.slots = 1 => advice.saved >= 0
      <4>1. CASE job.duration > 0 /\ n > 1
        <5>1. job.duration \in Nat \ {0}  BY <2>4, <4>1
        <5> QED  BY <2>1, <2>3, <2>4, <2>6, <4>1, <5>1, LowestAdvised
      <4>2. CASE ~(job.duration > 0 /\ n > 1)
        <5>1. Len(points) < 2 \/ job.duration <= 0  BY <2>4, <2>7, <4>2
        <5>2. advice.window = Schedule!NoWindow  BY <2>10, <5>1, NothingToAdvise
        <5>3. advice.window.slots # 1  BY <5>2 DEF Schedule!NoWindow
        <5> QED  BY <5>2, <5>3
      <4> QED  BY <4>1, <4>2
    <3>2. advice.lowest = Schedule!lowest_slots(points, k, job.estimator)  BY <2>1, <2>8 DEF Computed
    <3>3. \A slot \in Schedule!ToSet(advice.lowest) : \A i \in DOMAIN points :
             points[i].at \notin {s.at : s \in Schedule!ToSet(advice.lowest)}
                => slot.intensity <= Schedule!estimate(points[i], job.estimator)
      BY <2>6, <2>9, <3>2, NoneGreener
    <3>4. Schedule!DivisibleIsGreener <=> (Schedule!Advised =>
             /\ advice.window # Schedule!NoWindow => LowestSum(advice.lowest) <= advice.window.total
             /\ advice.window.slots = 1 => advice.saved >= 0
             /\ \A slot \in Schedule!ToSet(advice.lowest) : \A i \in DOMAIN points :
                   points[i].at \notin {s.at : s \in Schedule!ToSet(advice.lowest)}
                      => slot.intensity <= Schedule!estimate(points[i], job.estimator))
      BY DEF Schedule!DivisibleIsGreener, Schedule!FoldFunction, Schedule!FoldFunctionOnSet,
             Schedule!MapThenFoldSet, LowestSum, Adds
    <3> QED  BY <3>1, <3>3, <3>4
  <2> QED  BY <2>11, <2>12 DEF AdviceIsBest
<1>2. ScheduleInv => AdviceIsBest  BY <1>1
<1> QED  BY <1>2, AdviceComputed, PTL

-----------------------------------------------------------------------------
(* The derived series: induction over the instants that a history sweeps.   *)
(* A set of positions has a last one. *)
LEMMA LastInIs ==
    ASSUME NEW n \in Nat, NEW S \in SUBSET (1 .. n), S # {}
    PROVE  Series!Max(S) \in S /\ \A y \in S : Series!Max(S) >= y
<1> DEFINE G == {u \in SUBSET (1 .. n) : u # {} => \E x \in u : \A y \in u : x >= y}
<1>1. {} \in G  OBVIOUS
<1>2. ASSUME NEW u \in SUBSET (1 .. n), u # {}, \A x \in u : u \ {x} \in G  PROVE u \in G
  <2>1. PICK x \in u : TRUE  BY <1>2
  <2>2. CASE u \ {x} = {}  BY <2>1, <2>2
  <2>3. CASE u \ {x} # {}
    <3>1. PICK y \in u \ {x} : \A z \in u \ {x} : y >= z  BY <1>2, <2>3
    <3>2. CASE x >= y
      <4>1. \A z \in u : x >= z  BY <3>1, <3>2
      <4> QED  BY <4>1
    <3>3. CASE ~(x >= y)
      <4>1. \A z \in u : y >= z  BY <3>1, <3>3
      <4> QED  BY <4>1
    <3> QED  BY <3>2, <3>3
  <2> QED  BY <2>2, <2>3
<1>3. S \in G
  <2> HIDE DEF G
  <2> QED  BY <1>1, <1>2, BySubsets
<1> QED  BY <1>3 DEF Series!Max

(* The last of the first positions, and what is before it. *)
LEMMA LastOfPrefix ==
    ASSUME NEW k \in Nat
    PROVE  Series!Max(1 .. k + 1) = k + 1 /\ (1 .. k + 1) \ {k + 1} = 1 .. k
<1>1. PICK n \in Nat : n = k + 1  OBVIOUS
<1>2. 1 .. n \in SUBSET (1 .. n) /\ 1 .. n # {} /\ n \in 1 .. n  BY <1>1
<1>3. Series!Max(1 .. n) \in 1 .. n /\ Series!Max(1 .. n) >= n  BY <1>2, LastInIs
<1> QED  BY <1>1, <1>3

(* A set of instants has a last one. *)
LEMMA LastMoment ==
    ASSUME MaxInstant \in Nat, NEW S \in SUBSET (0 .. MaxInstant), S # {}
    PROVE  \E t \in S : \A u \in S : u <= t
<1>1. PICK n \in Nat : n = MaxInstant + 1  OBVIOUS
<1>2. PICK positions : positions = {i \in 1 .. n : i - 1 \in S}  OBVIOUS
<1>3. PICK some \in S : TRUE  OBVIOUS
<1>4. some + 1 \in positions
  <2>1. some + 1 - 1 = some /\ some + 1 \in 1 .. n  BY <1>1
  <2> QED  BY <1>2, <2>1
<1>5. positions \in SUBSET (1 .. n) /\ positions # {}  BY <1>2, <1>4
<1>6. PICK i \in positions : \A j \in positions : i >= j  BY <1>5, LastInIs
<1>7. i - 1 \in S /\ i \in Int  BY <1>2
<1>8. ASSUME NEW u \in S  PROVE u <= i - 1
  <2>1. u \in Int /\ u + 1 - 1 = u /\ u + 1 \in 1 .. n  BY <1>1
  <2>2. u + 1 \in positions  BY <1>2, <2>1
  <2> QED  BY <1>6, <1>7, <2>1, <2>2
<1> QED  BY <1>7, <1>8

-----------------------------------------------------------------------------
(* The sweep of a history: what it holds after each of its instants.        *)
Start == [current |-> 0 - 1, out |-> <<>>]

Swept(f, from, instants) ==
    f = [s \in SUBSET (DOMAIN instants) |->
           IF s = {} THEN Start ELSE Series!Merge(f[s \ {Series!Max(s)}], from, instants[Series!Max(s)])]

(* Such a sweep exists: it is built one instant at a time.                  *)
LEMMA SweepExists ==
    ASSUME NEW n \in Nat, NEW from, NEW instants, DOMAIN instants = 1 .. n
    PROVE  \E f : Swept(f, from, instants)
<1> DEFINE After(f, s) == IF s = {} THEN Start ELSE Series!Merge(f[s \ {Series!Max(s)}], from, instants[Series!Max(s)])
           Built(f, k) == /\ f = [s \in SUBSET (1 .. n) |-> f[s]]
                         /\ \A s \in SUBSET (1 .. n) : s \subseteq 1 .. k => f[s] = After(f, s)
           G == {k \in 1 .. n : \E f : Built(f, k)}
<1>1. ASSUME NEW k \in 0 .. n - 1, NEW old, Built(old, k)  PROVE \E f : Built(f, k + 1)
  <2>1. PICK f : f = [s \in SUBSET (1 .. n) |-> IF s \subseteq 1 .. k THEN old[s] ELSE After(old, s)]
    OBVIOUS
  <2>2. f = [s \in SUBSET (1 .. n) |-> f[s]]  BY <2>1
  <2>3. ASSUME NEW s \in SUBSET (1 .. n), s \subseteq 1 .. k + 1  PROVE f[s] = After(f, s)
    <3>1. PICK rest : rest = s \ {Series!Max(s)}  OBVIOUS
    <3>2. rest \in SUBSET (1 .. n)  BY <3>1
    <3>3. s # {} => rest \subseteq 1 .. k
      <4>1. SUFFICES ASSUME s # {}, NEW x \in rest PROVE x \in 1 .. k  OBVIOUS
      <4>2. Series!Max(s) \in s /\ \A y \in s : Series!Max(s) >= y  BY <4>1, LastInIs
      <4>3. PICK last : last = Series!Max(s)  OBVIOUS
      <4>4. last \in 1 .. k + 1 /\ x \in 1 .. k + 1 /\ x # last /\ last >= x  BY <2>3, <3>1, <4>1, <4>2, <4>3
      <4> QED  BY <4>4
    <3>4. s # {} => f[rest] = old[rest]  BY <2>1, <3>2, <3>3
    <3>5. After(f, s) = After(old, s)  BY <3>1, <3>4
    <3>6. f[s] = After(old, s)
      <4>1. CASE s \subseteq 1 .. k
        <5>1. f[s] = old[s] /\ old[s] = After(old, s)
          <6> HIDE DEF After
          <6> QED  BY <1>1, <2>1, <4>1
        <5> QED  BY <5>1
      <4>2. CASE ~(s \subseteq 1 .. k)
        <5> HIDE DEF After
        <5> QED  BY <2>1, <4>2
      <4> QED  BY <4>1, <4>2
    <3> HIDE DEF After
    <3> QED  BY <3>5, <3>6
  <2>4. Built(f, k + 1)
    <3> HIDE DEF After
    <3> QED  BY <2>2, <2>3
  <2> HIDE DEF Built
  <2> QED  BY <2>4
<1>2. PICK zero : Built(zero, 0)
  <2>1. PICK zero : zero = [s \in SUBSET (1 .. n) |-> Start]  OBVIOUS
  <2>2. zero = [s \in SUBSET (1 .. n) |-> zero[s]]  BY <2>1
  <2>3. ASSUME NEW s \in SUBSET (1 .. n), s \subseteq 1 .. 0  PROVE zero[s] = After(zero, s)
    <3>1. s = {}  BY <2>3
    <3> QED  BY <2>1, <3>1
  <2>4. Built(zero, 0)
    <3> HIDE DEF After
    <3> QED  BY <2>2, <2>3
  <2> HIDE DEF Built
  <2> QED  BY <2>4
<1>3. \E f : Built(f, n)
  <2>1. CASE n = 0
    <3>1. Built(zero, n)  BY <1>2, <2>1
    <3> HIDE DEF Built
    <3> QED  BY <3>1
  <2>2. CASE n > 0
    <3>1. 1 \in G
      <4>1. \E f : Built(f, 0 + 1)
        <5> HIDE DEF Built
        <5> QED  BY <1>1, <1>2, <2>2
      <4>2. 0 + 1 = 1  OBVIOUS
      <4> HIDE DEF Built
      <4> QED  BY <2>2, <4>1, <4>2
    <3>2. ASSUME NEW k \in 1 .. n, k \in G, k < n  PROVE k + 1 \in G
      <4>1. PICK old : Built(old, k)  BY <3>2
      <4>2. k \in 0 .. n - 1 /\ k + 1 \in 1 .. n  BY <3>2
      <4> HIDE DEF Built
      <4> QED  BY <1>1, <4>1, <4>2
    <3>3. n \in G
      <4> HIDE DEF G
      <4>1. 1 .. n \subseteq G  BY <3>1, <3>2, Onwards
      <4> QED  BY <2>2, <4>1
    <3> HIDE DEF Built
    <3> QED  BY <3>3
  <2> HIDE DEF Built
  <2> QED  BY <2>1, <2>2
<1>4. PICK f : Built(f, n)  BY <1>3
<1>5. \A s \in SUBSET (1 .. n) : f[s] = After(f, s)
  <2> HIDE DEF After
  <2> QED  BY <1>4
<1>6. f = [s \in SUBSET (1 .. n) |-> After(f, s)]
  <2> HIDE DEF After
  <2> QED  BY <1>4, <1>5
<1> QED  BY <1>6 DEF Swept

(* A history is what a sweep leaves: after each instant, the merge of what  *)
(* it left before.                                                            *)
FirstOf(from) == IF from > Series!Widened THEN from - Series!Widened ELSE 0

LEMMA HistoryIsSweep ==
    ASSUME NEW from \in Nat, NEW to \in Nat, Series!Widened \in Nat, from <= to
    PROVE  \E h : /\ h[0] = Start
                  /\ \A k \in 0 .. to - FirstOf(from) - 1 : h[k + 1] = Series!Merge(h[k], from, FirstOf(from) + k)
                  /\ Series!History(from, to) = h[to - FirstOf(from)].out
<1>1. PICK first : first = FirstOf(from)  OBVIOUS
<1>2. first \in Nat /\ first <= from  BY <1>1 DEF FirstOf
<1>3. PICK n \in Nat : n = to - first  BY <1>2
<1>4. PICK instants : instants = [i \in 1 .. n |-> first + i - 1]  OBVIOUS
<1>5. DOMAIN instants = 1 .. n  BY <1>4
<1>6. Series!History(from, to) = (CHOOSE f : Swept(f, from, instants))[1 .. n].out
  <2>1. Series!History(from, to) = (CHOOSE f : Swept(f, from, instants))[DOMAIN instants].out
    BY <1>1, <1>3, <1>4 DEF Series!History, Series!FoldLeft, Series!MapThenFoldSet, Series!None, FirstOf, Swept, Start
  <2> QED  BY <1>5, <2>1
<1>7. PICK f : f = (CHOOSE g : Swept(g, from, instants))  OBVIOUS
<1>8. Swept(f, from, instants)  BY <1>5, <1>7, SweepExists
<1>9. f[{}] = Start  BY <1>5, <1>8 DEF Swept
<1>10. ASSUME NEW k \in 0 .. n - 1  PROVE f[1 .. k + 1] = Series!Merge(f[1 .. k], from, first + k)
  <2>1. Series!Max(1 .. k + 1) = k + 1 /\ (1 .. k + 1) \ {k + 1} = 1 .. k  BY LastOfPrefix
  <2>2. PICK s : s = 1 .. k + 1  OBVIOUS
  <2>3. s \in SUBSET (1 .. n) /\ s # {}  BY <2>2
  <2>4. f[s] = Series!Merge(f[s \ {Series!Max(s)}], from, instants[Series!Max(s)])  BY <1>5, <1>8, <2>3 DEF Swept
  <2>5. instants[k + 1] = first + k  BY <1>2, <1>4
  <2> QED  BY <2>1, <2>2, <2>4, <2>5
<1>11. PICK h : h = [k \in 0 .. n |-> f[1 .. k]]  OBVIOUS
<1>12. h[0] = Start
  <2>1. 1 .. 0 = {}  OBVIOUS
  <2> QED  BY <1>9, <1>11, <2>1
<1>13. ASSUME NEW k \in 0 .. n - 1  PROVE h[k + 1] = Series!Merge(h[k], from, first + k)
  <2>1. h[k + 1] = f[1 .. k + 1] /\ h[k] = f[1 .. k]  BY <1>11
  <2> QED  BY <1>10, <2>1
<1>14. Series!History(from, to) = h[n].out  BY <1>6, <1>7, <1>11
<1>15. n = to - FirstOf(from)  BY <1>1, <1>3
<1> QED  BY <1>1, <1>12, <1>13, <1>14, <1>15

-----------------------------------------------------------------------------
(* The last instant with a row: of the measurements, of the contexts.        *)
LEMMA LatestIs == Series!LatestMeasurement # Series!None => Series!LatestMeasurement \in Series!Moments
<1> DEFINE known == {t \in Series!Moments : mix[t] # "none"}
<1>1. CASE known = {}  BY <1>1 DEF Series!LatestMeasurement
<1>2. CASE known # {}
  <2>1. \E t \in known : \A u \in known : u <= t
    <3>1. MaxInstant \in Nat /\ known \in SUBSET (0 .. MaxInstant)
      BY SeriesAssumption DEF Series!Moments
    <3> HIDE DEF known
    <3> QED  BY <1>2, <3>1, LastMoment
  <2>2. (CHOOSE t \in known : \A u \in known : u <= t) \in known  BY <2>1
  <2> QED  BY <1>2, <2>2 DEF Series!LatestMeasurement
<1> QED  BY <1>1, <1>2

Bases == [at : Series!Moments, mix : Series!Mixes]

(* The tables have their shape.                                              *)
TablesOk ==
    /\ kind \in Series!Kinds
    /\ mix \in [Series!Moments -> {"none", "bare"} \cup Series!Mixes]
    /\ context \in [Series!Moments -> SUBSET Series!Parts]

(* What a value on its way has read still stands, but for what is noted.    *)
BaseStands == base # Series!NoBase => base \in Bases /\ (mix[base.at] = base.mix \/ "mix" \in overtaken)

NewestStands ==
    newest # Series!None =>
        /\ kind = "consumption" /\ base # Series!NoBase /\ newest \in Series!Moments /\ context[newest] # {}
        /\ newest <= base.at /\ base.at - newest <= FlowAge
        /\ \/ "context" \in overtaken
           \/ \A u \in Series!Moments : context[u] # {} /\ u <= base.at => u <= newest

SeriesInv == TablesOk /\ BaseStands /\ NewestStands

(* The range of a history is widened by all that a context may be old.      *)
LEMMA SeriesSizes ==
    ASSUME TablesOk
    PROVE  /\ Series!MaxAge \in Nat /\ Series!Widened \in Nat /\ Series!MaxAge <= Series!Widened
           /\ MaxInstant \in Nat /\ Series!Moments = 0 .. MaxInstant
BY SeriesAssumption DEF TablesOk, Series!MaxAge, Series!Widened, Series!Moments, Series!Kinds

(* The point of a measurement, as the history has it.                        *)
PointOf(at, from) == Series!Point([at |-> at, mix |-> mix[at]], from)

(* The context of an instant: the last one up to it, fresh; it serves the   *)
(* measurement of the instant when that has a mix.                            *)
Feeds(at, from) ==
    /\ at \in Series!Moments /\ from \in Series!Moments /\ context[from] # {}
    /\ from <= at /\ at - from <= Series!MaxAge
    /\ \A u \in Series!Moments : context[u] # {} /\ u <= at => u <= from

Serves(at, from) == mix[at] \in Series!Mixes /\ Feeds(at, from)

(* The last context of the instants swept, if any. *)
LastContext(current, first, to) ==
    /\ \A u \in Series!Moments : context[u] # {} /\ first <= u /\ u < to => u <= current
    /\ \/ current = 0 - 1
       \/ current \in Series!Moments /\ context[current] # {} /\ first <= current /\ current < to

Places == [at : Series!Moments, mix : Series!Mixes, from : Series!Moments, parts : SUBSET Series!Parts]

(* The points of a range: one for each measurement that is served, in the   *)
(* order of time.  Which those are does not depend on the range.             *)
Cut(points_, from, to) ==
    /\ points_ \in Seq(Places)
    /\ \A n \in DOMAIN points_ :
          /\ from <= points_[n].at /\ points_[n].at < to /\ Serves(points_[n].at, points_[n].from)
          /\ points_[n] = PointOf(points_[n].at, points_[n].from)
    /\ \A at, u \in Series!Moments :
          from <= at /\ at < to /\ Serves(at, u) => \E n \in DOMAIN points_ : points_[n] = PointOf(at, u)
    /\ \A m, n \in DOMAIN points_ : m < n => points_[m].at < points_[n].at

(* One more instant swept: the sweep has no other memory than the last       *)
(* context, and the range is widened enough for it to serve.                 *)
LEMMA MergeStep ==
    ASSUME TablesOk, NEW from \in Nat, NEW at \in Series!Moments, FirstOf(from) <= at,
           NEW acc, LastContext(acc.current, FirstOf(from), at), Cut(acc.out, from, at)
    PROVE  LET next == Series!Merge(acc, from, at)
           IN  LastContext(next.current, FirstOf(from), at + 1) /\ Cut(next.out, from, at + 1)
<1>1. PICK next : next = Series!Merge(acc, from, at)  OBVIOUS
<1>2. PICK current : current = IF context[at] # {} THEN at ELSE acc.current  OBVIOUS
<1>3. PICK out, first : out = acc.out /\ first = FirstOf(from)  OBVIOUS
<1> DEFINE Added == from <= at /\ mix[at] \in Series!Mixes /\ current # 0 - 1 /\ at - current <= Series!MaxAge
<1>4. /\ next.current = current
      /\ next.out = IF Added THEN Append(out, PointOf(at, current)) ELSE out
  BY <1>1, <1>2, <1>3 DEF Series!Merge, Series!None, PointOf
<1>5. /\ Series!MaxAge \in Nat /\ Series!Widened \in Nat /\ Series!MaxAge <= Series!Widened
      /\ MaxInstant \in Nat /\ Series!Moments = 0 .. MaxInstant /\ at \in Nat
  BY SeriesSizes
<1>6. first \in Nat /\ first <= at /\ (first = from - Series!Widened \/ first = 0)
  BY <1>3, <1>5 DEF FirstOf
<1>7. LastContext(current, first, at + 1)
  <2>1. CASE context[at] # {}
    <3>1. current = at  BY <1>2, <2>1
    <3>2. \A u \in Series!Moments : context[u] # {} /\ first <= u /\ u < at + 1 => u <= current
      BY <1>5, <3>1
    <3> QED  BY <1>5, <1>6, <2>1, <3>1, <3>2 DEF LastContext
  <2>2. CASE context[at] = {}
    <3>1. LastContext(current, first, at)  BY <1>2, <1>3, <2>2
    <3>2. ASSUME NEW u \in Series!Moments, context[u] # {}, u < at + 1  PROVE u < at
      BY <1>5, <2>2, <3>2
    <3>3. ASSUME current < at, current \in Series!Moments  PROVE current < at + 1
      BY <1>5, <3>3
    <3> QED  BY <3>1, <3>2, <3>3 DEF LastContext
  <2> QED  BY <2>1, <2>2
<1>8. Cut(out, from, at)  BY <1>3
<1>9. current # 0 - 1 => current \in Series!Moments /\ context[current] # {} /\ first <= current /\ current <= at
  BY <1>5, <1>7 DEF LastContext
<1>10. ASSUME NEW u, Serves(at, u), from <= at  PROVE Added /\ u = current
  <2>1. u \in 0 .. MaxInstant /\ u <= at /\ at - u <= Series!MaxAge /\ mix[at] \in Series!Mixes /\ context[u] # {}
    BY <1>5, <1>10 DEF Serves, Feeds
  <2>2. first <= u  BY <1>5, <1>6, <1>10, <2>1
  <2>3. u <= current
    <3>1. u < at + 1  BY <1>5, <2>1
    <3> QED  BY <1>5, <1>7, <2>1, <2>2, <3>1 DEF LastContext
  <2>4. current # 0 - 1  BY <2>1, <2>3
  <2>5. current <= u  BY <1>9, <1>10, <2>4 DEF Serves, Feeds
  <2>6. u = current  BY <1>5, <1>9, <2>1, <2>3, <2>4, <2>5
  <2> QED  BY <1>10, <2>1, <2>4, <2>6
<1>11. ASSUME Added  PROVE Serves(at, current)
  <2>1. current \in Series!Moments /\ context[current] # {} /\ first <= current /\ current <= at  BY <1>9, <1>11
  <2>2. ASSUME NEW u \in Series!Moments, context[u] # {}, u <= at  PROVE u <= current
    <3>1. CASE first <= u
      <4>1. u < at + 1  BY <1>5, <2>2
      <4> QED  BY <1>7, <2>2, <3>1, <4>1 DEF LastContext
    <3>2. CASE ~(first <= u)  BY <1>5, <1>6, <2>1, <3>2
    <3> QED  BY <3>1, <3>2
  <2> QED  BY <1>11, <2>1, <2>2 DEF Serves, Feeds
<1>12. Cut(next.out, from, at + 1)
  <2>1. CASE Added
    <3>1. PICK point : point = PointOf(at, current)  OBVIOUS
    <3>2. point.at = at /\ point.from = current /\ point \in Places
      <4>1. current \in Series!Moments  BY <1>9, <2>1
      <4>2. context[current] \in SUBSET Series!Parts  BY <4>1 DEF TablesOk
      <4>3. mix[at] \in Series!Mixes  BY <2>1
      <4> QED  BY <3>1, <4>1, <4>2, <4>3 DEF PointOf, Series!Point, Places
    <3>3. PICK longer : longer = Append(out, point)  OBVIOUS
    <3>4. out \in Seq(Places)  BY <1>8 DEF Cut
    <3>5. /\ longer \in Seq(Places) /\ Len(longer) = Len(out) + 1 /\ Len(out) \in Nat
          /\ DOMAIN longer = 1 .. Len(out) + 1 /\ DOMAIN out = 1 .. Len(out)
          /\ longer[Len(out) + 1] = point /\ \A n \in DOMAIN out : longer[n] = out[n]
      BY <3>2, <3>3, <3>4
    <3>6. PICK len \in Nat : len = Len(out)  BY <3>5, Zenon
    <3>7. ASSUME NEW n \in DOMAIN longer
          PROVE  /\ from <= longer[n].at /\ longer[n].at < at + 1 /\ Serves(longer[n].at, longer[n].from)
                 /\ longer[n] = PointOf(longer[n].at, longer[n].from)
      <4>1. CASE n = len + 1
        <5>1. longer[n] = point  BY <3>5, <3>6, <4>1
        <5> QED  BY <1>5, <1>11, <2>1, <3>1, <3>2, <5>1
      <4>2. CASE n # len + 1
        <5>1. n \in DOMAIN out /\ longer[n] = out[n]  BY <3>5, <3>6, <4>2
        <5>2. out[n] \in Places  BY <3>4, <5>1
        <5>3. out[n].at \in Series!Moments  BY <5>2 DEF Places
        <5>4. out[n].at < at /\ at < at + 1  BY <1>5, <1>8, <5>1 DEF Cut
        <5>5. out[n].at < at + 1  BY <1>5, <5>3, <5>4
        <5> QED  BY <1>8, <5>1, <5>5 DEF Cut
      <4> QED  BY <4>1, <4>2
    <3>8. ASSUME NEW t \in Series!Moments, NEW u \in Series!Moments, from <= t, t < at + 1, Serves(t, u)
          PROVE  \E n \in DOMAIN longer : longer[n] = PointOf(t, u)
      <4>1. CASE t = at
        <5>1. u = current  BY <1>10, <3>8, <4>1
        <5>2. len + 1 \in DOMAIN longer /\ longer[len + 1] = point  BY <3>5, <3>6
        <5> QED  BY <3>1, <4>1, <5>1, <5>2
      <4>2. CASE t # at
        <5>1. t < at  BY <1>5, <3>8, <4>2
        <5>2. PICK n \in DOMAIN out : out[n] = PointOf(t, u)  BY <1>8, <3>8, <5>1 DEF Cut
        <5>3. n \in DOMAIN longer /\ longer[n] = out[n]  BY <3>5
        <5> QED  BY <5>2, <5>3
      <4> QED  BY <4>1, <4>2
    <3>9. ASSUME NEW m \in DOMAIN longer, NEW n \in DOMAIN longer, m < n  PROVE longer[m].at < longer[n].at
      <4>1. m \in DOMAIN out /\ longer[m] = out[m]  BY <3>5, <3>9
      <4>2. CASE n = len + 1
        <5>1. longer[n] = point  BY <3>5, <3>6, <4>2
        <5> QED  BY <1>8, <3>2, <4>1, <5>1 DEF Cut
      <4>3. CASE n # len + 1
        <5>1. n \in DOMAIN out /\ longer[n] = out[n]  BY <3>5, <3>6, <4>3
        <5> QED  BY <1>8, <3>9, <4>1, <5>1 DEF Cut
      <4> QED  BY <4>2, <4>3
    <3>10. Cut(longer, from, at + 1)  BY <3>5, <3>7, <3>8, <3>9 DEF Cut
    <3>11. next.out = longer  BY <1>4, <2>1, <3>1, <3>3
    <3> QED  BY <3>10, <3>11
  <2>2. CASE ~Added
    <3>1. next.out = out  BY <1>4, <2>2
    <3>2. ASSUME NEW n \in DOMAIN out  PROVE out[n].at < at + 1
      <4>1. out[n] \in Places  BY <1>8 DEF Cut
      <4>2. out[n].at \in Series!Moments  BY <4>1 DEF Places
      <4>3. out[n].at < at  BY <1>8 DEF Cut
      <4> QED  BY <1>5, <4>2, <4>3
    <3>3. ASSUME NEW t \in Series!Moments, NEW u \in Series!Moments, from <= t, t < at + 1, Serves(t, u)
          PROVE  t < at
      <4>1. t # at  BY <1>10, <2>2, <3>3
      <4> QED  BY <1>5, <3>3, <4>1
    <3>4. Cut(out, from, at + 1)  BY <1>8, <3>2, <3>3 DEF Cut
    <3> QED  BY <3>1, <3>4
  <2> QED  BY <2>1, <2>2
<1> QED  BY <1>1, <1>3, <1>4, <1>7, <1>12

(* A history is the points of its range, each served by the last fresh      *)
(* context whatever the range, in the order of time.                         *)
LEMMA HistoryIsCut ==
    ASSUME TablesOk, NEW from \in Nat, NEW to \in Nat, from < to, to <= MaxInstant + 1
    PROVE  Cut(Series!History(from, to), from, to)
<1>1. /\ Series!Widened \in Nat /\ MaxInstant \in Nat /\ Series!Moments = 0 .. MaxInstant  BY SeriesSizes
<1>0. PICK first : first = FirstOf(from)  OBVIOUS
<1>2. first \in Nat /\ first <= from  BY <1>0, <1>1 DEF FirstOf
<1>3. PICK h : /\ h[0] = Start
               /\ \A k \in 0 .. to - first - 1 : h[k + 1] = Series!Merge(h[k], from, first + k)
               /\ Series!History(from, to) = h[to - first].out
  <2>1. \E h : /\ h[0] = Start
               /\ \A k \in 0 .. to - FirstOf(from) - 1 : h[k + 1] = Series!Merge(h[k], from, FirstOf(from) + k)
               /\ Series!History(from, to) = h[to - FirstOf(from)].out
    BY <1>1, HistoryIsSweep
  <2> QED  BY <1>0, <2>1
<1> DEFINE Holds(k) == LastContext(h[k].current, first, first + k) /\ Cut(h[k].out, from, first + k)
           n == to - first
           G == {k \in 1 .. n : Holds(k)}
<1>4. n \in Nat /\ n > 0  BY <1>2
<1>5. Holds(0)
  <2>1. h[0].current = 0 - 1 /\ h[0].out = <<>>  BY <1>3 DEF Start
  <2>2. first + 0 = first  BY <1>2
  <2>3. LastContext(0 - 1, first, first)
    <3>1. \A u \in Series!Moments : ~(first <= u /\ u < first)  BY <1>1, <1>2
    <3> QED  BY <3>1 DEF LastContext
  <2>4. Cut(<<>>, from, first)
    <3>1. \A t \in Series!Moments : ~(from <= t /\ t < first)  BY <1>1, <1>2
    <3>2. <<>> \in Seq(Places) /\ DOMAIN <<>> = {}  OBVIOUS
    <3> QED  BY <3>1, <3>2 DEF Cut
  <2> QED  BY <2>1, <2>2, <2>3, <2>4
<1>6. ASSUME NEW k \in 0 .. n - 1, Holds(k)  PROVE Holds(k + 1)
  <2>1. PICK at : at = first + k  OBVIOUS
  <2>2. at \in Series!Moments /\ first <= at /\ at + 1 = first + (k + 1)  BY <1>1, <1>2, <1>6, <2>1
  <2>3. h[k + 1] = Series!Merge(h[k], from, at)  BY <1>3, <1>6, <2>1
  <2>4. PICK acc : acc = h[k]  OBVIOUS
  <2>5. LastContext(acc.current, first, at) /\ Cut(acc.out, from, at)  BY <1>6, <2>1, <2>4
  <2>6. PICK next : next = Series!Merge(acc, from, at)  OBVIOUS
  <2>7. LastContext(next.current, first, at + 1) /\ Cut(next.out, from, at + 1)
    BY <1>0, <1>2, <2>2, <2>5, <2>6, MergeStep
  <2>8. h[k + 1] = next  BY <2>3, <2>4, <2>6
  <2> QED  BY <2>2, <2>7, <2>8
<1>7. 1 \in G
  <2>1. 0 \in 0 .. n - 1 /\ 0 + 1 = 1 /\ 1 \in 1 .. n  BY <1>4
  <2> HIDE DEF Holds, n
  <2>2. Holds(0 + 1)  BY <1>5, <1>6, <2>1
  <2> QED  BY <2>1, <2>2
<1>8. ASSUME NEW k \in 1 .. n, k \in G, k < n  PROVE k + 1 \in G
  <2>1. k \in 0 .. n - 1 /\ k + 1 \in 1 .. n  BY <1>4, <1>8
  <2> HIDE DEF Holds, n
  <2> QED  BY <1>6, <1>8, <2>1
<1>9. n \in G
  <2> HIDE DEF G, n
  <2>1. 1 .. n \subseteq G  BY <1>4, <1>7, <1>8, Onwards
  <2> QED  BY <1>4, <2>1
<1>10. Cut(h[n].out, from, first + n) /\ first + n = to  BY <1>2, <1>9
<1> QED  BY <1>3, <1>10

(* The context of a current value serves it when it is fresh, and none does *)
(* when it is not.                                                            *)
LEMMA ContextIs ==
    ASSUME TablesOk, NEW at \in Series!Moments
    PROVE  /\ Series!ContextAt(at) # Series!None =>
                /\ Series!ContextAt(at) \in Series!Moments /\ Series!ContextAt(at) <= at
                /\ kind = "consumption" => at - Series!ContextAt(at) <= FlowAge
                /\ context[Series!ContextAt(at)] # {}
                /\ \A u \in Series!Moments : context[u] # {} /\ u <= at => u <= Series!ContextAt(at)
           /\ Series!Fresh(at, Series!ContextAt(at)) => Feeds(at, Series!ContextAt(at))
           /\ \A u : Feeds(at, u) => u = Series!ContextAt(at) /\ Series!Fresh(at, u)
           /\ \A u \in Series!Moments :
                 context[u] # {} /\ u <= at /\ at - u <= Series!MaxAge => Feeds(at, Series!ContextAt(at))
<1>1. /\ Series!MaxAge \in Nat /\ MaxInstant \in Nat /\ Series!Moments = 0 .. MaxInstant  BY SeriesSizes
<1>2. PICK since : since = IF kind = "consumption" THEN at - FlowAge ELSE 0  OBVIOUS
<1> DEFINE known == {t \in Series!Moments : t <= at /\ t >= since /\ context[t] # {}}
           from == Series!ContextAt(at)
<1>3. from = IF known = {} THEN 0 - 1 ELSE CHOOSE t \in known : \A u \in known : u <= t
  BY <1>2 DEF Series!ContextAt, Series!None
<1>4. CASE known = {}
  <2>1. ~Series!Fresh(at, from)  BY <1>3, <1>4 DEF Series!Fresh, Series!None
  <2>2. ASSUME NEW u \in Series!Moments, context[u] # {}, u <= at, at - u <= Series!MaxAge  PROVE FALSE
    <3>1. u \in 0 .. MaxInstant /\ u <= at /\ at - u <= Series!MaxAge /\ context[u] # {}
      BY <1>1, <2>2
    <3>2. u >= since
      <4>1. CASE kind = "consumption"
        <5>1. Series!MaxAge = FlowAge /\ since = at - FlowAge  BY <1>2, <4>1 DEF Series!MaxAge
        <5> QED  BY <1>1, <3>1, <5>1
      <4>2. CASE kind # "consumption"  BY <1>2, <3>1, <4>2
      <4> QED  BY <4>1, <4>2
    <3> QED  BY <1>1, <1>4, <3>1, <3>2
  <2>3. \A u : ~Feeds(at, u)  BY <2>2 DEF Feeds
  <2>4. from = Series!None  BY <1>3, <1>4 DEF Series!None
  <2> QED  BY <2>1, <2>2, <2>3, <2>4
<1>5. CASE known # {}
  <2>1. known \in SUBSET (0 .. MaxInstant)  BY <1>1
  <2>2. \E t \in known : \A u \in known : u <= t
    <3> HIDE DEF known
    <3> QED  BY <1>1, <1>5, <2>1, LastMoment
  <2>3. from \in known /\ \A u \in known : u <= from
    <3> HIDE DEF known, from
    <3> QED  BY <1>3, <1>5, <2>2
  <2>4. PICK c : c = from  OBVIOUS
  <2>5. c \in 0 .. MaxInstant /\ c <= at /\ c >= since /\ context[c] # {}  BY <1>1, <2>3, <2>4
  <2>6. ASSUME NEW u \in Series!Moments, context[u] # {}, u <= at  PROVE u <= c
    <3>1. CASE u >= since  BY <2>3, <2>4, <2>6, <3>1
    <3>2. CASE ~(u >= since)
      <4>1. since \in Int
        <5>1. FlowAge \in Int  BY SeriesAssumption
        <5> QED  BY <1>1, <1>2, <5>1
      <4> HIDE DEF known, from
      <4> QED  BY <1>1, <2>5, <2>6, <3>2, <4>1
    <3> QED  BY <3>1, <3>2
  <2>7. Series!Fresh(at, c) => Feeds(at, c)
    BY <1>1, <2>5, <2>6 DEF Series!Fresh, Series!None, Feeds
  <2>8. ASSUME NEW u, Feeds(at, u)  PROVE u = c /\ Series!Fresh(at, u)
    <3>1. u \in 0 .. MaxInstant /\ u <= at /\ at - u <= Series!MaxAge /\ context[u] # {}
      BY <1>1, <2>8 DEF Feeds
    <3>2. u <= c  BY <1>1, <2>6, <3>1
    <3>3. c <= u  BY <1>1, <2>5, <2>8 DEF Feeds
    <3>4. u = c
      <4> HIDE DEF known, from
      <4> QED  BY <1>1, <2>5, <3>1, <3>2, <3>3
    <3>5. u # 0 - 1  BY <1>1, <3>1
    <3> QED  BY <3>1, <3>4, <3>5 DEF Series!Fresh, Series!None
  <2>9. ASSUME NEW u \in Series!Moments, context[u] # {}, u <= at, at - u <= Series!MaxAge  PROVE Feeds(at, c)
    <3>1. u <= c  BY <2>6, <2>9
    <3>2. u \in 0 .. MaxInstant /\ at \in 0 .. MaxInstant  BY <1>1
    <3>3. at - c <= Series!MaxAge
      <4> HIDE DEF known, from
      <4> QED  BY <1>1, <2>5, <2>9, <3>1, <3>2
    <3> QED  BY <1>1, <2>5, <2>6, <3>3 DEF Feeds
  <2>10. kind = "consumption" => at - c <= FlowAge
    <3>1. SUFFICES ASSUME kind = "consumption" PROVE at - c <= FlowAge  OBVIOUS
    <3>2. since = at - FlowAge /\ FlowAge \in Int  BY <1>2, <3>1, SeriesAssumption
    <3> HIDE DEF known, from
    <3> QED  BY <1>1, <2>5, <3>2
  <2>11. c \in Series!Moments /\ c <= at /\ context[c] # {}  BY <1>1, <2>5
  <2> HIDE DEF known
  <2> QED  BY <2>4, <2>6, <2>7, <2>8, <2>9, <2>10, <2>11
<1> QED  BY <1>4, <1>5

(* Each table keeps its shape, and what a value on its way has read stands  *)
(* unless it is noted as overtaken: the reads of get_consumption.rs,         *)
(* get_price.rs and flows_at among the writes of the tables.                 *)
LEMMA SeriesInvariant == Series!Spec => []SeriesInv
<1>1. Series!Init => SeriesInv
  BY DEF Series!Init, SeriesInv, TablesOk, BaseStands, NewestStands
<1>2. SeriesInv /\ [Series!Next]_(Series!vars) => SeriesInv'
  <2> SUFFICES ASSUME SeriesInv, [Series!Next]_(Series!vars) PROVE SeriesInv'  OBVIOUS
  <2>0. TablesOk /\ BaseStands /\ NewestStands  BY DEF SeriesInv
  <2>1. ASSUME NEW t \in Series!Moments, Series!UpsertMeasurement(t)  PROVE SeriesInv'
    <3>1. PICK m \in {"bare"} \cup Series!Mixes : mix' = [mix EXCEPT ![t] = m]
      BY <2>1 DEF Series!UpsertMeasurement
    <3>2. /\ UNCHANGED <<kind, context, base, newest>> /\ Series!Parts' = Series!Parts
          /\ overtaken' = IF t = base.at THEN overtaken \cup {"mix"} ELSE overtaken
      BY <2>1 DEF Series!UpsertMeasurement, Series!Parts
    <3>3. TablesOk'  BY <2>0, <3>1, <3>2 DEF TablesOk
    <3>4. BaseStands'
      <4>1. SUFFICES ASSUME base # Series!NoBase
                     PROVE  base \in Bases /\ (mix'[base.at] = base.mix \/ "mix" \in overtaken')
        BY <3>2 DEF BaseStands
      <4>2. base \in Bases /\ (mix[base.at] = base.mix \/ "mix" \in overtaken)  BY <2>0, <4>1 DEF BaseStands
      <4>3. base.at \in Series!Moments  BY <4>2 DEF Bases
      <4>4. CASE t = base.at  BY <3>2, <4>2, <4>4
      <4>5. CASE t # base.at
        <5>1. mix'[base.at] = mix[base.at]  BY <2>0, <3>1, <4>3, <4>5 DEF TablesOk
        <5> QED  BY <3>2, <4>2, <5>1
      <4> QED  BY <4>4, <4>5
    <3>5. NewestStands'
      <4>1. "context" \in overtaken => "context" \in overtaken'  BY <3>2
      <4> QED  BY <2>0, <3>2, <4>1 DEF NewestStands
    <3> QED  BY <3>3, <3>4, <3>5 DEF SeriesInv
  <2>2. ASSUME NEW t \in Series!Moments, Series!UpsertContext(t)  PROVE SeriesInv'
    <3>1. PICK more \in SUBSET Series!Parts : more \ context[t] # {} /\ context' = [context EXCEPT ![t] = @ \cup more]
      BY <2>2 DEF Series!UpsertContext
    <3>2. /\ UNCHANGED <<kind, mix, base, newest>> /\ Series!Parts' = Series!Parts
          /\ overtaken' = IF newest # Series!None /\ newest < t /\ t <= base.at
                          THEN overtaken \cup {"context"} ELSE overtaken
      BY <2>2 DEF Series!UpsertContext, Series!Parts
    <3>3. PICK all : all = context[t] \cup more  OBVIOUS
    <3>4. all \in SUBSET Series!Parts /\ all # {}  BY <2>0, <3>1, <3>3 DEF TablesOk
    <3>5. context' = [context EXCEPT ![t] = all]  BY <3>1, <3>3
    <3>6. TablesOk'  BY <2>0, <3>2, <3>4, <3>5 DEF TablesOk
    <3>7. BaseStands'
      <4>1. "mix" \in overtaken => "mix" \in overtaken'  BY <3>2
      <4> QED  BY <2>0, <3>2, <4>1 DEF BaseStands
    <3>8. NewestStands'
      <4>1. SUFFICES ASSUME newest # Series!None
                     PROVE  /\ kind = "consumption" /\ base # Series!NoBase /\ newest \in Series!Moments
                            /\ context'[newest] # {} /\ newest <= base.at /\ base.at - newest <= FlowAge
                            /\ \/ "context" \in overtaken'
                               \/ \A u \in Series!Moments : context'[u] # {} /\ u <= base.at => u <= newest
        BY <3>2 DEF NewestStands
      <4>2. /\ kind = "consumption" /\ base # Series!NoBase /\ newest \in Series!Moments
            /\ context[newest] # {} /\ newest <= base.at /\ base.at - newest <= FlowAge
            /\ \/ "context" \in overtaken
               \/ \A u \in Series!Moments : context[u] # {} /\ u <= base.at => u <= newest
        BY <2>0, <4>1 DEF NewestStands
      <4>3. \A u \in Series!Moments : context'[u] = IF u = t THEN all ELSE context[u]  BY <2>0, <3>5 DEF TablesOk
      <4>4. context'[newest] # {}  BY <3>4, <4>2, <4>3
      <4>5. CASE newest < t /\ t <= base.at
        <5>1. "context" \in overtaken'  BY <3>2, <4>1, <4>5
        <5> QED  BY <4>2, <4>4, <5>1
      <4>6. CASE ~(newest < t /\ t <= base.at)
        <5>1. overtaken' = overtaken  BY <3>2, <4>6
        <5>2. t <= base.at => t <= newest
          <6>1. newest \in Int /\ t \in Int  BY <4>2, SeriesAssumption DEF Series!Moments
          <6> QED  BY <4>6, <6>1
        <5> QED  BY <4>2, <4>3, <4>4, <5>1, <5>2
      <4> QED  BY <4>5, <4>6
    <3> QED  BY <3>6, <3>7, <3>8 DEF SeriesInv
  <2>3. CASE Series!ReadBase
    <3>1. PICK at : at = Series!LatestMeasurement  OBVIOUS
    <3>2. /\ base = Series!NoBase /\ at # Series!None /\ mix[at] \in Series!Mixes
          /\ base' = [at |-> at, mix |-> mix[at]] /\ UNCHANGED <<kind, mix, context, newest, overtaken>>
      BY <2>3, <3>1 DEF Series!ReadBase
    <3>3. at \in Series!Moments  BY <3>1, <3>2, LatestIs
    <3>4. newest = Series!None  BY <2>0, <3>2 DEF NewestStands
    <3>5. TablesOk'  BY <2>0, <3>2 DEF TablesOk, Series!Parts
    <3>6. base'.at = at /\ base'.mix = mix[at] /\ base' \in Bases  BY <3>2, <3>3 DEF Bases
    <3>7. BaseStands'  BY <3>2, <3>6 DEF BaseStands
    <3>8. NewestStands'  BY <3>2, <3>4 DEF NewestStands
    <3> QED  BY <3>5, <3>7, <3>8 DEF SeriesInv
  <2>4. ASSUME NEW from, Series!Serve(from)  PROVE SeriesInv'
    <3>1. base' = Series!NoBase /\ newest' = Series!None /\ UNCHANGED <<kind, mix, context>>
      BY <2>4 DEF Series!Serve
    <3>2. TablesOk'  BY <2>0, <3>1 DEF TablesOk, Series!Parts
    <3> QED  BY <3>1, <3>2 DEF SeriesInv, BaseStands, NewestStands
  <2>5. CASE Series!ReadNewest
    <3>1. CASE Series!ContextAt(base.at) = Series!None
      BY <2>4, <2>5, <3>1 DEF Series!ReadNewest
    <3>2. CASE Series!ContextAt(base.at) # Series!None
      <4>1. PICK from : from = Series!ContextAt(base.at)  OBVIOUS
      <4>2. /\ kind = "consumption" /\ base # Series!NoBase /\ newest' = from
            /\ UNCHANGED <<kind, mix, context, base, served, overtaken>>
        BY <2>5, <3>2, <4>1 DEF Series!ReadNewest
      <4>3. PICK at \in Series!Moments : at = base.at  BY <2>0, <4>2 DEF BaseStands, Bases
      <4>4. /\ from \in Series!Moments /\ from <= at /\ at - from <= FlowAge /\ context[from] # {}
            /\ \A u \in Series!Moments : context[u] # {} /\ u <= at => u <= from
        BY <2>0, <3>2, <4>1, <4>2, <4>3, ContextIs
      <4>5. TablesOk'  BY <2>0, <4>2 DEF TablesOk, Series!Parts
      <4>6. BaseStands'  BY <2>0, <4>2 DEF BaseStands
      <4>7. NewestStands'  BY <4>2, <4>3, <4>4 DEF NewestStands
      <4> QED  BY <4>5, <4>6, <4>7 DEF SeriesInv
    <3> QED  BY <3>1, <3>2
  <2>6. CASE Series!ReadPrice  BY <2>4, <2>6 DEF Series!ReadPrice
  <2>7. CASE Series!ReadRows  BY <2>4, <2>7 DEF Series!ReadRows
  <2>8. CASE UNCHANGED Series!vars
    <3>1. UNCHANGED <<kind, mix, context, base, newest, overtaken>>  BY <2>8 DEF Series!vars
    <3> QED  BY <2>0, <3>1 DEF SeriesInv, TablesOk, BaseStands, NewestStands, Series!Parts
  <2> QED  BY <2>1, <2>2, <2>3, <2>5, <2>6, <2>7, <2>8 DEF Series!Next
<1> QED  BY <1>1, <1>2, PTL DEF Series!Spec

(* The points a history has at an instant: the one of its context, if any.  *)
LEMMA HistoryAt ==
    ASSUME TablesOk, NEW at \in Series!Moments
    PROVE  Series!PointsAt(Series!History(0, MaxInstant + 1), at) =
              {PointOf(at, u) : u \in {v \in Series!Moments : Serves(at, v)}}
<1>1. /\ MaxInstant \in Nat /\ Series!Moments = 0 .. MaxInstant  BY SeriesSizes
<1>2. PICK all : all = Series!History(0, MaxInstant + 1)  OBVIOUS
<1>3. Cut(all, 0, MaxInstant + 1)
  <2>1. 0 \in Nat /\ MaxInstant + 1 \in Nat /\ 0 < MaxInstant + 1 /\ MaxInstant + 1 <= MaxInstant + 1  BY <1>1
  <2> QED  BY <1>2, <2>1, HistoryIsCut
<1>4. ASSUME NEW p \in Series!PointsAt(all, at)
      PROVE  \E u \in Series!Moments : Serves(at, u) /\ p = PointOf(at, u)
  <2>1. PICK n \in DOMAIN all : p = all[n] /\ p.at = at  BY DEF Series!PointsAt, Series!ToSet
  <2>2. Serves(at, p.from) /\ p = PointOf(at, p.from)  BY <1>3, <2>1 DEF Cut
  <2>3. p.from \in Series!Moments  BY <2>2 DEF Serves, Feeds
  <2> QED  BY <2>2, <2>3
<1>5. ASSUME NEW u \in Series!Moments, Serves(at, u)  PROVE PointOf(at, u) \in Series!PointsAt(all, at)
  <2>1. 0 <= at /\ at < MaxInstant + 1  BY <1>1
  <2>2. PICK n \in DOMAIN all : all[n] = PointOf(at, u)  BY <1>3, <1>5, <2>1 DEF Cut
  <2>3. PointOf(at, u).at = at  BY DEF PointOf, Series!Point
  <2> QED  BY <2>2, <2>3 DEF Series!PointsAt, Series!ToSet
<1> QED  BY <1>2, <1>4, <1>5

(* What NowMatchesHistory says of a step that serves. *)
Agrees ==
    LET points_ == Series!PointsAt(Series!History(0, MaxInstant + 1), base.at)
    IN  IF served' = Series!Nothing THEN points_ = {}
        ELSE /\ points_ = {} => "mix" \in overtaken
             /\ \A p \in points_ :
                  /\ p.mix = served'.mix \/ "mix" \in overtaken
                  /\ \/ [p EXCEPT !.mix = served'.mix] = served'
                     \/ "context" \in overtaken /\ p.from > served'.from

(* The point of a context that feeds the instant: that of the history, or   *)
(* older than it when newer flows were stored since.                         *)
LEMMA PointAgrees ==
    ASSUME SeriesInv, base # Series!NoBase, NEW from \in Series!Moments, NEW last \in Series!Moments,
           Feeds(base.at, last), from = last \/ ("context" \in overtaken /\ last > from),
           \A u : Feeds(base.at, u) => u = last,
           served' = Series!Point(base, from)
    PROVE  Agrees
<1>0. TablesOk /\ BaseStands  BY DEF SeriesInv
<1>1. PICK at \in Series!Moments : at = base.at  BY <1>0 DEF BaseStands, Bases
<1>2. base = [at |-> at, mix |-> base.mix] /\ (mix[at] = base.mix \/ "mix" \in overtaken) /\ base.mix \in Series!Mixes
  BY <1>0, <1>1 DEF BaseStands, Bases
<1>3. PICK points_ : points_ = Series!PointsAt(Series!History(0, MaxInstant + 1), at)  OBVIOUS
<1>4. points_ = {PointOf(at, u) : u \in {v \in Series!Moments : Serves(at, v)}}  BY <1>0, <1>3, HistoryAt
<1>5. served' = [at |-> at, mix |-> base.mix, from |-> from, parts |-> context[from]]
  BY <1>1 DEF Series!Point
<1>6. served' # Series!Nothing
  <2>1. at # Series!None
    <3>1. at \in Nat  BY <1>0, SeriesSizes
    <3> QED  BY <3>1 DEF Series!None
  <2>2. served'.at = at /\ Series!Nothing.at = Series!None  BY <1>5 DEF Series!Nothing
  <2> QED  BY <2>1, <2>2
<1>7. points_ = {} => "mix" \in overtaken
  <2>1. mix[at] \in Series!Mixes => Serves(at, last)  BY <1>1 DEF Serves
  <2> QED  BY <1>2, <1>4, <2>1
<1>8. ASSUME NEW p \in points_
      PROVE  /\ p.mix = served'.mix \/ "mix" \in overtaken
             /\ \/ [p EXCEPT !.mix = served'.mix] = served'
                \/ "context" \in overtaken /\ p.from > served'.from
  <2>1. PICK u \in Series!Moments : Serves(at, u) /\ p = PointOf(at, u)  BY <1>4
  <2>2. u = last  BY <1>1, <2>1 DEF Serves
  <2>3. p = [at |-> at, mix |-> mix[at], from |-> last, parts |-> context[last]]
    BY <2>1, <2>2 DEF PointOf, Series!Point
  <2>4. p.mix = mix[at] /\ p.from = last /\ served'.mix = base.mix /\ served'.from = from  BY <1>5, <2>3
  <2>5. [p EXCEPT !.mix = served'.mix] = [at |-> at, mix |-> base.mix, from |-> last, parts |-> context[last]]
    BY <2>3, <2>4
  <2>6. CASE from = last  BY <1>2, <1>5, <2>4, <2>5, <2>6
  <2>7. CASE "context" \in overtaken /\ last > from  BY <1>2, <2>4, <2>7
  <2> QED  BY <2>6, <2>7
<1> QED  BY <1>1, <1>3, <1>6, <1>7, <1>8 DEF Agrees

(* Served from the last context that there is. *)
LEMMA ServesLast ==
    ASSUME SeriesInv, base # Series!NoBase, NEW from, from = Series!ContextAt(base.at), Series!Serve(from)
    PROVE  Agrees
<1>0. TablesOk /\ BaseStands  BY DEF SeriesInv
<1>1. PICK at \in Series!Moments : at = base.at  BY <1>0 DEF BaseStands, Bases
<1>2. served' = IF Series!Fresh(at, from) THEN Series!Point(base, from) ELSE Series!Nothing
  BY <1>1 DEF Series!Serve
<1>3. /\ Series!Fresh(at, from) => Feeds(at, from)
      /\ \A u : Feeds(at, u) => u = from /\ Series!Fresh(at, u)
  BY <1>0, <1>1, ContextIs
<1>4. CASE Series!Fresh(at, from)
  <2>1. Feeds(at, from) /\ from \in Series!Moments  BY <1>3, <1>4 DEF Feeds
  <2>2. served' = Series!Point(base, from)  BY <1>2, <1>4
  <2> QED  BY <1>1, <1>3, <2>1, <2>2, PointAgrees
<1>5. CASE ~Series!Fresh(at, from)
  <2>1. \A u \in Series!Moments : ~Serves(at, u)  BY <1>3, <1>5 DEF Serves
  <2>2. PICK points_ : points_ = Series!PointsAt(Series!History(0, MaxInstant + 1), at)  OBVIOUS
  <2>3. points_ = {PointOf(at, u) : u \in {v \in Series!Moments : Serves(at, v)}}  BY <1>0, <2>2, HistoryAt
  <2>4. points_ = {}  BY <2>1, <2>3
  <2>5. served' = Series!Nothing  BY <1>2, <1>5
  <2> QED  BY <1>1, <2>2, <2>4, <2>5 DEF Agrees
<1> QED  BY <1>4, <1>5

(* Served from the flows found by the first query of flows_at. *)
LEMMA ServesNewest ==
    ASSUME SeriesInv, Series!ReadRows
    PROVE  Agrees
<1>0. TablesOk /\ BaseStands /\ NewestStands  BY DEF SeriesInv
<1>1. newest # Series!None /\ Series!Serve(newest)  BY DEF Series!ReadRows
<1>2. /\ kind = "consumption" /\ base # Series!NoBase /\ newest \in Series!Moments /\ context[newest] # {}
      /\ newest <= base.at /\ base.at - newest <= FlowAge
      /\ \/ "context" \in overtaken
         \/ \A u \in Series!Moments : context[u] # {} /\ u <= base.at => u <= newest
  BY <1>0, <1>1 DEF NewestStands
<1>3. PICK at \in Series!Moments : at = base.at  BY <1>0, <1>2 DEF BaseStands, Bases
<1>4. Series!MaxAge = FlowAge  BY <1>2 DEF Series!MaxAge
<1>5. Series!Fresh(at, newest)  BY <1>1, <1>2, <1>3, <1>4 DEF Series!Fresh
<1>6. served' = Series!Point(base, newest)
  BY <1>1, <1>3, <1>5 DEF Series!Serve
<1>7. PICK last : last = Series!ContextAt(at)  OBVIOUS
<1>8. Feeds(at, last) /\ \A u : Feeds(at, u) => u = last
  BY <1>0, <1>2, <1>3, <1>4, <1>7, ContextIs
<1>9. last \in Series!Moments /\ newest <= last /\ context[last] # {} /\ last <= at
  BY <1>2, <1>3, <1>8 DEF Feeds
<1>10. newest = last \/ ("context" \in overtaken /\ last > newest)
  <2>1. newest \in Int /\ last \in Int  BY <1>0, <1>2, <1>9, SeriesSizes
  <2>2. CASE "context" \in overtaken  BY <1>9, <2>1, <2>2
  <2>3. CASE "context" \notin overtaken
    <3>1. last <= newest  BY <1>2, <1>3, <1>9, <2>3
    <3> QED  BY <1>9, <2>1, <3>1
  <2> QED  BY <2>2, <2>3
<1> QED  BY <1>2, <1>3, <1>6, <1>8, <1>9, <1>10, PointAgrees

(* A current value is the point that the history has at its instant, and is *)
(* not found where the history has none, unless its measurement was revised *)
(* after it was read, or newer flows were stored between the two queries of *)
(* flows_at: it is then of the older ones.  get_consumption.rs, get_price.rs *)
(* and flows_at against the merges of factors.rs and price.rs.               *)
THEOREM NowIsHistory == Series!Spec => NowMatchesHistory
<1>1. ASSUME SeriesInv, [Series!Next]_(Series!vars), base # Series!NoBase, base' = Series!NoBase
      PROVE  Agrees
  <2>1. Series!ReadPrice \/ Series!ReadNewest \/ Series!ReadRows
    BY <1>1 DEF Series!Next, Series!UpsertMeasurement, Series!UpsertContext, Series!ReadBase, Series!vars
  <2>2. CASE Series!ReadPrice  BY <1>1, <2>2, ServesLast DEF Series!ReadPrice
  <2>3. CASE Series!ReadNewest
    <3>1. Series!ContextAt(base.at) = Series!None  BY <1>1, <2>3 DEF Series!ReadNewest
    <3>2. Series!Serve(Series!ContextAt(base.at))  BY <2>3, <3>1 DEF Series!ReadNewest
    <3> QED  BY <1>1, <3>2, ServesLast
  <2>4. CASE Series!ReadRows  BY <1>1, <2>4, ServesNewest
  <2> QED  BY <2>1, <2>2, <2>3, <2>4
<1>2. SeriesInv /\ [Series!Next]_(Series!vars) =>
        [base # Series!NoBase /\ base' = Series!NoBase => Agrees]_(Series!vars)
  BY <1>1
<1> QED  BY <1>2, SeriesInvariant, PTL DEF Series!Spec, NowMatchesHistory, Series!NowMatchesHistory, Agrees

-----------------------------------------------------------------------------
(* The positions of some of the groups in which start parts positions.      *)
In(start, n, T) == {i \in 1 .. n : start[i] \in T}

(* The sizes and the totals of the groups of positions that start alike.    *)
Grouped(starts, counts, sums, start, n, sum) ==
    /\ starts = {start[i] : i \in 1 .. n}
    /\ \A x \in starts : counts[x] = Cardinality(In(start, n, {x})) /\ sums[x] = sum[In(start, n, {x})]

(* They add up to those of all. *)
LEMMA GroupsAddUp ==
    ASSUME NEW n \in Nat, NEW start, NEW v, NEW sum, IsSum(sum, n, v),
           NEW starts, NEW counts, NEW sums, Grouped(starts, counts, sums, start, n, sum)
    PROVE  /\ FoldOf(counts, starts) = Cardinality(1 .. n)
           /\ FoldOf(sums, starts) = sum[1 .. n]
<1>0. /\ starts = {start[i] : i \in 1 .. n}
      /\ \A x \in starts : counts[x] = Cardinality(In(start, n, {x})) /\ sums[x] = sum[In(start, n, {x})]
  BY DEF Grouped
<1>1. IsFiniteSet(starts)
  <2>1. IsFiniteSet(1 .. n)  BY FiniteParts
  <2>2. [i \in 1 .. n |-> start[i]] \in Surjection(1 .. n, starts)  BY <1>0 DEF Surjection
  <2> QED  BY <2>1, <2>2, FS_Surjection
<1>2. \A T : In(start, n, T) \in SUBSET (1 .. n)  BY DEF In
<1>3. ASSUME NEW T, NEW x \in T
      PROVE  /\ In(start, n, T) = In(start, n, {x}) \cup In(start, n, T \ {x})
             /\ In(start, n, {x}) \cap In(start, n, T \ {x}) = {}
  BY DEF In
<1>4. In(start, n, {}) = {} /\ In(start, n, starts) = 1 .. n  BY <1>0 DEF In
<1>5. PICK counted : counted = [T \in SUBSET starts |-> Cardinality(In(start, n, T))]  OBVIOUS
<1>6. PICK summed : summed = [T \in SUBSET starts |-> sum[In(start, n, T)]]  OBVIOUS
<1>7. Accumulates(counted, starts, counts)
  <2>1. counted[{}] = 0  BY <1>4, <1>5, FS_EmptySet
  <2>2. ASSUME NEW T \in SUBSET starts, NEW x \in T  PROVE counted[T] = counts[x] + counted[T \ {x}]
    <3>1. PICK a, b, c : a = In(start, n, T) /\ b = In(start, n, {x}) /\ c = In(start, n, T \ {x})  OBVIOUS
    <3>2. b \in SUBSET (1 .. n) /\ c \in SUBSET (1 .. n) /\ a = b \cup c /\ b \cap c = {}
      BY <1>2, <1>3, <3>1
    <3>3. IsFiniteSet(b) /\ IsFiniteSet(c) /\ Cardinality(b) \in Nat /\ Cardinality(c) \in Nat
      BY <3>2, FiniteParts
    <3>4. Cardinality(a) = Cardinality(b) + Cardinality(c) - Cardinality(b \cap c)
      BY <3>2, <3>3, FS_Union
    <3>5. Cardinality(b \cap c) = 0  BY <3>2, FS_EmptySet
    <3>6. Cardinality(a) = Cardinality(b) + Cardinality(c)  BY <3>3, <3>4, <3>5
    <3>7. counted[T] = Cardinality(a) /\ counted[T \ {x}] = Cardinality(c)  BY <1>5, <3>1
    <3>8. counts[x] = Cardinality(b)  BY <1>0, <3>1
    <3> QED  BY <3>6, <3>7, <3>8
  <2> QED  BY <2>1, <2>2 DEF Accumulates
<1>8. Accumulates(summed, starts, sums)
  <2>1. summed[{}] = 0  BY <1>4, <1>6 DEF IsSum
  <2>2. ASSUME NEW T \in SUBSET starts, NEW x \in T  PROVE summed[T] = sums[x] + summed[T \ {x}]
    <3>1. PICK a, b, c : a = In(start, n, T) /\ b = In(start, n, {x}) /\ c = In(start, n, T \ {x})  OBVIOUS
    <3>2. b \in SUBSET (1 .. n) /\ c \in SUBSET (1 .. n) /\ a = b \cup c /\ b \cap c = {}
      BY <1>2, <1>3, <3>1
    <3>3. sum[b \cup c] = sum[b] + sum[c]  BY <3>2, SumSplits
    <3>7. summed[T] = sum[a] /\ summed[T \ {x}] = sum[c]  BY <1>6, <3>1
    <3>8. sums[x] = sum[b]  BY <1>0, <3>1
    <3> QED  BY <3>2, <3>3, <3>7, <3>8
  <2> QED  BY <2>1, <2>2 DEF Accumulates
<1>9. counted[starts] = Cardinality(1 .. n) /\ summed[starts] = sum[1 .. n]  BY <1>4, <1>5, <1>6
<1>10. FoldOf(counts, starts) = counted[starts]  BY <1>1, <1>7, FoldAccumulates
<1>11. FoldOf(sums, starts) = summed[starts]  BY <1>1, <1>8, FoldAccumulates
<1> QED  BY <1>9, <1>10, <1>11

(* A finite set of integers has a least and a greatest member. *)
LEMMA Extremes ==
    ASSUME NEW n \in Nat, NEW v, \A i \in 1 .. n : v[i] \in Int, NEW s \in SUBSET (1 .. n), s # {}
    PROVE  /\ \E i \in s : \A j \in s : v[j] <= v[i]
           /\ \E i \in s : \A j \in s : v[i] <= v[j]
<1> DEFINE G == {u \in SUBSET (1 .. n) : u # {} => /\ \E i \in u : \A j \in u : v[j] <= v[i]
                                                  /\ \E i \in u : \A j \in u : v[i] <= v[j]}
<1>1. {} \in G  OBVIOUS
<1>2. ASSUME NEW u \in SUBSET (1 .. n), u # {}, \A x \in u : u \ {x} \in G  PROVE u \in G
  <2>1. PICK x \in u : TRUE  BY <1>2
  <2>2. x \in 1 .. n /\ v[x] \in Int  BY <1>2
  <2>3. CASE u \ {x} = {}
    <3>1. \A j \in u : j = x  BY <2>3
    <3>2. \A j \in u : v[j] <= v[x] /\ v[x] <= v[j]  BY <2>2, <3>1
    <3> QED  BY <3>2
  <2>4. CASE u \ {x} # {}
    <3>1. PICK i \in u \ {x} : \A j \in u \ {x} : v[j] <= v[i]  BY <1>2, <2>4
    <3>2. PICK k \in u \ {x} : \A j \in u \ {x} : v[k] <= v[j]  BY <1>2, <2>4
    <3>3. v[i] \in Int /\ v[k] \in Int /\ \A j \in u : v[j] \in Int  BY <1>2
    <3>4. \E l \in u : \A j \in u : v[j] <= v[l]
      <4>1. CASE v[x] <= v[i]
        <5>1. \A j \in u : v[j] <= v[i]  BY <3>1, <4>1
        <5> QED  BY <5>1
      <4>2. CASE ~(v[x] <= v[i])
        <5>1. \A j \in u : v[j] <= v[x]  BY <2>2, <3>1, <3>3, <4>2
        <5> QED  BY <5>1
      <4> QED  BY <4>1, <4>2
    <3>5. \E l \in u : \A j \in u : v[l] <= v[j]
      <4>1. CASE v[k] <= v[x]
        <5>1. \A j \in u : v[k] <= v[j]  BY <3>2, <4>1
        <5> QED  BY <5>1
      <4>2. CASE ~(v[k] <= v[x])
        <5>1. \A j \in u : v[x] <= v[j]  BY <2>2, <3>2, <3>3, <4>2
        <5> QED  BY <5>1
      <4> QED  BY <4>1, <4>2
    <3> QED  BY <3>4, <3>5
  <2> QED  BY <2>3, <2>4
<1>3. s \in G
  <2> HIDE DEF G
  <2> QED  BY <1>1, <1>2, BySubsets
<1> QED  BY <1>3

(* The start of a bucket: a multiple of its size, at most the size before. *)
LEMMA StartIs ==
    ASSUME NEW at \in Nat, Bucket \in Nat \ {0}
    PROVE  /\ Series!StartOf(at) \in Nat /\ Series!StartOf(at) % Bucket = 0
           /\ Series!StartOf(at) <= at /\ at + 1 <= Series!StartOf(at) + Bucket
<1>1. PICK r : r = at % Bucket  OBVIOUS
<1>2. PICK q : q = at \div Bucket  OBVIOUS
<1>3. r \in Nat /\ r < Bucket /\ q \in Int /\ at = Bucket * q + r  BY <1>1, <1>2
<1>4. Series!StartOf(at) = Bucket * q  BY <1>1, <1>3 DEF Series!StartOf
<1>5. (Bucket * q) % Bucket = 0  BY <1>3
<1>6. r <= at
  <2>1. q >= 0  BY <1>2
  <2>2. Bucket * 0 <= Bucket * q  BY <1>3, <2>1, Multiples
  <2>3. Bucket * 0 = 0 /\ Bucket * q \in Int  BY <1>3
  <2> QED  BY <1>3, <2>2, <2>3
<1>7. PICK s : s = Series!StartOf(at)  OBVIOUS
<1>8. s = at - r  BY <1>1, <1>7 DEF Series!StartOf
<1>9. s % Bucket = 0  BY <1>4, <1>5, <1>7
<1>10. s \in Nat /\ s <= at /\ at + 1 <= s + Bucket  BY <1>3, <1>6, <1>8
<1> QED  BY <1>7, <1>9, <1>10

(* The sums of the statistics are folds that add. *)
LEMMA TotalIsFold == \A fun, set : Series!Total(fun, set) = FoldOf(fun, set)
BY DEF Series!Total, Series!FoldFunctionOnSet, Series!MapThenFoldSet, FoldOf, Adds

LEMMA SeriesCardinality == \A S : Series!Cardinality(S) = Cardinality(S)
BY DEF Series!Cardinality, Cardinality

(* The statistics of some positions. *)
LEMMA StatsAre ==
    ASSUME NEW n \in Nat, NEW v, NEW sum, IsSum(sum, n, v), NEW series, NEW s \in SUBSET (1 .. n), s # {},
           \A i \in 1 .. n : Series!Value(series[i]) = v[i]
    PROVE  LET stats == Series!Stats(series, s)
           IN  /\ stats.count = Cardinality(s) /\ stats.sum = sum[s]
               /\ \E i \in s : stats.min = v[i]
               /\ \E i \in s : stats.max = v[i]
<1> DEFINE values == {Series!Value(series[i]) : i \in s}
           fun == [i \in s |-> Series!Value(series[i])]
<1>1. PICK stats : stats = Series!Stats(series, s)  OBVIOUS
<1>2. /\ stats.count = Series!Cardinality(s)
      /\ stats.sum = Series!Total(fun, s)
      /\ stats.min = CHOOSE x \in values : \A w \in values : x <= w
      /\ stats.max = CHOOSE x \in values : \A w \in values : w <= x
  BY <1>1 DEF Series!Stats
<1>3. values = {v[i] : i \in s}  OBVIOUS
<1>4. \A i \in 1 .. n : v[i] \in Int  BY DEF IsSum
<1>5. /\ \E i \in s : \A j \in s : v[j] <= v[i]
      /\ \E i \in s : \A j \in s : v[i] <= v[j]
  BY <1>4, Extremes
<1>6. Series!Total(fun, s) = sum[s]
  <2>1. IsFiniteSet(s)  BY FiniteParts
  <2>2. Accumulates(sum, s, fun)
    <3>1. sum[{}] = 0  BY DEF IsSum
    <3>2. ASSUME NEW t \in SUBSET s, NEW x \in t  PROVE sum[t] = fun[x] + sum[t \ {x}]
      <4>1. t \in SUBSET (1 .. n) /\ x \in 1 .. n /\ x \in s  OBVIOUS
      <4>2. fun[x] = v[x]  BY <4>1
      <4>3. sum[t] = v[x] + sum[t \ {x}]  BY <4>1 DEF IsSum
      <4> QED  BY <4>2, <4>3
    <3> HIDE DEF fun
    <3> QED  BY <3>1, <3>2 DEF Accumulates
  <2> HIDE DEF fun
  <2>3. FoldOf(fun, s) = sum[s]  BY <2>1, <2>2, FoldAccumulates
  <2> QED  BY <2>3, TotalIsFold
<1> HIDE DEF values, fun
<1>7. \E x \in values : \A w \in values : x <= w
  <2>1. PICK i \in s : \A j \in s : v[i] <= v[j]  BY <1>5
  <2> QED  BY <1>3, <2>1
<1>8. \E x \in values : \A w \in values : w <= x
  <2>1. PICK i \in s : \A j \in s : v[j] <= v[i]  BY <1>5
  <2> QED  BY <1>3, <2>1
<1>9. stats.min \in values /\ stats.max \in values  BY <1>2, <1>7, <1>8
<1> QED  BY <1>1, <1>2, <1>3, <1>6, <1>9, SeriesCardinality

(* The value of a point tells the instants apart: it is between the scaled  *)
(* starts of its bucket and of the next.                                      *)
LEMMA ValueIn ==
    ASSUME TablesOk, NEW point, point.at \in Series!Moments, point.from \in Series!Moments
    PROVE  /\ Series!Value(point) \in Int
           /\ Series!Scale * Series!StartOf(point.at) <= Series!Value(point)
           /\ Series!Value(point) < Series!Scale * (Series!StartOf(point.at) + Bucket)
<1>1. MaxInstant \in Nat /\ Series!Moments = 0 .. MaxInstant  BY SeriesSizes
<1>2. Bucket \in Nat \ {0}  BY SeriesAssumption
<1>3. PICK at, from, scale, s : at = point.at /\ from = point.from /\ scale = Series!Scale /\ s = Series!StartOf(at)
  OBVIOUS
<1>4. at \in Nat /\ from \in Nat /\ scale \in Nat \ {0} /\ from < scale  BY <1>1, <1>3 DEF Series!Scale
<1>5. s \in Nat /\ s <= at /\ at + 1 <= s + Bucket  BY <1>2, <1>3, <1>4, StartIs
<1>6. scale * s <= scale * at /\ scale * (at + 1) <= scale * (s + Bucket)
  <2>1. \A i, j \in Int : i <= j => scale * i <= scale * j  BY <1>4, Multiples
  <2>2. PICK i, j : i = at + 1 /\ j = s + Bucket  OBVIOUS
  <2>3. i \in Int /\ j \in Int /\ s \in Int /\ at \in Int /\ i <= j /\ s <= at  BY <1>2, <1>4, <1>5, <2>2
  <2>4. scale * s <= scale * at /\ scale * i <= scale * j  BY <2>1, <2>3
  <2> QED  BY <2>2, <2>4
<1>7. scale * (at + 1) = scale * at + scale  BY <1>4
<1>8. Series!Value(point) = scale * at + from  BY <1>3 DEF Series!Value
<1>9. scale * at \in Int /\ scale * s \in Int /\ scale * (s + Bucket) \in Int  BY <1>2, <1>4, <1>5
<1> QED  BY <1>3, <1>4, <1>6, <1>7, <1>8, <1>9

(* The buckets of a series are those of its points. *)
BucketsOf(series) ==
    LET buckets == Series!Buckets(series)
        starts == DOMAIN buckets
    IN  /\ series # <<>> =>
             /\ Series!Total([s \in starts |-> buckets[s].count], starts) = Series!Summary(series).count
             /\ Series!Total([s \in starts |-> buckets[s].sum], starts) = Series!Summary(series).sum
        /\ \A s \in starts :
             /\ s % Bucket = 0
             /\ Series!Scale * s <= buckets[s].min /\ buckets[s].max < Series!Scale * (s + Bucket)

LEMMA BucketsAddUp ==
    ASSUME TablesOk, NEW series \in Seq(Places)
    PROVE  BucketsOf(series)
<1>1. PICK n \in Nat : DOMAIN series = 1 .. n /\ n = Len(series)  OBVIOUS
<1>2. \A i \in 1 .. n : series[i].at \in Series!Moments /\ series[i].from \in Series!Moments
  <2>1. ASSUME NEW i \in 1 .. n  PROVE series[i] \in Places  BY <1>1
  <2> QED  BY <2>1 DEF Places
<1>3. PICK v : v = [i \in 1 .. n |-> Series!Value(series[i])]  OBVIOUS
<1>4. v \in [1 .. n -> Int] /\ \A i \in 1 .. n : Series!Value(series[i]) = v[i]
  BY <1>2, <1>3, ValueIn
<1>5. PICK sum : IsSum(sum, n, v)  BY <1>4, SumExists
<1>6. PICK start : start = [i \in 1 .. n |-> Series!StartOf(series[i].at)]  OBVIOUS
<1>7. PICK starts : starts = {start[i] : i \in 1 .. n}  OBVIOUS
<1>8. PICK buckets : buckets = Series!Buckets(series)  OBVIOUS
<1>9. buckets = [s \in starts |-> Series!Stats(series, In(start, n, {s}))]
  <2>1. {Series!StartOf(series[i].at) : i \in DOMAIN series} = starts  BY <1>1, <1>6, <1>7
  <2>2. \A s : {i \in DOMAIN series : Series!StartOf(series[i].at) = s} = In(start, n, {s})
    BY <1>1, <1>6 DEF In
  <2> QED  BY <1>8, <2>1, <2>2 DEF Series!Buckets
<1>10. ASSUME NEW s \in starts
       PROVE  /\ buckets[s].count = Cardinality(In(start, n, {s})) /\ buckets[s].sum = sum[In(start, n, {s})]
              /\ \E i \in 1 .. n : start[i] = s /\ buckets[s].min = v[i]
              /\ \E i \in 1 .. n : start[i] = s /\ buckets[s].max = v[i]
  <2>1. PICK part : part = In(start, n, {s})  OBVIOUS
  <2>2. part \in SUBSET (1 .. n) /\ part # {} /\ \A i \in part : start[i] = s  BY <1>7, <2>1 DEF In
  <2>3. PICK stats : stats = Series!Stats(series, part)  OBVIOUS
  <2>4. /\ stats.count = Cardinality(part) /\ stats.sum = sum[part]
        /\ \E i \in part : stats.min = v[i]
        /\ \E i \in part : stats.max = v[i]
    BY <1>4, <1>5, <2>2, <2>3, StatsAre
  <2>5. buckets[s] = stats  BY <1>9, <2>1, <2>3
  <2> QED  BY <2>1, <2>2, <2>4, <2>5
<1>11. DOMAIN buckets = starts  BY <1>9
<1>12. PICK counts, sums : counts = [s \in starts |-> buckets[s].count] /\ sums = [s \in starts |-> buckets[s].sum]
  OBVIOUS
<1>13. FoldOf(counts, starts) = Cardinality(1 .. n) /\ FoldOf(sums, starts) = sum[1 .. n]
  <2>1. \A s \in starts : counts[s] = Cardinality(In(start, n, {s}))  BY <1>10, <1>12
  <2>2. \A s \in starts : sums[s] = sum[In(start, n, {s})]  BY <1>10, <1>12
  <2>3. Grouped(starts, counts, sums, start, n, sum)  BY <1>7, <2>1, <2>2 DEF Grouped
  <2> QED  BY <1>5, <2>3, GroupsAddUp
<1>14. series # <<>> =>
          Series!Summary(series).count = Cardinality(1 .. n) /\ Series!Summary(series).sum = sum[1 .. n]
  <2>1. SUFFICES ASSUME series # <<>>
                 PROVE  Series!Summary(series).count = Cardinality(1 .. n) /\ Series!Summary(series).sum = sum[1 .. n]
    OBVIOUS
  <2>2. PICK part \in SUBSET (1 .. n) : part = 1 .. n  OBVIOUS
  <2>3. part # {}
    <3>1. n # 0  BY <1>1, <2>1
    <3>2. 1 \in 1 .. n  BY <3>1
    <3> QED  BY <2>2, <3>2
  <2>4. PICK stats : stats = Series!Stats(series, part)  OBVIOUS
  <2>5. stats.count = Cardinality(part) /\ stats.sum = sum[part]
    BY <1>4, <1>5, <2>3, <2>4, StatsAre
  <2>6. Series!Summary(series) = stats  BY <1>1, <2>2, <2>4 DEF Series!Summary
  <2> QED  BY <2>2, <2>5, <2>6
<1>15. ASSUME NEW s \in starts
       PROVE  /\ s % Bucket = 0
              /\ Series!Scale * s <= buckets[s].min /\ buckets[s].max < Series!Scale * (s + Bucket)
  <2>1. PICK i \in 1 .. n : start[i] = s /\ buckets[s].min = v[i]  BY <1>10
  <2>2. PICK j \in 1 .. n : start[j] = s /\ buckets[s].max = v[j]  BY <1>10
  <2>3. s = Series!StartOf(series[i].at) /\ s = Series!StartOf(series[j].at)  BY <1>6, <2>1, <2>2
  <2>4. Series!Scale * s <= v[i]
    <3>1. Series!Scale * Series!StartOf(series[i].at) <= Series!Value(series[i])  BY <1>2, ValueIn
    <3> QED  BY <1>4, <2>3, <3>1
  <2>5. v[j] < Series!Scale * (s + Bucket)
    <3>1. Series!Value(series[j]) < Series!Scale * (Series!StartOf(series[j].at) + Bucket)  BY <1>2, ValueIn
    <3> QED  BY <1>4, <2>3, <3>1
  <2>6. s % Bucket = 0
    <3>1. series[i].at \in Nat  BY <1>2, SeriesSizes
    <3>2. Bucket \in Nat \ {0}  BY SeriesAssumption
    <3> QED  BY <2>3, <3>1, <3>2, StartIs
  <2> QED  BY <2>1, <2>2, <2>4, <2>5, <2>6
<1>16. Series!Total(counts, starts) = FoldOf(counts, starts) /\ Series!Total(sums, starts) = FoldOf(sums, starts)
  BY TotalIsFold
<1> QED  BY <1>8, <1>11, <1>12, <1>13, <1>14, <1>15, <1>16 DEF BucketsOf

(* A history is that of all instants cut to its range, whatever the range,  *)
(* in the order of time; its buckets add up to its summary and hold their own*)
(* points: the merges of factors.rs and price.rs, and stats.rs.  (In the    *)
(* run, RangesAgree says it of the part that is about the series.)          *)
THEOREM RangesHold == Series!Spec => [](Series!RangesAgree /\ RangesAgree)
<1>1. ASSUME TablesOk  PROVE Series!RangesAgree
  <2>1. /\ MaxInstant \in Nat /\ Series!Moments = 0 .. MaxInstant  BY <1>1, SeriesSizes
  <2>2. PICK all : all = Series!History(0, MaxInstant + 1)  OBVIOUS
  <2>3. Cut(all, 0, MaxInstant + 1)
    <3>1. 0 \in Nat /\ MaxInstant + 1 \in Nat /\ 0 < MaxInstant + 1 /\ MaxInstant + 1 <= MaxInstant + 1  BY <2>1
    <3> QED  BY <1>1, <2>2, <3>1, HistoryIsCut
  <2>4. BucketsOf(all)  BY <1>1, <2>3, BucketsAddUp DEF Cut
  <2>5. ASSUME NEW from \in Series!Moments, NEW to \in from + 1 .. MaxInstant + 1
        PROVE  LET points_ == Series!History(from, to)
               IN  /\ Series!ToSet(points_) = {p \in Series!ToSet(all) : from <= p.at /\ p.at < to}
                   /\ \A m, n \in DOMAIN points_ : m < n => points_[m].at < points_[n].at
    <3>1. PICK part : part = Series!History(from, to)  OBVIOUS
    <3>2. Cut(part, from, to)
      <4>1. from \in Nat /\ to \in Nat /\ from < to /\ to <= MaxInstant + 1  BY <2>1
      <4> QED  BY <1>1, <3>1, <4>1, HistoryIsCut
    <3>3. ASSUME NEW p \in Series!ToSet(part)
          PROVE  p \in Series!ToSet(all) /\ from <= p.at /\ p.at < to
      <4>1. PICK n \in DOMAIN part : p = part[n]  BY DEF Series!ToSet
      <4>2. /\ from <= p.at /\ p.at < to /\ Serves(p.at, p.from) /\ p = PointOf(p.at, p.from)
        BY <3>2, <4>1 DEF Cut
      <4>3. p.at \in Series!Moments /\ p.from \in Series!Moments  BY <4>2 DEF Serves, Feeds
      <4>4. 0 <= p.at /\ p.at < MaxInstant + 1  BY <2>1, <4>3
      <4>5. PICK m \in DOMAIN all : all[m] = PointOf(p.at, p.from)  BY <2>3, <4>2, <4>3, <4>4 DEF Cut
      <4> QED  BY <4>2, <4>5 DEF Series!ToSet
    <3>4. ASSUME NEW p \in Series!ToSet(all), from <= p.at, p.at < to
          PROVE  p \in Series!ToSet(part)
      <4>1. PICK n \in DOMAIN all : p = all[n]  BY DEF Series!ToSet
      <4>2. Serves(p.at, p.from) /\ p = PointOf(p.at, p.from)  BY <2>3, <4>1 DEF Cut
      <4>3. p.at \in Series!Moments /\ p.from \in Series!Moments  BY <4>2 DEF Serves, Feeds
      <4>5. PICK m \in DOMAIN part : part[m] = PointOf(p.at, p.from)  BY <3>2, <3>4, <4>2, <4>3 DEF Cut
      <4> QED  BY <4>2, <4>5 DEF Series!ToSet
    <3>5. Series!ToSet(part) = {p \in Series!ToSet(all) : from <= p.at /\ p.at < to}  BY <3>3, <3>4
    <3>6. \A m, n \in DOMAIN part : m < n => part[m].at < part[n].at  BY <3>2 DEF Cut
    <3> QED  BY <3>1, <3>5, <3>6
  <2> QED  BY <2>2, <2>4, <2>5 DEF Series!RangesAgree, BucketsOf
<1>2. SeriesInv => Series!RangesAgree /\ RangesAgree  BY <1>1 DEF SeriesInv, RangesAgree
<1> QED  BY <1>2, SeriesInvariant, PTL
=============================================================================
