------------------------------- MODULE SideTables -------------------------------
(***************************************************************************)
(* The tables beside the measurements: the loads, realized and forecast,   *)
(* which arrive separately; the weather, of which every run is kept; the   *)
(* visits, counted in one statement and memorised in another.  A behaviour *)
(* is one of one table.                                                     *)
(***************************************************************************)
EXTENDS Integers, Sequences, FiniteSets, SequencesExt

CONSTANTS
    Amounts,      \* bound: values of a load, or of the weather
    Runs, Valids, \* bounds: instants of production and of validity
    MaxReach,     \* how far from an instant GetWeather looks for a forecast
    MaxBatch,     \* bound: length of a batch
    Visits,       \* bound: requests of record_visit at the same time
    Visitors, Days

VARIABLES
    table,    \* "loads", "weather" or "visits"
    sent,     \* the batch of the last upsert
    load,     \* the load of an instant: realized and forecast, each known or not
    weather,  \* weather[v, r]: the forecast of run r for v, if any
    served,   \* the last forecast of the weather served, and for when
    visited,  \* the rows of visit
    memo,     \* visit_cache, if any
    visit,    \* visit[q]: the request q
    told      \* the statistics answered by the last step, if any

loads == <<sent, load>>
forecasts == <<weather, served>>
visits == <<visited, memo, visit, told>>
vars == <<table, loads, forecasts, visits>>

NoLoad == [realized |-> {}, forecast |-> {}]
LoadRecord == [realized : {{}} \cup {{a} : a \in Amounts}, forecast : {{}} \cup {{a} : a \in Amounts}]

-----------------------------------------------------------------------------
(* Option::or, and COALESCE(EXCLUDED.x, x) *)
or(x, y) == IF x # {} THEN x ELSE y

MergedOver(old, new) == new

Merged(old, new) == [realized |-> or(new.realized, old.realized), forecast |-> or(new.forecast, old.forecast)]

(* The records of one key in a batch become one, then meet the row.         *)
upsert_loads(row, batch) ==
    IF batch = <<>> THEN row
    ELSE LET one == FoldLeft(Merged, batch[1], batch)
         IN  [realized |-> or(one.realized, row.realized), forecast |-> or(one.forecast, row.forecast)]

UpsertLoads ==
    /\ table = "loads"
    /\ \E batch \in BoundedSeq(LoadRecord, MaxBatch) : sent' = batch /\ load' = upsert_loads(load, batch)
    /\ UNCHANGED <<table, forecasts, visits>>

-----------------------------------------------------------------------------
(* The last of a batch for a key; an existing key is refreshed.             *)
UpsertWeather ==
    /\ table = "weather"
    /\ \E v \in Valids, r \in Runs, a \in Amounts : weather' = [weather EXCEPT ![<<v, r>>] = {a}]
    /\ UNCHANGED <<table, loads, served, visits>>

(* One line per instant of the range, that of its last run. *)
weather_latest(rows, from, to) ==
    {f \in [valid : Valids, run : Runs] :
        /\ from <= f.valid /\ f.valid < to /\ rows[<<f.valid, f.run>>] # {}
        /\ \A r \in Runs : rows[<<f.valid, r>>] # {} => r <= f.run}

(* The closest, and of two as close the one that comes first. *)
latest(rows, reference) ==
    LET around == weather_latest(rows, reference - MaxReach, reference + MaxReach)
        far(f) == IF f.valid < reference THEN reference - f.valid ELSE f.valid - reference
    IN  {f \in around : \A g \in around : far(f) < far(g) \/ (far(f) = far(g) /\ f.valid <= g.valid)}

ServeWeather ==
    /\ table = "weather"
    /\ \E t \in Valids : \E f \in latest(weather, t) : served' = [reference |-> t, forecast |-> f]
    /\ UNCHANGED <<table, loads, weather, visits>>

-----------------------------------------------------------------------------
FirstDay(rows) == {row[2] : row \in {x \in rows : \A y \in rows : x[2] <= y[2]}}

visit_stats(rows) ==
    [unique |-> Cardinality({row[1] : row \in rows}), total |-> Cardinality(rows), since |-> FirstDay(rows)]

Absent == [pc |-> "idle"]

OfVisits(q) == table = "visits" /\ UNCHANGED <<table, loads, forecasts>>

(* record_visit: the row, unless it is there. *)
InsertKnown(q) ==
    /\ OfVisits(q) /\ visit[q].pc = "idle"
    /\ \E row \in Visitors \X Days :
         /\ visited' = visited \cup {row}
         /\ visit' = [visit EXCEPT ![q] =
              [pc |-> "known", row |-> row, new |-> row \notin visited, stats |-> visit_stats({})]]
    /\ told' = {} /\ UNCHANGED memo

Insert(q) ==
    /\ OfVisits(q) /\ visit[q].pc = "idle"
    /\ \E row \in Visitors \X Days :
         /\ visited' = visited \cup {row}
         /\ visit' = [visit EXCEPT ![q] =
              [pc |-> IF row \in visited THEN "known" ELSE "count", row |-> row,
               new |-> row \notin visited, stats |-> visit_stats({})]]
    /\ told' = {} /\ UNCHANGED memo

(* A visitor of the day is answered what was last counted, if anything was. *)
AnswerMemo(q) ==
    /\ OfVisits(q) /\ visit[q].pc = "known"
    /\ IF memo # {}
       THEN visit' = [visit EXCEPT ![q] = Absent]
            /\ told' = {[row |-> visit[q].row, new |-> visit[q].new, stats |-> s] : s \in memo}
       ELSE visit' = [visit EXCEPT ![q].pc = "count"] /\ told' = {}
    /\ UNCHANGED <<visited, memo>>

Count(q) ==
    /\ OfVisits(q) /\ visit[q].pc = "count"
    /\ visit' = [visit EXCEPT ![q].pc = "keep", ![q].stats = visit_stats(visited)]
    /\ told' = {} /\ UNCHANGED <<visited, memo>>

Keep(q) ==
    /\ OfVisits(q) /\ visit[q].pc = "keep"
    /\ memo' = {visit[q].stats}
    /\ told' = {[row |-> visit[q].row, new |-> visit[q].new, stats |-> visit[q].stats]}
    /\ visit' = [visit EXCEPT ![q] = Absent]
    /\ UNCHANGED visited

(* A statement fails, or the process stops: the row may stay, uncounted.    *)
Fail(q) ==
    /\ OfVisits(q) /\ visit[q].pc # "idle"
    /\ visit' = [visit EXCEPT ![q] = Absent]
    /\ told' = {} /\ UNCHANGED <<visited, memo>>

Restart ==
    /\ OfVisits({}) /\ memo # {}
    /\ memo' = {} /\ visit' = [q \in Visits |-> Absent]
    /\ told' = {} /\ UNCHANGED visited

-----------------------------------------------------------------------------
Init ==
    /\ table \in {"loads", "weather", "visits"}
    /\ sent = <<>> /\ load = NoLoad
    /\ weather = [k \in Valids \X Runs |-> {}]
    /\ served = [reference |-> 0, forecast |-> [valid |-> 0, run |-> 0]]
    /\ visited = {} /\ memo = {} /\ visit = [q \in Visits |-> Absent] /\ told = {}

Next ==
    \/ UpsertLoads \/ UpsertWeather \/ ServeWeather \/ Restart
    \/ \E q \in Visits : Insert(q) \/ AnswerMemo(q) \/ Count(q) \/ Keep(q) \/ Fail(q)

Spec == Init /\ [][Next]_vars

-----------------------------------------------------------------------------
(* However the two kinds of load are mixed in a batch, one statement leaves *)
(* what the records would one by one, and no field once known is lost; and  *)
(* the weather served for an instant is never of a run older than one of     *)
(* the same instant that was served before.                                  *)
NothingForgotten == [][
    /\ load' # load => load' = FoldLeft(Merged, load, sent')
    /\ \A field \in {"realized", "forecast"} : load[field] # {} => load'[field] # {}
    /\ served'.forecast.valid = served.forecast.valid => served'.forecast.run >= served.forecast.run]_vars

(* Who has just been counted is in the count he is told, even if another    *)
(* visit is counted at the same time; nobody is told more than there is.     *)
VisitCounted == \A t \in told :
    /\ t.stats.total <= Cardinality(visited) /\ t.stats.unique <= t.stats.total
    /\ t.new => /\ t.stats.total > 0
                /\ \E before \in SUBSET (visited \ {t.row}) : t.stats = visit_stats(before \cup {t.row})
=============================================================================
