------------------------------- MODULE SeriesStore -------------------------------
(***************************************************************************)
(* The series computed when they are read: acv-ademe@2 from the mix and    *)
(* the cross-border flows, the price from the mix and the spot prices.     *)
(* Each is served as a current value, in two or three queries between      *)
(* which anything may be written, as a history, and as statistics; nothing *)
(* but agreement of three pieces of code makes them one series.             *)
(***************************************************************************)
EXTENDS Integers, Sequences, FiniteSets, SequencesExt, Functions

CONSTANTS
    MaxInstant,  \* bound: instants are 0 .. MaxInstant
    FlowAge,     \* MAX_FLOW_CONTEXT_AGE
    SpotAge,     \* MAX_SPOT_STALENESS
    SpotMargin,  \* the 24 h by which the price history widens its range
    Bucket       \* instants in a bucket of statistics

Moments == 0 .. MaxInstant
Kinds == {"consumption", "price"}

VARIABLES
    kind,      \* which of the two series
    mix,       \* mix[t]: the measurement of the instant t: "none", "bare", or its mix
    context,   \* context[t]: the parts (neighbours, or the price) stored for t
    base,      \* the measurement read by a current value on its way
    newest,    \* the instant of flows it found, whose rows it has not read yet, or -1
    served,    \* the current value served by the last step
    overtaken  \* history: what it read, "mix" or "context", has been overtaken since

vars == <<kind, mix, context, base, newest, served, overtaken>>

(* Two contents of a mix: a measurement is revised without a word.           *)
Mixes == {"first", "revised"}

Parts == IF kind = "consumption" THEN {"belgium", "spain"} ELSE {"spot"}
MaxAge == IF kind = "consumption" THEN FlowAge ELSE SpotAge

None == 0 - 1
NoBase == [at |-> None, mix |-> "none"]
Nothing == [at |-> None, mix |-> "none", from |-> None, parts |-> {}]

-----------------------------------------------------------------------------
(* flows_at (its first query), price_at: the last instant with a context,   *)
(* up to at; flows_at looks no further back than FlowAge.                    *)
ContextAt(at) ==
    LET since == IF kind = "consumption" THEN at - FlowAge ELSE 0
        known == {t \in Moments : t <= at /\ t >= since /\ context[t] # {}}
    IN  IF known = {} THEN None ELSE CHOOSE t \in known : \A u \in known : u <= t

LatestMeasurement == LET known == {t \in Moments : mix[t] # "none"}
                     IN  IF known = {} THEN None ELSE CHOOSE t \in known : \A u \in known : u <= t

Point(m, from) == [at |-> m.at, mix |-> m.mix, from |-> from, parts |-> context[from]]

(* The history of derive_consumption_series and price_series: the           *)
(* measurements and the contexts, each in the order of time, merged; the     *)
(* contexts are read from a bit earlier.  At an instant the context comes    *)
(* first.                                                                    *)
NotWidened == 0

Widened == IF kind = "consumption" THEN FlowAge ELSE SpotMargin

Merge(acc, from, at) ==
    LET current == IF context[at] # {} THEN at ELSE acc.current
    IN  [current |-> current,
         out |-> IF from <= at /\ mix[at] \in Mixes /\ current # None /\ at - current <= MaxAge
                 THEN Append(acc.out, Point([at |-> at, mix |-> mix[at]], current)) ELSE acc.out]

History(from, to) ==
    LET first == IF from > Widened THEN from - Widened ELSE 0
    IN  FoldLeft(LAMBDA acc, at : Merge(acc, from, at), [current |-> None, out |-> <<>>],
                 [n \in 1 .. to - first |-> first + n - 1]).out

(* stats_of_values, on the points at some positions; a value tells the       *)
(* instants of its point.                                                    *)
Scale == MaxInstant + 1
Value(point) == Scale * point.at + point.from
Total(values, positions) == FoldFunctionOnSet(+, 0, values, positions)
Stats(points, positions) ==
    LET values == {Value(points[n]) : n \in positions}
    IN  [count |-> Cardinality(positions),
         sum |-> Total([n \in positions |-> Value(points[n])], positions),
         min |-> CHOOSE v \in values : \A w \in values : v <= w,
         max |-> CHOOSE v \in values : \A w \in values : w <= v]

(* summarize, of a series that is not empty; and bucketize, on the floor of  *)
(* its step.                                                                 *)
Summary(points) == Stats(points, DOMAIN points)

StartOf(at) == at - (at % Bucket)

Buckets(points) ==
    [start \in {StartOf(points[n].at) : n \in DOMAIN points} |->
        Stats(points, {n \in DOMAIN points : StartOf(points[n].at) = start})]

-----------------------------------------------------------------------------
Init ==
    /\ kind \in Kinds
    /\ mix = [t \in Moments |-> "none"] /\ context = [t \in Moments |-> {}]
    /\ base = NoBase /\ newest = None /\ served = Nothing /\ overtaken = {}

(* upsert_many: an acv-ademe row always has the mix it comes from; a row of *)
(* rte-direct may be revised into one without.                               *)
UpsertMeasurement(t) ==
    /\ \E m \in IF kind = "consumption" THEN Mixes ELSE {"bare"} \cup Mixes :
         m # mix[t] /\ mix' = [mix EXCEPT ![t] = m]
    /\ overtaken' = IF t = base.at THEN overtaken \cup {"mix"} ELSE overtaken
    /\ served' = Nothing /\ UNCHANGED <<kind, context, base, newest>>

(* upsert_flows, upsert_prices: what is answered for an instant is added to *)
(* what is stored for it.                                                    *)
UpsertContext(t) ==
    /\ \E parts \in SUBSET Parts : parts \ context[t] # {} /\ context' = [context EXCEPT ![t] = @ \cup parts]
    /\ overtaken' = IF newest # None /\ newest < t /\ t <= base.at
                    THEN overtaken \cup {"context"} ELSE overtaken
    /\ served' = Nothing /\ UNCHANGED <<kind, mix, base, newest>>

(* GetConsumptionIntensity::execute, GetElectricityPrice::current: the last *)
(* measurement, with its mix, then its context if it is fresh enough.        *)
ReadBase ==
    /\ base = NoBase /\ LatestMeasurement # None
    /\ mix[LatestMeasurement] \in Mixes
    /\ base' = [at |-> LatestMeasurement, mix |-> mix[LatestMeasurement]] /\ served' = Nothing
    /\ UNCHANGED <<kind, mix, context, newest, overtaken>>

FreshAnyAge(at, from) == from # None

Fresh(at, from) == from # None /\ at - from <= MaxAge

(* The current value is answered from what was read, or not found. *)
Serve(from) ==
    /\ served' = IF Fresh(base.at, from) THEN Point(base, from) ELSE Nothing
    /\ base' = NoBase /\ newest' = None /\ overtaken' = {}
    /\ UNCHANGED <<kind, mix, context>>

ReadPrice == kind = "price" /\ base # NoBase /\ Serve(ContextAt(base.at))

(* flows_at: the last instant with flows, then the rows of that instant.    *)
ReadNewest ==
    /\ kind = "consumption" /\ base # NoBase /\ newest = None
    /\ IF ContextAt(base.at) = None THEN Serve(None)
       ELSE /\ newest' = ContextAt(base.at)
            /\ UNCHANGED <<kind, mix, context, base, served, overtaken>>

ReadRows == newest # None /\ Serve(newest)

Next ==
    \/ \E t \in Moments : UpsertMeasurement(t) \/ UpsertContext(t)
    \/ ReadBase \/ ReadPrice \/ ReadNewest \/ ReadRows

Spec == Init /\ [][Next]_vars

-----------------------------------------------------------------------------
PointsAt(points, at) == {p \in ToSet(points) : p.at = at}

(* A current value is the point the history has at the same instant when    *)
(* the value is served, and is not found when the history has none, unless  *)
(* what it was made from was overtaken on its way: its measurement was      *)
(* revised after it was read (the history then has the new mix, or none),   *)
(* or newer flows were stored between the two queries of flows_at (the      *)
(* history then has these).  It is never of newer flows than the history,   *)
(* and nothing else may differ.                                              *)
NowMatchesHistory == [][
    base # NoBase /\ base' = NoBase =>
        LET points == PointsAt(History(0, MaxInstant + 1), base.at)
        IN  IF served' = Nothing THEN points = {}
            ELSE /\ points = {} => "mix" \in overtaken
                 /\ \A p \in points :
                      /\ p.mix = served'.mix \/ "mix" \in overtaken
                      /\ \/ [p EXCEPT !.mix = served'.mix] = served'
                         \/ "context" \in overtaken /\ p.from > served'.from]_vars

(* A point does not depend on the range it is read in: the contexts read    *)
(* before the range are enough, and no more than fresh ones are used; each   *)
(* is served once, in the order of time.  And the buckets of a range are     *)
(* those of its points: together they have the count and the sum of its      *)
(* summary, each is aligned and holds no point of another.                   *)
RangesAgree ==
    LET all == History(0, MaxInstant + 1)
        buckets == Buckets(all)
        starts == DOMAIN buckets
    IN  /\ \A from \in Moments : \A to \in from + 1 .. MaxInstant + 1 :
             LET points == History(from, to)
             IN  /\ ToSet(points) = {p \in ToSet(all) : from <= p.at /\ p.at < to}
                 /\ \A m, n \in DOMAIN points : m < n => points[m].at < points[n].at
        /\ all # <<>> =>
             /\ Total([s \in starts |-> buckets[s].count], starts) = Summary(all).count
             /\ Total([s \in starts |-> buckets[s].sum], starts) = Summary(all).sum
        /\ \A s \in starts :
             /\ s % Bucket = 0
             /\ Scale * s <= buckets[s].min /\ buckets[s].max < Scale * (s + Bucket)
=============================================================================
