--------------------------- MODULE EligibilityOverlay ---------------------------
(***************************************************************************)
(* /v1/intensity/greenest-window?eligibility=...: for each slot of a       *)
(* forecast, the share of renewables and the price are gathered in up to   *)
(* four reads, between which rows are written and any of which may fail,   *)
(* then judged.  The window of history is kept in a cache of one entry, by *)
(* the instant of the latest measurement and for one interval of the       *)
(* poller.                                                                  *)
(***************************************************************************)
EXTENDS Eligibility, Windows, FiniteSets

CONSTANTS
    NOWCAST_COVERAGE,  \* a measurement stands for the instants at most this far
    MAX_PRICE_AGE,     \* a price stands for less than this
    Minute,            \* the minute that closes the ranges
    Lookback,          \* depth of the history of shares
    Week,              \* a multiple of NOWCAST_COVERAGE
    MaxHorizon,        \* calibrated horizon of the shares
    Spread,            \* of the calibrated interval, per step
    Ttl,               \* time to live of the entry of the cache
    Lag,               \* request_timeout: a request is given up when it lasts longer
    Instants,          \* bound: the grid of measurements
    Hours,             \* bound: the instants of prices
    Shares, Prices,    \* bounds: their values
    Requests,          \* bound: the requests, with the forecast they are about
    MaxTime, MaxWrites \* bounds: of the clock, of the writes

(* Durations are positive, two measurements are further apart than the      *)
(* minute that closes the ranges, shares are percents, and a request has    *)
(* what the handler's parser lets through: at most one value per option, a   *)
(* positive consumption, a forecast within its interval.                     *)
AtMostOne(option) == \A x, y \in option : x = y

Point == [at : Int, lower : Int, expected : Int, upper : Int]

ASSUME OverlayAssumption ==
    /\ NOWCAST_COVERAGE \in Nat \ {0} /\ MAX_PRICE_AGE \in Nat \ {0} /\ Minute \in Nat \ {0}
    /\ Lookback \in Nat /\ Week \in Nat \ {0} /\ MaxHorizon \in Nat /\ Spread \in Nat /\ Ttl \in Nat /\ Lag \in Nat
    /\ Instants \subseteq Nat /\ IsFiniteSet(Instants)
    /\ \A t, u \in Instants : t < u => t + Minute <= u
    /\ Hours \subseteq Int /\ Shares \subseteq 0 .. 100 /\ Prices \subseteq Int
    /\ \A q \in Requests :
          /\ q.framework \in {"rfnbo", "low-carbon"} /\ q.wired \in BOOLEAN
          /\ q.surplus \in SUBSET Int /\ q.threshold \in SUBSET Int /\ q.kwh \in SUBSET (Nat \ {0})
          /\ AtMostOne(q.surplus) /\ AtMostOne(q.threshold) /\ AtMostOne(q.kwh)
          /\ q.points \in Seq(Point) /\ q.points # <<>>
          /\ \A n \in DOMAIN q.points : q.points[n].lower <= q.points[n].upper

VARIABLES
    rows,     \* rows[t]: the measurement of t, if any, and its share, if its mix has one
    prices,   \* prices[t]: the price of t, if any
    cache,    \* the entry of the cache, if any
    req,      \* the request in progress
    answer,   \* the body it was answered, and what it was made from
    now, writes,
    quiet     \* time since a row was written or a read failed, up to Settling

vars == <<rows, prices, cache, req, answer, now, writes, quiet>>

NoRow == [known |-> FALSE, share |-> {}]
RowsOf(shares) == {NoRow} \cup [known : {TRUE}, share : {{}} \cup {{s} : s \in shares}]

NoRequest == [pc |-> "idle"]
NoAnswer == [body |-> {}]

-----------------------------------------------------------------------------
(* national_mix_range with the shares of the rows that have one; the latest *)
(* row, whether it has one or not; the prices of a range.                    *)
SharesIn(table, from, to) ==
    [t \in {u \in Instants : from <= u /\ u < to /\ table[u].share # {}} |-> The(table[t].share)]

LatestOf(table) ==
    LET known == {t \in Instants : table[t].known}
    IN  IF known = {} THEN {}
        ELSE LET last == CHOOSE t \in known : \A u \in known : u <= t
             IN  {[at |-> last, share |-> table[last].share]}

PricesOf(table, points) ==
    [t \in {u \in Hours : points[1].at - MAX_PRICE_AGE <= u /\ u < points[Len(points)].at + Minute /\ table[u] # {}}
        |-> The(table[t])]

Nothing == [t \in {} |-> 0]

(* An entry outlives what it was read from by a Ttl, counted from the end   *)
(* of the read.                                                              *)
Settling == Ttl + Lag

(* observed_at: the last sample up to at, if it still stands for at. *)
observed_at(observed, at) ==
    {observed[t] : t \in {u \in DOMAIN observed :
        u <= at /\ at - u <= NOWCAST_COVERAGE /\ \A w \in DOMAIN observed : w <= at => w <= u}}

freshest_price(known, at) ==
    {known[t] : t \in {u \in DOMAIN known :
        0 <= at - u /\ at - u < MAX_PRICE_AGE /\ \A w \in DOMAIN known : w <= at => w <= u}}

-----------------------------------------------------------------------------
(* ShareClimatology, on the samples of the window: the mean of the slot of  *)
(* the week, plus the bias of the anchor, halved at each step.               *)
week_slot(t) == (t % Week) \div NOWCAST_COVERAGE

MeanOf(observed, instants) ==
    FoldFunctionOnSet(+, 0, observed, instants) \div Cardinality(instants)

climatology_at(observed, t) ==
    LET same == {u \in DOMAIN observed : week_slot(u) = week_slot(t)}
    IN  MeanOf(observed, IF same = {} THEN DOMAIN observed ELSE same)

expected_at(observed, t, anchor) ==
    LET bias == Clamp(anchor.share) - climatology_at(observed, anchor.at)
        halvings == (t - anchor.at) \div NOWCAST_COVERAGE
    IN  Clamp(climatology_at(observed, t) + bias \div (2 ^ halvings))

forecast_at(observed, t, anchor) ==
    LET dt == t - anchor.at
        expected == expected_at(observed, t, anchor)
        q == Spread * (dt \div NOWCAST_COVERAGE)
    IN  IF dt <= 0 \/ dt > MaxHorizon THEN {}
        ELSE {[expected |-> expected, lower |-> Clamp(expected - q), upper |-> Clamp(expected + q),
               source |-> "forecast"]}

(* The anchor is the latest measurement, if its mix has a share, else the   *)
(* last sample.                                                              *)
AnchorOf(latest, observed) ==
    IF \E m \in latest : m.share # {} THEN [at |-> The(latest).at, share |-> The(The(latest).share)]
    ELSE LET last == CHOOSE t \in DOMAIN observed : \A u \in DOMAIN observed : u <= t
         IN  [at |-> last, share |-> observed[last]]

-----------------------------------------------------------------------------
(* The share of a slot: the latest measurement stands for the slots it      *)
(* covers, an older slot has its own, a later one is predicted.              *)
share_of_current(at, latest, wired, base, extra) ==
    IF latest # {} /\ at <= The(latest).at THEN {ObservedShare(s) : s \in The(latest).share}
    ELSE IF ~wired \/ DOMAIN base = {} THEN {}
    ELSE forecast_at(base, at, AnchorOf(latest, base))

share_of(at, latest, wired, base, extra) ==
    IF latest # {} /\ at <= The(latest).at /\ The(latest).at - at <= NOWCAST_COVERAGE
    THEN {ObservedShare(s) : s \in The(latest).share}
    ELSE IF latest # {} /\ at <= The(latest).at
    THEN LET own == observed_at(base, at) IN {ObservedShare(s) : s \in IF own # {} THEN own ELSE observed_at(extra, at)}
    ELSE IF ~wired \/ DOMAIN base = {} THEN {}
    ELSE forecast_at(base, at, AnchorOf(latest, base))

gap_of(at, latest, wired) ==
    IF wired /\ \E m \in latest : m.share # {} /\ at - m.at > MaxHorizon
    THEN "beyond-calibrated-horizon" ELSE "missing-data"

SlotOf(p, r) ==
    [at |-> p.at, intensity |-> estimate(p, r.estimator), lower |-> p.lower, upper |-> p.upper,
     share |-> share_of(p.at, r.latest, r.wired /\ r.ruleset.framework = "rfnbo", r.base, r.extra),
     gap |-> gap_of(p.at, r.latest, r.wired), price |-> freshest_price(r.prices, p.at)]

SlotsOf(r) == [n \in DOMAIN r.points |-> SlotOf(r.points[n], r)]

(* evaluate, then the body; the window lasts one step. *)
BodyOf(r) == from_verdicts(r.ruleset, greenest_window(r.points, step_of(r.points), r.estimator),
                           evaluate(SlotsOf(r), r.ruleset))

-----------------------------------------------------------------------------
(* The ranges of the two reads of history. *)
BaseRead(table, anchor) == SharesIn(table, anchor - Lookback, anchor + Minute)

NeedsExtra(points, anchor) == points[1].at < anchor - Lookback

ExtraRead(table, points, anchor) ==
    LET start == anchor - Lookback
        below == CHOOSE n \in DOMAIN points :
                    points[n].at < start /\ \A m \in DOMAIN points : points[m].at < start => m <= n
        end == IF points[below].at + Minute < start THEN points[below].at + Minute ELSE start
    IN  SharesIn(table, points[1].at - NOWCAST_COVERAGE, end)

(* What a read answers: what is stored, or nothing if it fails. *)
Reads(value, nothing) == {[got |-> value, failed |-> FALSE], [got |-> nothing, failed |-> TRUE]}

Init ==
    /\ rows \in [Instants -> RowsOf(Shares)]
    /\ \E t \in Instants : rows[t] = NoRow /\ \A u \in Instants : u <= t
    /\ \E t \in Hours, p \in Prices : prices = [u \in Hours |-> IF u = t THEN {p} ELSE {}]
    /\ cache = {} /\ req = NoRequest /\ answer = NoAnswer
    /\ now = 0 /\ writes = 0 /\ quiet = Settling

(* Time passes between two requests, and in the middle of one. *)
Tick ==
    /\ now < MaxTime /\ (req.pc # "idle" => now - req.since < Lag)
    /\ now' = now + 1 /\ quiet' = IF quiet < Settling THEN quiet + 1 ELSE Settling
    /\ answer' = NoAnswer /\ UNCHANGED <<rows, prices, cache, req, writes>>

Disturbed(r) == IF r.pc = "idle" THEN r ELSE [r EXCEPT !.settled = FALSE]

Write ==
    /\ writes < MaxWrites /\ writes' = writes + 1
    /\ \/ \E t \in Instants : \E row \in RowsOf(Shares) \ {NoRow} :
            row # rows[t] /\ rows' = [rows EXCEPT ![t] = row] /\ UNCHANGED prices
       \/ \E t \in Hours : \E p \in Prices :
            {p} # prices[t] /\ prices' = [prices EXCEPT ![t] = {p}] /\ UNCHANGED rows
    /\ quiet' = 0 /\ req' = Disturbed(req)
    /\ answer' = NoAnswer /\ UNCHANGED <<cache, now>>

(* greenest_window: the forecast is computed, the ruleset resolved.         *)
Ask ==
    /\ req.pc = "idle"
    /\ \E q \in Requests : \E r \in resolve_ruleset(q.framework, q.version) :
          req' = [pc |-> "latest", since |-> now, settled |-> quiet >= Settling, wired |-> q.wired, estimator |-> q.estimator,
                  ruleset |-> with_overrides(r, q.surplus, q.threshold, q.kwh), points |-> q.points,
                  latest |-> {}, prices |-> Nothing, base |-> Nothing, extra |-> Nothing]
    /\ answer' = NoAnswer /\ UNCHANGED <<rows, prices, cache, now, writes, quiet>>

AfterPrices(latest) ==
    IF req.wired /\ req.ruleset.framework = "rfnbo" /\ latest # {} THEN "history" ELSE "judge"

ReadLatest ==
    /\ req.pc = "latest"
    /\ \E read \in Reads(LatestOf(rows), {}) :
         req' = [req EXCEPT !.latest = read.got, !.settled = @ /\ ~read.failed,
                    !.pc = IF req.ruleset.surplus # {} THEN "prices" ELSE AfterPrices(read.got)]
    /\ answer' = NoAnswer /\ UNCHANGED <<rows, prices, cache, now, writes, quiet>>

ReadPrices ==
    /\ req.pc = "prices"
    /\ \E read \in Reads(PricesOf(prices, req.points), Nothing) :
         req' = [req EXCEPT !.prices = read.got, !.settled = @ /\ ~read.failed, !.pc = AfterPrices(req.latest)]
    /\ answer' = NoAnswer /\ UNCHANGED <<rows, prices, cache, now, writes, quiet>>

AfterBase == IF NeedsExtra(req.points, The(req.latest).at) THEN "extra" ELSE "judge"

(* get_or_build: from the cache if it is of this anchor and young enough,   *)
(* else read, a failure being an empty history like another.                 *)
HitAnyAge == \E e \in cache : e.anchor = The(req.latest).at

Hit == \E e \in cache : e.anchor = The(req.latest).at /\ now - e.storedAt < Ttl

ReadHistory ==
    /\ req.pc = "history"
    /\ IF Hit
       THEN req' = [req EXCEPT !.base = The(cache).base, !.pc = AfterBase] /\ UNCHANGED quiet
       ELSE \E read \in Reads(BaseRead(rows, The(req.latest).at), Nothing) :
              /\ req' = [req EXCEPT !.base = read.got, !.settled = @ /\ ~read.failed, !.pc = "store"]
              /\ quiet' = IF read.failed THEN 0 ELSE quiet
    /\ answer' = NoAnswer /\ UNCHANGED <<rows, prices, cache, now, writes>>

StoreHistory ==
    /\ req.pc = "store"
    /\ cache' = {[anchor |-> The(req.latest).at, storedAt |-> now, base |-> req.base]}
    /\ req' = [req EXCEPT !.pc = AfterBase]
    /\ answer' = NoAnswer /\ UNCHANGED <<rows, prices, now, writes, quiet>>

ReadExtra ==
    /\ req.pc = "extra"
    /\ \E read \in Reads(ExtraRead(rows, req.points, The(req.latest).at), Nothing) :
         req' = [req EXCEPT !.extra = read.got, !.settled = @ /\ ~read.failed, !.pc = "judge"]
    /\ answer' = NoAnswer /\ UNCHANGED <<rows, prices, cache, now, writes, quiet>>

Judge ==
    /\ req.pc = "judge"
    /\ answer' = [body |-> {BodyOf(req)}, request |-> req]
    /\ req' = NoRequest
    /\ UNCHANGED <<rows, prices, cache, now, writes, quiet>>

(* The client leaves, or request_timeout answers 503: the request is dropped *)
(* where it waits.                                                            *)
Abandon ==
    /\ req.pc # "idle" /\ req' = NoRequest
    /\ answer' = NoAnswer /\ UNCHANGED <<rows, prices, cache, now, writes, quiet>>

Next ==
    \/ Tick \/ Write \/ Ask \/ ReadLatest \/ ReadPrices \/ ReadHistory \/ StoreHistory \/ ReadExtra \/ Judge
    \/ Abandon

Spec == Init /\ [][Next]_vars

-----------------------------------------------------------------------------
Answered == answer.body # {}
Judged(n) == [slot |-> SlotsOf(answer.request)[n], verdict |-> The(answer.body).slots[n]]

(* The worlds a slot may turn out to be in: its share anywhere in its       *)
(* interval, the exception of the surplus established by the price, else    *)
(* open, its intensity anywhere in its interval.                             *)
Worlds(slot, r) ==
    [share : IF slot.share = {} THEN {0, 100} ELSE {The(slot.share).lower, The(slot.share).upper},
     surplus : IF \E t \in r.surplus, p \in slot.price : p <= t THEN {TRUE} ELSE BOOLEAN,
     intensity : {slot.lower, slot.upper}]

Qualifies(world, r) ==
    IF r.framework = "rfnbo" THEN world.share >= r.share \/ world.surplus
    ELSE world.intensity <= The(r.intensity)

Certain(verdict, slot, r) ==
    LET worlds == Worlds(slot, r)
    IN  /\ verdict.eligible <=> \A w \in worlds : Qualifies(w, r)
        /\ is_indeterminate(verdict) <=> \E v, w \in worlds : Qualifies(v, r) /\ ~Qualifies(w, r)

Regulatory(verdict, basis, r) ==
    LET canonical == The(resolve_ruleset(r.framework, {}))
    IN  \A s \in ToSet(verdict.signals) : basis[s.pillar] # "user-override" =>
          s.threshold \subseteq {canonical.share} \cup canonical.surplus \cup canonical.intensity

(* A slot is eligible exactly when it is whatever turns out to be true, and *)
(* told undecided exactly when that depends on what is not known; a         *)
(* threshold told to be regulatory is the one of the catalogue.              *)
VerdictIsCertain == Answered =>
    LET r == answer.request.ruleset
    IN  \A n \in DOMAIN answer.request.points :
          /\ Certain(Judged(n).verdict, Judged(n).slot, r)
          /\ Regulatory(Judged(n).verdict, The(answer.body).basis, r)

(* The pillars of a verdict are of the instant of its slot: a share told    *)
(* observed is that of the latest measurement, for a slot it covers, which   *)
(* is at most a step before it (a slot exactly one step before is covered:   *)
(* the code says <=), or that of the last sample the slot has of its own, up *)
(* to it and at most a step before; one told forecast is of an instant after *)
(* the latest measurement and within the calibrated horizon of the anchor,   *)
(* the measurement the forecast starts from; and a price covers the hour of  *)
(* the slot.                                                                  *)
Covers(m, at) == at <= m.at /\ m.at - at <= NOWCAST_COVERAGE

OwnShare(r, at, share) ==
    \E history \in {r.base, r.extra} : \E t \in DOMAIN history :
        /\ history[t] = share /\ t <= at /\ at - t <= NOWCAST_COVERAGE
        /\ \A w \in DOMAIN r.base \cup DOMAIN r.extra : w <= at => w <= t

OfItsInstant(slot, r) ==
    /\ \A e \in slot.share :
         IF e.source = "observed"
         THEN OwnShare(r, slot.at, e.expected) \/ \E m \in r.latest : Covers(m, slot.at) /\ m.share = {e.expected}
         ELSE /\ \E m \in r.latest : slot.at > m.at
              /\ slot.at - AnchorOf(r.latest, r.base).at <= MaxHorizon
    /\ \A p \in slot.price : \E t \in DOMAIN r.prices :
         t <= slot.at /\ slot.at < t + MAX_PRICE_AGE /\ r.prices[t] = p

PillarsAtTheirSlot == Answered =>
    \A n \in DOMAIN answer.request.points : OfItsInstant(Judged(n).slot, answer.request)

(* What the header of eligibility_uc.rs and its test of past instants say:  *)
(* the current share stands only for slots less than a step before it, the   *)
(* share of a slot older than that is its own, never the current one.        *)
OlderSlotsHaveTheirOwn == Answered =>
    \A n \in DOMAIN answer.request.points :
        LET slot == Judged(n).slot
        IN  \A m \in answer.request.latest, e \in slot.share :
              m.at - slot.at >= NOWCAST_COVERAGE => OwnShare(answer.request, slot.at, e.expected)

(* An answer to a request begun when no row had been written and no read    *)
(* had failed for a Ttl and the duration of a request, and undisturbed since, *)
(* is the one the tables would give read at once, without a cache: a history *)
(* revised while it is read, or one that could not be read, is forgotten in  *)
(* time.  The duration of a request is there because the entry is as old as  *)
(* the end of its read, not as the read.                                      *)
QuietMeansCurrent == Answered /\ answer.request.settled =>
    LET latest == LatestOf(rows)
        base == IF latest = {} THEN Nothing ELSE BaseRead(rows, The(latest).at)
        extra == IF latest # {} /\ NeedsExtra(answer.request.points, The(latest).at)
                 THEN ExtraRead(rows, answer.request.points, The(latest).at) ELSE Nothing
        wanted == answer.request.wired /\ answer.request.ruleset.framework = "rfnbo"
    IN  answer.body = {BodyOf([answer.request EXCEPT
            !.latest = latest,
            !.prices = IF answer.request.ruleset.surplus = {} THEN Nothing ELSE PricesOf(prices, answer.request.points),
            !.base = IF wanted THEN base ELSE Nothing, !.extra = IF wanted THEN extra ELSE Nothing])}
=============================================================================
