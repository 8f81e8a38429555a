------------------------------- MODULE ApiRoutes -------------------------------
(***************************************************************************)
(* The routes of adapter-http: the parameters each of them reads, what it  *)
(* accepts, what it reads to answer, and the status and document it sends. *)
(*                                                                         *)
(* A request is the function of the parameters it gives.  Instants count   *)
(* days (Unreadable when they do not parse); a number outside the range    *)
(* its handler accepts is out, one inside is in.                           *)
(***************************************************************************)
EXTENDS Integers, FiniteSets, Wire

CONSTANTS Unreadable   \* what does not parse

ASSUME RoutesAssumption == Unreadable \notin Int

Get(q, p, default) == IF p \in DOMAIN q THEN q[p] ELSE default
Gives(q, p) == p \in DOMAIN q

(* The structures read by ValidatedQuery, and the body of POST /v1/webhooks. *)
RegionQuery == {"region", "methodology", "version"}
AllRegionsQuery == {"methodology", "version"}
HistoryQuery == {"from", "to", "region", "methodology", "version", "format"}
DateRangeQuery == {"from", "to"}
StatsQuery == {"from", "to", "region", "interval", "methodology", "version"}
ForecastQuery == {"region", "methodology", "from", "horizon_hours", "version"}
GreenestWindowQuery == {"region", "methodology", "version", "from", "horizon_hours", "window_minutes", "estimator",
    "eligibility", "eligibility_version", "surplus_price_eur_mwh", "low_carbon_threshold_g_per_kwh",
    "electrolyzer_kwh_per_kg"}
ScheduleQuery == {"region", "methodology", "version", "from", "horizon_hours", "duration_minutes", "deadline",
    "energy_kwh", "estimator"}
SlotsQuery == {"region", "methodology", "version", "from", "horizon_hours", "count", "estimator"}
BelowQuery == {"region", "methodology", "version", "from", "horizon_hours", "threshold", "estimator"}
StreamQuery == {"region", "below"}
FactorsQuery == {"methodology", "version"}
PriceQuery == {"region"}
PriceHistoryQuery == {"from", "to", "region"}
CostReferenceQuery == {"source", "technology", "perimeter", "vintage"}

Route(verb, reads, body) == [verb |-> verb, reads |-> reads, body |-> body]

(* router_with_options, by the name of the handler. *)
Routes == [
    intensity_now |-> Route("GET", RegionQuery, "IntensityResponse"),
    intensity_now_all |-> Route("GET", AllRegionsQuery, "IntensityAllResponse"),
    intensity_date |-> Route("GET", HistoryQuery, "HistoryResponse"),
    intensity_index |-> Route("GET", {}, "IntensityIndexResponse"),
    intensity_stats |-> Route("GET", StatsQuery, "StatsResponse"),
    mix |-> Route("GET", RegionQuery, "MixResponse"),
    exchanges |-> Route("GET", {}, "ExchangesResponse"),
    exchanges_date |-> Route("GET", DateRangeQuery, "ExchangesHistoryResponse"),
    weather |-> Route("GET", {}, "WeatherResponse"),
    weather_date |-> Route("GET", DateRangeQuery, "WeatherHistoryResponse"),
    renewable |-> Route("GET", {}, "RenewableResponse"),
    methodologies |-> Route("GET", {}, "MethodologiesResponse"),
    regions |-> Route("GET", {}, "RegionsResponse"),
    eligibility_rulesets |-> Route("GET", {}, "RulesetsResponse"),
    factors |-> Route("GET", FactorsQuery, "FactorsResponse"),
    price |-> Route("GET", PriceQuery, "PriceResponse"),
    price_date |-> Route("GET", PriceHistoryQuery, "PriceHistoryResponse"),
    cost_reference |-> Route("GET", CostReferenceQuery, "CostReferenceResponse"),
    visit_stats |-> Route("GET", {}, "VisitStatsResponse"),
    record_visit |-> Route("POST", {}, "VisitStatsResponse"),
    list_webhooks |-> Route("GET", {}, "WebhookListResponse"),
    create_webhook |-> Route("POST", {"region", "threshold", "direction", "callback_url"}, "CreatedWebhookResponse"),
    delete_webhook |-> Route("DELETE", {"id"}, "none"),
    forecast |-> Route("GET", ForecastQuery, "ForecastResponse"),
    greenest_window |-> Route("GET", GreenestWindowQuery, "GreenestWindowResponse"),
    schedule |-> Route("GET", ScheduleQuery, "ScheduleResponse"),
    schedule_slots |-> Route("GET", SlotsQuery, "SlotsResponse"),
    intensity_below |-> Route("GET", BelowQuery, "SlotsResponse"),
    intensity_stream |-> Route("GET", StreamQuery, "StreamEventBody")]

(* resolve_region, resolve_methodology, check_version, wants_consumption *)
RegionOf(q) == Get(q, "region", "national")
RegionKnown(q) == RegionOf(q) \in {"national", "bretagne"}

MethodologyOf(q, default) == Get(q, "methodology", default)
KNOWN_METHODOLOGIES == {"rte-direct", "acv-ademe"}

VersionKnown(q) == Gives(q, "version") =>
    q.version \in (IF MethodologyOf(q, "rte-direct") = "acv-ademe" THEN {1, 2} ELSE {1})

WantsConsumption(q) == MethodologyOf(q, "rte-direct") = "acv-ademe" /\ Get(q, "version", 0) = 2

SeriesKnown(q) == RegionKnown(q) /\ MethodologyOf(q, "rte-direct") \in KNOWN_METHODOLOGIES /\ VersionKnown(q)

(* parse_timestamp, TimeRange::new and the widest range of a handler *)
MAX_HISTORY_SPAN == 366
MAX_DENSE_SERIES_SPAN == 92

Readable(q, p) == Get(q, p, 0) # Unreadable
RangeGiven(q) == \A p \in {"from", "to"} : Gives(q, p) /\ q[p] # Unreadable
Span(q) == q.to - q.from

SpanUnchecked(q, days) == RangeGiven(q) /\ Span(q) > 0

RangeUpTo(q, days) == RangeGiven(q) /\ Span(q) > 0 /\ Span(q) <= days

(* resolve_forecast_window *)
DEFAULT_HORIZON_HOURS == 24
MAX_HORIZON_HOURS == 72
HorizonOf(q) == Get(q, "horizon_hours", DEFAULT_HORIZON_HOURS)
ForecastWindow(q) == Readable(q, "from") /\ HorizonOf(q) \in 1 .. MAX_HORIZON_HOURS

(* The duration of a window: positive and within the horizon. *)
DEFAULT_WINDOW_MINUTES == 60
FitsHorizon(q, p) == LET m == Get(q, p, DEFAULT_WINDOW_MINUTES) IN m > 0 /\ m <= 60 * HorizonOf(q)

EstimatorKnown(q) == Get(q, "estimator", "central") \in {"central", "prudent"}
InRange(q, p) == Get(q, p, "in") = "in"

(* validate_eligibility_overrides and resolve_ruleset, after the forecast *)
EligibilityAccepted(q) == Gives(q, "eligibility") =>
    /\ q.eligibility \in {"rfnbo", "low-carbon"}
    /\ \A p \in {"surplus_price_eur_mwh", "low_carbon_threshold_g_per_kwh", "electrolyzer_kwh_per_kg"} : InRange(q, p)
    /\ InRange(q, "eligibility_version")

(* reject_consumption_version *)
ProductionAssumed(q) == TRUE

ProductionOnly(q) == ~WantsConsumption(q)

Scheduling(q) == SeriesKnown(q) /\ ProductionOnly(q) /\ ForecastWindow(q) /\ EstimatorKnown(q)

(* What a handler does: whether it accepts the request before any reading,   *)
(* what it reads (nothing, the last value, a range of so many days, a       *)
(* forecast of so many hours), on which basis, the status it answers with   *)
(* when there is no data, and what it checks only once the data is read.    *)
Does(accepts, reads, basis, empty) ==
    [accepts |-> accepts, reads |-> reads, basis |-> basis, days |-> 0, hours |-> 0, empty |-> empty, late |-> TRUE]

Over(handler, accepted, days) == [handler EXCEPT !.days = IF accepted THEN days ELSE 0]

BasisOf(q) == IF WantsConsumption(q) THEN "consumption" ELSE "production"
OnlyNational(q) == WantsConsumption(q) => RegionOf(q) = "national"

IntensityNow(q) == Does(SeriesKnown(q) /\ OnlyNational(q), "last", BasisOf(q), 404)

IntensityNowAll(q) == Does(SeriesKnown(q) /\ ProductionOnly(q), "last", "production", 200)

Mix(q) == Does(SeriesKnown(q) /\ ProductionOnly(q), "last", "production", 404)

IntensityDate(q) ==
    LET ok == /\ SeriesKnown(q) /\ OnlyNational(q)
              /\ Get(q, "format", "json") \in {"json", "csv"}
              /\ RangeUpTo(q, IF WantsConsumption(q) THEN MAX_DENSE_SERIES_SPAN ELSE MAX_HISTORY_SPAN)
    IN  Over(Does(ok, "range", BasisOf(q), 200), ok, Span(q))

IntensityStats(q) ==
    LET ok == /\ SeriesKnown(q) /\ OnlyNational(q)
              /\ RangeUpTo(q, IF WantsConsumption(q) THEN MAX_DENSE_SERIES_SPAN ELSE MAX_HISTORY_SPAN)
    IN  [Over(Does(ok, "range", BasisOf(q), 404), ok, Span(q))
         EXCEPT !.late = Get(q, "interval", "hour") \in {"hour", "day"}]

DenseRange(q) == LET ok == RangeUpTo(q, MAX_DENSE_SERIES_SPAN) IN Over(Does(ok, "range", "none", 200), ok, Span(q))
ExchangesDate(q) == DenseRange(q)
WeatherDate(q) == DenseRange(q)

(* require_national *)
RequireNational(q) == RegionOf(q) = "national"
Price(q) == Does(RequireNational(q), "last", "none", 404)
PriceDate(q) == [DenseRange(q) EXCEPT !.accepts = @ /\ RequireNational(q)]

Exchanges(q) == Does(TRUE, "last", "none", 404)
Weather(q) == Does(TRUE, "last", "none", 404)

(* Without its calibrated model, 503. *)
Renewable(q, calibrated) == Does(TRUE, IF calibrated THEN "last" ELSE "unavailable", "none", 404)

(* Forecast: consumption needs its model, wired when its source is. *)
Forecasting(q, ok, basis) ==
    [Does(ok, "forecast", basis, 404) EXCEPT !.hours = IF ok THEN HorizonOf(q) ELSE 0]

Forecast(q, wired) ==
    LET handler == Forecasting(q, SeriesKnown(q) /\ ForecastWindow(q) /\ OnlyNational(q), BasisOf(q))
    IN  IF WantsConsumption(q) /\ ~wired THEN [handler EXCEPT !.reads = "unwired"] ELSE handler

GreenestWindow(q) ==
    [Forecasting(q, Scheduling(q) /\ FitsHorizon(q, "window_minutes"), "production")
     EXCEPT !.late = EligibilityAccepted(q)]

Schedule(q) ==
    Forecasting(q, /\ Scheduling(q) /\ FitsHorizon(q, "duration_minutes")
                   /\ Readable(q, "deadline") /\ InRange(q, "energy_kwh"), "production")

ScheduleSlots(q) == Forecasting(q, Scheduling(q) /\ Get(q, "count", 0) > 0, "production")

IntensityBelow(q) == Forecasting(q, Scheduling(q) /\ Get(q, "threshold", "out") = "in", "production")

IntensityStream(q) ==
    Does((Gives(q, "region") => RegionKnown(q)) /\ InRange(q, "below"), "nothing", "production", 200)

Factors(q) ==
    Does(MethodologyOf(q, "acv-ademe") = "acv-ademe" /\ Get(q, "version", 1) \in {1, 2}, "nothing",
         IF Get(q, "version", 1) = 2 THEN "consumption" ELSE "production", 200)

CostReference(q) == Does(\A p \in {"source", "technology", "perimeter"} : InRange(q, p), "nothing", "none", 200)

Catalogue(q) == Does(TRUE, "nothing", "none", 200)

(* visit_stats, record_visit: counters, never absent. *)
VisitStats(q) == Does(TRUE, "last", "none", 200)

(* ProblemDetails, bad_request, not_found, unavailable and internal *)
Refusal(status) == [status |-> status, body |-> "ProblemDetails",
                    code |-> CASE status = 400 -> "bad_request" [] status = 401 -> "unauthorized"
                               [] status = 404 -> "no_data" [] status = 503 -> "unavailable" [] OTHER -> "internal"]

Success(route) == [status |-> IF route = "create_webhook" THEN 201 ELSE IF route = "delete_webhook" THEN 204 ELSE 200,
                   body |-> Routes[route].body, code |-> "none"]

(* The answer of a handler when the database is up, empty or down: the      *)
(* errors of ApplicationError, ForecastError and RepositoryError.           *)
Outcome(route, handler, db) ==
    CASE ~handler.accepts -> Refusal(400)
      [] handler.accepts /\ handler.reads = "nothing" -> Success(route)
      [] handler.accepts /\ handler.reads = "unavailable" -> Refusal(503)
      [] handler.accepts /\ handler.reads = "unwired" -> Refusal(404)
      [] handler.accepts /\ handler.reads \in {"last", "range", "forecast"} ->
            CASE db = "down" -> Refusal(500)
              [] db = "empty" /\ handler.empty = 404 -> Refusal(404)
              [] OTHER -> IF handler.late THEN Success(route) ELSE Refusal(400)

HandlerOf(route, q, wired) ==
    CASE route = "intensity_now" -> IntensityNow(q)
      [] route = "intensity_now_all" -> IntensityNowAll(q)
      [] route = "mix" -> Mix(q)
      [] route = "intensity_date" -> IntensityDate(q)
      [] route = "intensity_stats" -> IntensityStats(q)
      [] route = "exchanges" -> Exchanges(q)
      [] route = "exchanges_date" -> ExchangesDate(q)
      [] route = "weather" -> Weather(q)
      [] route = "weather_date" -> WeatherDate(q)
      [] route = "renewable" -> Renewable(q, wired)
      [] route = "price" -> Price(q)
      [] route = "price_date" -> PriceDate(q)
      [] route = "forecast" -> Forecast(q, wired)
      [] route = "greenest_window" -> GreenestWindow(q)
      [] route = "schedule" -> Schedule(q)
      [] route = "schedule_slots" -> ScheduleSlots(q)
      [] route = "intensity_below" -> IntensityBelow(q)
      [] route = "intensity_stream" -> IntensityStream(q)
      [] route = "factors" -> Factors(q)
      [] route = "cost_reference" -> CostReference(q)
      [] route \in {"visit_stats", "record_visit"} -> VisitStats(q)
      [] route \in {"methodologies", "regions", "intensity_index", "eligibility_rulesets"} -> Catalogue(q)

(* The webhook routes, whose transactions are in WebhookStore: here their  *)
(* status only, by the key given and what the request asks.                 *)
CreateWebhook(q, key) ==
    IF key # "known" THEN Refusal(401)
    ELSE IF /\ RegionOf(q) = "national" /\ Get(q, "direction", "none") \in {"below", "above"}
            /\ Get(q, "threshold", "out") = "in" /\ Get(q, "callback_url", "out") = "in"
    THEN Success("create_webhook") ELSE Refusal(400)

ListWebhooks(q, key) == IF key # "known" THEN Refusal(401) ELSE Success("list_webhooks")

DeleteWebhook(q, key, found) ==
    IF key # "known" THEN Refusal(401) ELSE IF found THEN Success("delete_webhook") ELSE Refusal(404)

(* CACHEABLE_PATHS and cache_control: shared caches may keep the answer.    *)
Cacheable(route, status) ==
    /\ status = 200 /\ Routes[route].verb = "GET"
    /\ route \notin {"visit_stats", "list_webhooks", "intensity_stream"}

(* negotiate_format: the parameter wins over the header, which prefers csv  *)
(* when it weighs more than json, or as much and comes first.               *)
PrefersCsv(accept) ==
    /\ accept.csv > 0
    /\ \/ accept.json = 0 - 1
       \/ accept.csv > accept.json
       \/ accept.csv = accept.json /\ accept.csvFirst
FormatOf(q, accept) ==
    IF Gives(q, "format") THEN q.format ELSE IF PrefersCsv(accept) THEN "csv" ELSE "json"

(* The header an answer must carry when its content depends on Accept.      *)
VariesOnAccept(route) == route = "intensity_date"
=============================================================================
