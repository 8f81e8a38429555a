-------------------------------- MODULE SdkCalls --------------------------------
(***************************************************************************)
(* The calls of the Rust client: for every method of sdk/methods.rs the    *)
(* route it asks, the parameters it always gives (its arguments) and those *)
(* it may give (its options), and the document it reads; then what the     *)
(* client makes of an answer.                                              *)
(***************************************************************************)
EXTENDS Wire, Integers

Call(route, gives, options, returns) ==
    [route |-> route, gives |-> gives, options |-> options, returns |-> returns]

(* The structures of options.rs. *)
IntensityNowAllOptions == {"methodology", "version"}
IntensityNowOptions == {"region"} \cup IntensityNowAllOptions
IntensityDateOptions == IntensityNowOptions
IntensityStatsOptions == IntensityNowOptions \cup {"interval"}
BelowOptions == IntensityNowOptions \cup {"from", "horizon_hours", "estimator"}
ForecastOptions == IntensityNowOptions \cup {"from", "horizon_hours"}
GreenestWindowOptions == BelowOptions \cup {"window_minutes", "eligibility", "eligibility_version",
    "surplus_price_eur_mwh", "low_carbon_threshold_g_per_kwh", "electrolyzer_kwh_per_kg"}
MixOptions == IntensityNowOptions
ScheduleOptions == BelowOptions \cup {"duration_minutes", "deadline", "energy_kwh"}
ScheduleSlotsOptions == BelowOptions
FactorsOptions == IntensityNowAllOptions
PriceOptions == {"region"}
PriceHistoryOptions == {"region"}
CostReferenceOptions == {"source", "technology", "perimeter", "vintage"}
IntensityStreamOptions == {"region", "below"}

FromTo == {"from", "to"}

intensity_now == Call("intensity_now", {}, IntensityNowOptions, "IntensityResponse")
intensity_now_all == Call("intensity_now_all", {}, IntensityNowAllOptions, "IntensityAllResponse")
intensity_date == Call("intensity_date", FromTo, IntensityDateOptions, "HistoryResponse")
intensity_stats == Call("intensity_stats", FromTo, IntensityStatsOptions, "StatsResponse")

belowAnything == Call("intensity_below", {}, BelowOptions, "SlotsResponse")

below == Call("intensity_below", {"threshold"}, BelowOptions, "SlotsResponse")

forecast == Call("forecast", {}, ForecastOptions, "ForecastResponse")
greenest_window == Call("greenest_window", {}, GreenestWindowOptions, "GreenestWindowResponse")
schedule == Call("schedule", {}, ScheduleOptions, "ScheduleResponse")
schedule_slots == Call("schedule_slots", {"count"}, ScheduleSlotsOptions, "SlotsResponse")
mix == Call("mix", {}, MixOptions, "MixResponse")
exchanges == Call("exchanges", {}, {}, "ExchangesResponse")
exchanges_history == Call("exchanges_date", FromTo, {}, "ExchangesHistoryResponse")
weather == Call("weather", {}, {}, "WeatherResponse")
weather_history == Call("weather_date", FromTo, {}, "WeatherHistoryResponse")
renewable == Call("renewable", {}, {}, "RenewableResponse")
methodologies == Call("methodologies", {}, {}, "MethodologiesResponse")
regions == Call("regions", {}, {}, "RegionsResponse")
factors == Call("factors", {}, FactorsOptions, "FactorsResponse")
intensity_index == Call("intensity_index", {}, {}, "IntensityIndexResponse")
price == Call("price", {}, PriceOptions, "PriceResponse")
price_history == Call("price_date", FromTo, PriceHistoryOptions, "PriceHistoryResponse")
cost_reference == Call("cost_reference", {}, CostReferenceOptions, "CostReferenceResponse")
eligibility_rulesets == Call("eligibility_rulesets", {}, {}, "RulesetsResponse")
visit_stats == Call("visit_stats", {}, {}, "VisitStatsResponse")
record_visit == Call("record_visit", {}, {}, "VisitStatsResponse")
list_webhooks == Call("list_webhooks", {}, {}, "WebhookListResponse")
create_webhook == Call("create_webhook", {"region", "threshold", "direction", "callback_url"}, {}, "CreatedWebhookResponse")
delete_webhook == Call("delete_webhook", {"id"}, {}, "none")
intensity_stream == Call("intensity_stream", {}, IntensityStreamOptions, "IntensityEvent")

Calls == {intensity_now, intensity_now_all, intensity_date, intensity_stats, below, forecast, greenest_window,
    schedule, schedule_slots, mix, exchanges, exchanges_history, weather, weather_history, renewable,
    methodologies, regions, factors, intensity_index, price, price_history, cost_reference,
    eligibility_rulesets, visit_stats, record_visit, list_webhooks, create_webhook, delete_webhook,
    intensity_stream}

(* require_api_key *)
NeedsKey(call) == call.route \in {"list_webhooks", "create_webhook", "delete_webhook"}

(* send_checked: a success is passed on, any other status is an error with  *)
(* the problem of the body, or one that only has the status when the body   *)
(* is not a problem document.                                               *)
Passed(answer) == answer.status \in 200 .. 299
Fallback(status) == [status |-> status, code |-> "none"]
ProblemOf(answer) ==
    IF answer.body = "ProblemDetails" THEN [status |-> answer.status, code |-> answer.code] ELSE Fallback(answer.status)

(* CarbonFrError::code and status, of Api only. *)
Api(answer) == [error |-> "Api"] @@ ProblemOf(answer)
Decode == [error |-> "Decode", status |-> 0, code |-> "none"]
Config == [error |-> "Config", status |-> 0, code |-> "none"]
NoError == [error |-> "none", status |-> 0, code |-> "none"]

(* request_json: the body of a success is decoded; delete_webhook drops it. *)
Returned(call, answer, decodes) ==
    IF ~Passed(answer) THEN Api(answer)
    ELSE IF call.returns = "none" \/ decodes THEN NoError ELSE Decode
=============================================================================
