------------------------------- MODULE SdkSchema -------------------------------
(***************************************************************************)
(* The documents the Rust client reads: the structures of sdk/dto.rs, one  *)
(* definition each, and how its enumerations read a word: the open ones    *)
(* keep a word they do not know, the others refuse the whole document.     *)
(***************************************************************************)
EXTENDS Wire

Place == Scalar("Region")
Method == Scalar("Methodology")
Band == Scalar("IntensityIndex")
Flow == Scalar("FlowDirection")
Crossing == Scalar("ThresholdDirection")

OpenBands == {"Region", "Provenance"}

Open == {"Region", "IntensityIndex", "Provenance"}

RegionWords == {"national", "auvergne-rhone-alpes", "bourgogne-franche-comte", "bretagne",
    "centre-val-de-loire", "grand-est", "hauts-de-france", "ile-de-france", "normandie",
    "nouvelle-aquitaine", "occitanie", "pays-de-la-loire", "provence-alpes-cote-d-azur"}
IntensityIndexWords == {"very-low", "low", "moderate", "high", "very-high"}
ProvenanceWords == {"observed", "forecast"}
MethodologyWords == {"rte-direct", "acv-ademe"}
EstimatorWords == {"central", "prudent"}
FrameworkWords == {"rfnbo", "low-carbon"}
IntervalWords == {"hour", "day"}
FlowDirectionWords == {"import", "export", "balanced"}
ThresholdDirectionWords == {"below", "above"}
WebhookStatusWords == {"active", "disabled"}
VerdictWords == {"pass", "fail", "indeterminate"}
Known == [
    Region |-> RegionWords, IntensityIndex |-> IntensityIndexWords, Provenance |-> ProvenanceWords,
    Methodology |-> MethodologyWords, Estimator |-> EstimatorWords, Framework |-> FrameworkWords, Interval |-> IntervalWords,
    FlowDirection |-> FlowDirectionWords, ThresholdDirection |-> ThresholdDirectionWords, WebhookStatus |-> WebhookStatusWords, Verdict |-> VerdictWords]

IntensityValue == [value |-> Num, unit |-> Text]

IntensityResponse == [
    region |-> Place, timestamp |-> Instant, intensity |-> One("IntensityValue"), index |-> Optional(Band),
    methodology |-> Method, methodology_version |-> Count, vintage |-> Text]

IntensityAllResponse == [
    methodology |-> Method, methodology_version |-> Count, count |-> Count, regions |-> Many("IntensityResponse")]

HistoryPoint == [timestamp |-> Instant, intensity |-> Num, index |-> Optional(Band), vintage |-> Text]

HistoryResponse == Each({"from", "to"}, Instant) @@ [
    region |-> Place, unit |-> Text, methodology |-> Method, count |-> Count, data |-> Many("HistoryPoint")]

StatsBucket == [start |-> Instant, count |-> Count] @@ Each({"average", "min", "max"}, Num)

StatsResponse == Each({"from", "to"}, Instant) @@ Each({"average", "min", "max"}, Num) @@ [
    region |-> Place, unit |-> Text, methodology |-> Method, count |-> Count,
    interval |-> Optional(Scalar("Interval")), intervals |-> Optional(Many("StatsBucket"))]

SlotBody == [timestamp |-> Instant, intensity |-> Num]

SlotsResponse == Each({"model", "unit"}, Text) @@ [
    region |-> Place, methodology |-> Method, estimator |-> Scalar("Estimator"), count |-> Count,
    slots |-> Many("SlotBody")]

ForecastPointBody ==
    [timestamp |-> Instant, index |-> Optional(Band)] @@ Each({"expected", "lower", "upper"}, Num)

ForecastResponse == Each({"model", "unit"}, Text) @@ Each({"horizon_hours", "count"}, Count) @@ [
    region |-> Place, methodology |-> Method, from |-> Instant, data |-> Many("ForecastPointBody")]

EligibilitySignalBody == Each({"pillar", "basis"}, Text)
    @@ Each({"threshold", "value", "value_lower", "value_upper"}, Optional(Num)) @@ [
    verdict |-> Scalar("Verdict"), provenance |-> Optional(Scalar("Provenance")), reason |-> Optional(Text)]

EligibleSlotBody ==
    [timestamp |-> Instant] @@ Each({"intensity", "intensity_lower", "intensity_upper", "score"}, Num)

EligibilitySlotBody == EligibleSlotBody @@ [eligible |-> Bool, signals |-> Many("EligibilitySignalBody")]

EligibilityBody ==
    Each({"ruleset_version", "ruleset_status", "bidding_zone", "disclaimer"}, Text)
    @@ Each({"overridden", "window_eligible"}, Bool) @@ Each({"count_eligible", "count_indeterminate"}, Count) @@ [
    framework |-> Scalar("Framework"), slots |-> Many("EligibilitySlotBody"),
    best_eligible |-> Optional(One("EligibleSlotBody")), share_model |-> Optional(Text)]

GreenestWindowResponse == Each({"start", "end"}, Instant) @@ Each({"model", "unit"}, Text) @@ [
    region |-> Place, methodology |-> Method, average_intensity |-> Num,
    eligibility |-> Optional(One("EligibilityBody"))]

SavingsBody == [absolute_saved_g |-> Optional(Num)]
    @@ Each({"now", "scheduled", "intensity_delta", "reduction_percent"}, Num)

ScheduleResponse == Each({"start", "end"}, Instant) @@ Each({"model", "unit"}, Text) @@ [
    region |-> Place, methodology |-> Method, estimator |-> Scalar("Estimator"), average_intensity |-> Num,
    savings |-> One("SavingsBody")]

MixBody == [thermique |-> Optional(Num)] @@ Each({"nucleaire", "gaz", "charbon", "fioul", "hydraulique",
    "eolien", "solaire", "bioenergies", "pompage", "echanges"}, Num)

MixShareBody == Each({"filiere", "label"}, Text) @@ Each({"share", "output_mw"}, Num)

MixResponse == [
    region |-> Place, timestamp |-> Instant, unit |-> Text, mix |-> One("MixBody"),
    shares |-> Defaulted(Many("MixShareBody"))]

ExchangeEntry == Each({"country", "country_name"}, Text) @@ [
    flow_mw |-> Num, direction |-> Flow, intensity |-> One("IntensityValue")]

ExchangesResponse == Each({"net_flow_mw", "imports_mw", "exports_mw"}, Num) @@ [
    timestamp |-> Instant, direction |-> Flow, exchanges |-> Many("ExchangeEntry")]

ExchangesHistoryResponse ==
    Each({"from", "to"}, Instant) @@ [count |-> Count, snapshots |-> Many("ExchangesResponse")]

WeatherPoint == Each({"valid_at", "run_at"}, Instant) @@ Each({"wind_kmh", "irradiance_wm2"}, Num)

WeatherResponse == WeatherPoint @@ [source |-> Text]

WeatherHistoryResponse ==
    Each({"from", "to"}, Instant) @@ [source |-> Text, count |-> Count, points |-> Many("WeatherPoint")]

RenewableModelInfo == Each({"wind_capacity_mw", "solar_capacity_mw"}, Num)

RenewableResponse == [source |-> Text, at |-> Instant, model |-> One("RenewableModelInfo")]
    @@ Each({"wind_mw", "solar_mw", "wind_capacity_factor", "solar_capacity_factor"}, Num)

MethodologyInfo == [version |-> Count, default |-> Bool]
    @@ Each({"id", "basis", "scope", "status", "adr", "description"}, Text)

MethodologiesResponse == [methodologies |-> Many("MethodologyInfo")]

RegionInfo == [slug |-> Place, label |-> Text, insee_code |-> Optional(Text), national |-> Bool]

RegionsResponse == [regions |-> Many("RegionInfo")]

FactorEntry == [filiere |-> Text, factor |-> Num]

FactorsResponse == Each({"unit", "source"}, Text) @@ [
    methodology |-> Method, methodology_version |-> Count, td_loss_factor |-> Optional(Num),
    factors |-> Many("FactorEntry")]

IndexBand == [label |-> Band, description |-> Text] @@ Each({"min", "max"}, Optional(Num))

IndexThreshold == [value |-> Num] @@ Each({"below", "above"}, Band) @@ Each({"source", "url"}, Text)

IntensityIndexResponse == Each({"unit", "note", "source"}, Text) @@ [
    version |-> Count, bands |-> Many("IndexBand"), thresholds |-> Many("IndexThreshold")]

PriceComponentBody == [amount_eur_mwh |-> Num] @@ Each({"kind", "label", "source"}, Text)

PriceMixShareBody == Each({"filiere", "label"}, Text) @@ Each({"share", "output_mw"}, Num)

MarginalTechnologyBody == [estimated |-> Bool] @@ Each({"filiere", "label", "method"}, Text)

PriceContextBody == [
    mix |-> Many("PriceMixShareBody"), marginal_technology |-> Optional(One("MarginalTechnologyBody"))]

PriceResponse ==
    Each({"vintage", "unit", "currency", "disclaimer"}, Text) @@ Each({"total_eur_mwh", "total_eur_kwh"}, Num) @@ [
    region |-> Place, timestamp |-> Instant, components |-> Many("PriceComponentBody"),
    context |-> One("PriceContextBody")]

PricePointBody == [timestamp |-> Instant] @@ Each({"energie_eur_mwh", "total_eur_mwh"}, Num)

PriceHistoryResponse == Each({"from", "to"}, Instant) @@ Each({"unit", "currency"}, Text) @@ [
    count |-> Count, points |-> Many("PricePointBody")]

CostAssumptionsBody ==
    [lifetime_years |-> Optional(Count)] @@ Each({"discount_rate", "load_factor"}, Optional(Num))

LcoeRangeBody == [unit |-> Text] @@ Each({"min", "median", "max"}, Num)

CostReferenceEntry ==
    Each({"technology", "technology_label", "source", "source_label", "source_attribution", "geography",
          "perimeter", "perimeter_label", "basis", "basis_label", "kind"}, Text)
    @@ Each({"technology_source_count", "vintage"}, Count)
    @@ [range |-> One("LcoeRangeBody"), hypotheses |-> One("CostAssumptionsBody")]

CostReferenceResponse ==
    Each({"unit", "currency", "kind", "disclaimer"}, Text) @@ [count |-> Count, entries |-> Many("CostReferenceEntry")]

RulesetInfo ==
    Each({"version", "status", "adr", "granularity", "legal_basis", "description"}, Text)
    @@ Each({"article4_renewable_threshold", "surplus_price_eur_mwh",
             "low_carbon_intensity_threshold_g_per_kwh", "electrolyzer_kwh_per_kg"}, Optional(Num)) @@ [
    framework |-> Scalar("Framework"), hourly_switchover |-> Optional(Text),
    low_carbon_intensity_is_indicative |-> Bool]

RulesetsResponse == [rulesets |-> Many("RulesetInfo"), disclaimer |-> Text]

VisitStatsResponse == Each({"unique", "total"}, Count) @@ [since |-> Optional(Text)]

CreatedWebhookResponse == Each({"id", "secret", "callback_url"}, Text) @@ [
    region |-> Place, threshold |-> Num, direction |-> Crossing]

WebhookSummary == Each({"id", "callback_url"}, Text) @@ [
    region |-> Place, threshold |-> Num, direction |-> Crossing, status |-> Scalar("WebhookStatus"),
    disabled_at |-> PresentOption(Instant)]

WebhookListResponse == [count |-> Count, webhooks |-> Many("WebhookSummary")]

IntensityEvent == Each({"region", "methodology", "unit"}, Text) @@ [
    timestamp |-> Instant, intensity |-> Num, index |-> Optional(Band), methodology_version |-> Count]

ProblemDetails == Each({"type", "title", "detail", "code"}, Optional(Text)) @@ [status |-> Optional(Count)]

(* What the client writes. *)
CreateWebhookRequest ==
    [region |-> Nullable(Place), threshold |-> Num, direction |-> Crossing, callback_url |-> Text]
=============================================================================
