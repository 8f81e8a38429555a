------------------------------- MODULE ApiSchema -------------------------------
(***************************************************************************)
(* The documents the server writes: the structures of adapter-http/dto.rs, *)
(* one definition each, and the words its enumerations are written with.   *)
(***************************************************************************)
EXTENDS Wire

RegionSlug == Scalar("Region")
MethodologyId == Scalar("Methodology")
Label == Scalar("IntensityIndex")
Direction == Scalar("FlowDirection")
Side == Scalar("ThresholdDirection")

(* Region::slug, from_code, IntensityIndexLabel, flow_direction and the     *)
(* other enumerations written as words.                                     *)
RegionWords == {"national", "auvergne-rhone-alpes", "bourgogne-franche-comte", "bretagne",
    "centre-val-de-loire", "grand-est", "hauts-de-france", "ile-de-france", "normandie",
    "nouvelle-aquitaine", "occitanie", "pays-de-la-loire", "provence-alpes-cote-d-azur"}
IntensityIndexWords == {"very-low", "low", "moderate", "high", "very-high"}
ProvenanceWords == {"observed", "forecast"}
MethodologyWords == {"rte-direct", "acv-ademe"}
EstimatorWords == {"central", "prudent"}
FrameworkWords == {"rfnbo", "low-carbon"}
IntervalWords == {"hour", "day"}
FlowDirectionWords == {"import", "export", "balanced"}
ThresholdDirectionWords == {"below", "above"}
WebhookStatusWords == {"active", "disabled"}
VerdictWords == {"pass", "fail", "indeterminate"}
Words == [
    Region |-> RegionWords, IntensityIndex |-> IntensityIndexWords, Provenance |-> ProvenanceWords,
    Methodology |-> MethodologyWords, Estimator |-> EstimatorWords, Framework |-> FrameworkWords, Interval |-> IntervalWords,
    FlowDirection |-> FlowDirectionWords, ThresholdDirection |-> ThresholdDirectionWords, WebhookStatus |-> WebhookStatusWords, Verdict |-> VerdictWords]

IntensityValue == [value |-> Num, unit |-> Text]

IntensityResponse == [
    region |-> RegionSlug, timestamp |-> Instant, intensity |-> One("IntensityValue"), index |-> Label,
    methodology |-> MethodologyId, methodology_version |-> Count, vintage |-> Text]

IntensityAllResponse == [
    methodology |-> MethodologyId, methodology_version |-> Count, count |-> Count,
    regions |-> Many("IntensityResponse")]

HistoryPoint == [timestamp |-> Instant, intensity |-> Num, index |-> Label, vintage |-> Text]

HistoryResponse == Each({"from", "to"}, Instant) @@ [
    region |-> RegionSlug, unit |-> Text, methodology |-> MethodologyId, count |-> Count,
    data |-> Many("HistoryPoint")]

StatsBucket == Each({"average", "min", "max"}, Num) @@ [start |-> Instant, count |-> Count]

StatsResponse == Each({"from", "to"}, Instant) @@ Each({"average", "min", "max"}, Num) @@ [
    region |-> RegionSlug, unit |-> Text, methodology |-> MethodologyId, count |-> Count,
    interval |-> Maybe(Scalar("Interval")), intervals |-> Maybe(Many("StatsBucket"))]

ForecastPointBody == Each({"expected", "lower", "upper"}, Num) @@ [timestamp |-> Instant, index |-> Label]

ForecastResponse == Each({"model", "unit"}, Text) @@ Each({"horizon_hours", "count"}, Count) @@ [
    region |-> RegionSlug, methodology |-> MethodologyId, from |-> Instant,
    data |-> Many("ForecastPointBody")]

GreenestWindowResponse == Each({"start", "end"}, Instant) @@ Each({"model", "unit"}, Text) @@ [
    region |-> RegionSlug, methodology |-> MethodologyId, average_intensity |-> Num,
    eligibility |-> Maybe(One("EligibilityBody"))]

EligibleSlotBody ==
    Each({"intensity", "intensity_lower", "intensity_upper", "score"}, Num) @@ [timestamp |-> Instant]

EligibilitySlotBody == EligibleSlotBody @@ [eligible |-> Bool, signals |-> Many("EligibilitySignalBody")]

EligibilitySignalBody ==
    Each({"value", "value_lower", "value_upper", "threshold"}, Maybe(Num)) @@ [
    pillar |-> Text, verdict |-> Scalar("Verdict"), basis |-> Text,
    provenance |-> Maybe(Scalar("Provenance")), reason |-> Maybe(Text)]

EligibilityBody ==
    Each({"ruleset_version", "ruleset_status", "bidding_zone", "disclaimer"}, Text)
    @@ Each({"overridden", "window_eligible"}, Bool) @@ Each({"count_eligible", "count_indeterminate"}, Count) @@ [
    framework |-> Scalar("Framework"), share_model |-> Maybe(Text),
    best_eligible |-> Maybe(One("EligibleSlotBody")), slots |-> Many("EligibilitySlotBody")]

RulesetInfo ==
    Each({"version", "status", "adr", "granularity", "legal_basis", "description"}, Text)
    @@ Each({"article4_renewable_threshold", "surplus_price_eur_mwh",
             "low_carbon_intensity_threshold_g_per_kwh", "electrolyzer_kwh_per_kg"}, Maybe(Num)) @@ [
    framework |-> Scalar("Framework"), hourly_switchover |-> Maybe(Text),
    low_carbon_intensity_is_indicative |-> Bool]

RulesetsResponse == [rulesets |-> Many("RulesetInfo"), disclaimer |-> Text]

SlotBody == [timestamp |-> Instant, intensity |-> Num]

SlotsResponse == Each({"model", "unit"}, Text) @@ [
    region |-> RegionSlug, methodology |-> MethodologyId, estimator |-> Scalar("Estimator"),
    count |-> Count, slots |-> Many("SlotBody")]

SavingsBody ==
    Each({"now", "scheduled", "intensity_delta", "reduction_percent"}, Num) @@ [absolute_saved_g |-> Maybe(Num)]

ScheduleResponse == Each({"start", "end"}, Instant) @@ Each({"model", "unit"}, Text) @@ [
    region |-> RegionSlug, methodology |-> MethodologyId, estimator |-> Scalar("Estimator"),
    average_intensity |-> Num, savings |-> One("SavingsBody")]

MixBody == Each({"nucleaire", "gaz", "charbon", "fioul", "hydraulique", "eolien", "solaire",
                 "bioenergies", "pompage", "echanges"}, Num) @@ [thermique |-> Maybe(Num)]

MixShareBody == Each({"filiere", "label"}, Text) @@ Each({"share", "output_mw"}, Num)

MixResponse == [
    region |-> RegionSlug, timestamp |-> Instant, unit |-> Text, mix |-> One("MixBody"),
    shares |-> Many("MixShareBody")]

ExchangeEntry == [
    country |-> Text, country_name |-> Text, flow_mw |-> Num, direction |-> Direction,
    intensity |-> One("IntensityValue")]

ExchangesResponse == Each({"net_flow_mw", "imports_mw", "exports_mw"}, Num) @@ [
    timestamp |-> Instant, direction |-> Direction, exchanges |-> Many("ExchangeEntry")]

ExchangesHistoryResponse ==
    Each({"from", "to"}, Instant) @@ [count |-> Count, snapshots |-> Many("ExchangesResponse")]

WeatherPoint == Each({"valid_at", "run_at"}, Instant) @@ Each({"wind_kmh", "irradiance_wm2"}, Num)

WeatherResponse == WeatherPoint @@ [source |-> Text]

WeatherHistoryResponse ==
    Each({"from", "to"}, Instant) @@ [source |-> Text, count |-> Count, points |-> Many("WeatherPoint")]

RenewableModelInfo == Each({"wind_capacity_mw", "solar_capacity_mw"}, Num)

RenewableResponse ==
    Each({"wind_mw", "solar_mw", "wind_capacity_factor", "solar_capacity_factor"}, Num) @@ [
    source |-> Text, at |-> Instant, model |-> One("RenewableModelInfo")]

MethodologyInfo == Each({"id", "basis", "scope", "status", "adr", "description"}, Text) @@ [
    version |-> Count, default |-> Bool]

MethodologiesResponse == [methodologies |-> Many("MethodologyInfo")]

RegionInfo == [slug |-> RegionSlug, label |-> Text, insee_code |-> Nullable(Text), national |-> Bool]

RegionsResponse == [regions |-> Many("RegionInfo")]

FactorEntry == [filiere |-> Text, factor |-> Num]

FactorsResponse == Each({"unit", "source"}, Text) @@ [
    methodology |-> MethodologyId, methodology_version |-> Count, factors |-> Many("FactorEntry"),
    td_loss_factor |-> Nullable(Num)]

IndexBand == Each({"min", "max"}, Nullable(Num)) @@ [label |-> Label, description |-> Text]

IndexThreshold == Each({"below", "above"}, Label) @@ Each({"source", "url"}, Text) @@ [value |-> Num]

IntensityIndexResponse == Each({"unit", "note", "source"}, Text) @@ [
    version |-> Count, bands |-> Many("IndexBand"), thresholds |-> Many("IndexThreshold")]

PriceComponentBody == Each({"kind", "label", "source"}, Text) @@ [amount_eur_mwh |-> Num]

MarginalTechnologyBody == Each({"filiere", "label", "method"}, Text) @@ [estimated |-> Bool]

PriceContextBody == [
    mix |-> Many("MixShareBody"), marginal_technology |-> Nullable(One("MarginalTechnologyBody"))]

PriceResponse ==
    Each({"vintage", "unit", "currency", "disclaimer"}, Text) @@ Each({"total_eur_mwh", "total_eur_kwh"}, Num) @@ [
    region |-> RegionSlug, timestamp |-> Instant, components |-> Many("PriceComponentBody"),
    context |-> One("PriceContextBody")]

PricePointBody == Each({"energie_eur_mwh", "total_eur_mwh"}, Num) @@ [timestamp |-> Instant]

PriceHistoryResponse == Each({"from", "to"}, Instant) @@ Each({"unit", "currency"}, Text) @@ [
    count |-> Count, points |-> Many("PricePointBody")]

CostAssumptionsBody == Each({"discount_rate", "load_factor"}, Nullable(Num)) @@ [lifetime_years |-> Nullable(Count)]

LcoeRangeBody == Each({"min", "median", "max"}, Num) @@ [unit |-> Text]

CostReferenceEntry ==
    Each({"technology", "technology_label", "source", "source_label", "source_attribution", "geography",
          "perimeter", "perimeter_label", "basis", "basis_label", "kind"}, Text)
    @@ Each({"technology_source_count", "vintage"}, Count)
    @@ [range |-> One("LcoeRangeBody"), hypotheses |-> One("CostAssumptionsBody")]

CostReferenceResponse ==
    Each({"unit", "currency", "kind", "disclaimer"}, Text) @@ [count |-> Count, entries |-> Many("CostReferenceEntry")]

VisitStatsResponse == Each({"unique", "total"}, Count) @@ [since |-> Maybe(Text)]

CreatedWebhookResponse == Each({"id", "secret", "callback_url"}, Text) @@ [
    region |-> RegionSlug, threshold |-> Num, direction |-> Side]

WebhookSummary == Each({"id", "callback_url"}, Text) @@ [
    region |-> RegionSlug, threshold |-> Num, direction |-> Side, status |-> Scalar("WebhookStatus"),
    disabled_at |-> Nullable(Instant)]

WebhookListResponse == [count |-> Count, webhooks |-> Many("WebhookSummary")]

StreamEventBody == [
    region |-> RegionSlug, timestamp |-> Instant, intensity |-> Num, index |-> Label,
    methodology |-> MethodologyId, methodology_version |-> Count, unit |-> Text]

ProblemDetails == Each({"type", "title", "detail", "code"}, Text) @@ [status |-> Count]

(* What the server reads: a body whose absent fields are refused unless they are options. *)
CreateWebhookRequest ==
    [region |-> Optional(Text), threshold |-> Num, direction |-> Text, callback_url |-> Text]
=============================================================================
