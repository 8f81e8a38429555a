------------------------------ MODULE ApiContract ------------------------------
(***************************************************************************)
(* A request from the client library, or from any other client, through    *)
(* the routes of the server to the document the library reads: the two     *)
(* schemas, the parameters and the statuses are written twice in the       *)
(* repository, once in adapter-http and once in sdk, and nothing but this  *)
(* agreement keeps the ends together.                                       *)
(***************************************************************************)
EXTENDS ApiRoutes, SdkCalls

A == INSTANCE ApiSchema
S == INSTANCE SdkSchema

Sent == [
    IntensityValue |-> A!IntensityValue, IntensityResponse |-> A!IntensityResponse,
    IntensityAllResponse |-> A!IntensityAllResponse, HistoryPoint |-> A!HistoryPoint,
    HistoryResponse |-> A!HistoryResponse, StatsBucket |-> A!StatsBucket, StatsResponse |-> A!StatsResponse,
    ForecastPointBody |-> A!ForecastPointBody, ForecastResponse |-> A!ForecastResponse,
    GreenestWindowResponse |-> A!GreenestWindowResponse, EligibleSlotBody |-> A!EligibleSlotBody,
    EligibilitySlotBody |-> A!EligibilitySlotBody, EligibilitySignalBody |-> A!EligibilitySignalBody,
    EligibilityBody |-> A!EligibilityBody, RulesetInfo |-> A!RulesetInfo, RulesetsResponse |-> A!RulesetsResponse,
    SlotBody |-> A!SlotBody, SlotsResponse |-> A!SlotsResponse, SavingsBody |-> A!SavingsBody,
    ScheduleResponse |-> A!ScheduleResponse, MixBody |-> A!MixBody, MixShareBody |-> A!MixShareBody,
    MixResponse |-> A!MixResponse, ExchangeEntry |-> A!ExchangeEntry, ExchangesResponse |-> A!ExchangesResponse,
    ExchangesHistoryResponse |-> A!ExchangesHistoryResponse, WeatherPoint |-> A!WeatherPoint,
    WeatherResponse |-> A!WeatherResponse, WeatherHistoryResponse |-> A!WeatherHistoryResponse,
    RenewableModelInfo |-> A!RenewableModelInfo, RenewableResponse |-> A!RenewableResponse,
    MethodologyInfo |-> A!MethodologyInfo, MethodologiesResponse |-> A!MethodologiesResponse,
    RegionInfo |-> A!RegionInfo, RegionsResponse |-> A!RegionsResponse, FactorEntry |-> A!FactorEntry,
    FactorsResponse |-> A!FactorsResponse, IndexBand |-> A!IndexBand, IndexThreshold |-> A!IndexThreshold,
    IntensityIndexResponse |-> A!IntensityIndexResponse, PriceComponentBody |-> A!PriceComponentBody,
    MarginalTechnologyBody |-> A!MarginalTechnologyBody, PriceContextBody |-> A!PriceContextBody,
    PriceResponse |-> A!PriceResponse, PricePointBody |-> A!PricePointBody,
    PriceHistoryResponse |-> A!PriceHistoryResponse, CostAssumptionsBody |-> A!CostAssumptionsBody,
    LcoeRangeBody |-> A!LcoeRangeBody, CostReferenceEntry |-> A!CostReferenceEntry,
    CostReferenceResponse |-> A!CostReferenceResponse, VisitStatsResponse |-> A!VisitStatsResponse,
    CreatedWebhookResponse |-> A!CreatedWebhookResponse, WebhookSummary |-> A!WebhookSummary,
    WebhookListResponse |-> A!WebhookListResponse, StreamEventBody |-> A!StreamEventBody,
    ProblemDetails |-> A!ProblemDetails, CreateWebhookRequest |-> A!CreateWebhookRequest]

Read == [
    IntensityValue |-> S!IntensityValue, IntensityResponse |-> S!IntensityResponse,
    IntensityAllResponse |-> S!IntensityAllResponse, HistoryPoint |-> S!HistoryPoint,
    HistoryResponse |-> S!HistoryResponse, StatsBucket |-> S!StatsBucket, StatsResponse |-> S!StatsResponse,
    SlotBody |-> S!SlotBody, SlotsResponse |-> S!SlotsResponse, ForecastPointBody |-> S!ForecastPointBody,
    ForecastResponse |-> S!ForecastResponse, EligibilitySignalBody |-> S!EligibilitySignalBody,
    EligibleSlotBody |-> S!EligibleSlotBody, EligibilitySlotBody |-> S!EligibilitySlotBody,
    EligibilityBody |-> S!EligibilityBody, GreenestWindowResponse |-> S!GreenestWindowResponse,
    SavingsBody |-> S!SavingsBody, ScheduleResponse |-> S!ScheduleResponse, MixBody |-> S!MixBody,
    MixShareBody |-> S!MixShareBody, MixResponse |-> S!MixResponse, ExchangeEntry |-> S!ExchangeEntry,
    ExchangesResponse |-> S!ExchangesResponse, ExchangesHistoryResponse |-> S!ExchangesHistoryResponse,
    WeatherPoint |-> S!WeatherPoint, WeatherResponse |-> S!WeatherResponse,
    WeatherHistoryResponse |-> S!WeatherHistoryResponse, RenewableModelInfo |-> S!RenewableModelInfo,
    RenewableResponse |-> S!RenewableResponse, MethodologyInfo |-> S!MethodologyInfo,
    MethodologiesResponse |-> S!MethodologiesResponse, RegionInfo |-> S!RegionInfo,
    RegionsResponse |-> S!RegionsResponse, FactorEntry |-> S!FactorEntry, FactorsResponse |-> S!FactorsResponse,
    IndexBand |-> S!IndexBand, IndexThreshold |-> S!IndexThreshold,
    IntensityIndexResponse |-> S!IntensityIndexResponse, PriceComponentBody |-> S!PriceComponentBody,
    PriceMixShareBody |-> S!PriceMixShareBody, MarginalTechnologyBody |-> S!MarginalTechnologyBody,
    PriceContextBody |-> S!PriceContextBody, PriceResponse |-> S!PriceResponse, PricePointBody |-> S!PricePointBody,
    PriceHistoryResponse |-> S!PriceHistoryResponse, CostAssumptionsBody |-> S!CostAssumptionsBody,
    LcoeRangeBody |-> S!LcoeRangeBody, CostReferenceEntry |-> S!CostReferenceEntry,
    CostReferenceResponse |-> S!CostReferenceResponse, RulesetInfo |-> S!RulesetInfo,
    RulesetsResponse |-> S!RulesetsResponse, VisitStatsResponse |-> S!VisitStatsResponse,
    CreatedWebhookResponse |-> S!CreatedWebhookResponse, WebhookSummary |-> S!WebhookSummary,
    WebhookListResponse |-> S!WebhookListResponse, IntensityEvent |-> S!IntensityEvent,
    ProblemDetails |-> S!ProblemDetails, CreateWebhookRequest |-> S!CreateWebhookRequest]

(* The catalogues a later server may extend.                                *)
Extensible == {"Region", "IntensityIndex", "Provenance"}

(* What the type of a field writes, an older server (<= 0.10, without index *)
(* nor shares) and a later one (with words not yet known) included.         *)
Json(json, is) == [json |-> json, is |-> is]
Plain(t) ==
    CASE t = "Num" -> {Json("float", "number")}
      [] t = "Count" -> {Json("int", "number")}
      [] t = "Bool" -> {Json("bool", "bool")}
      [] t = "Text" -> {Json("string", "text")}
      [] t = "Instant" -> {Json("string", "instant")}
      [] OTHER -> {Json("string", w) : w \in A!Words[t] \cup (IF t \in Extensible THEN {"word of a later server"} ELSE {})}

Present(t) ==
    IF t.shape = "scalar" THEN Plain(t.of) ELSE {Json(IF t.shape = "one" THEN "object" ELSE "array", t.of)}

Written(f, t) == Present(t)
    \cup (IF t.when = "maybe" \/ f \in {"index", "shares"} THEN {Missing} ELSE {})
    \cup (IF t.when = "nullable" THEN {Null} ELSE {})

(* What serde makes of it: TRUE when the field is read.                     *)
ReadsScalar(of, v) ==
    CASE of = "Num" -> v.json \in {"float", "int"}
      [] of = "Count" -> v.json = "int"
      [] of = "Bool" -> v.json = "bool"
      [] of = "Text" -> v.json = "string"
      [] of = "Instant" -> v.json = "string" /\ v.is = "instant"
      [] OTHER -> v.json = "string" /\ (v.is \in S!Known[of] \/ of \in S!Open)

Reads(t, v) ==
    IF v = Missing THEN t.when \in {"optional", "defaulted"}
    ELSE IF v = Null THEN t.when \in {"optional", "present"}
    ELSE CASE t.shape = "scalar" -> ReadsScalar(t.of, v)
           [] t.shape = "one" -> v.json = "object"
           [] t.shape = "many" -> v.json = "array"

(* The structures of a document: what is written in each place, and as what *)
(* it is read.                                                               *)
Within(pair) ==
    {<<Sent[pair[1]][f].of, Read[pair[2]][f].of>> :
        f \in {f \in DOMAIN Sent[pair[1]] \cap DOMAIN Read[pair[2]] : Sent[pair[1]][f].shape # "scalar"}}
Deeper(pairs) == pairs \cup UNION {Within(p) : p \in pairs}
Structures(written, read) == Deeper(Deeper(Deeper(Deeper({<<written, read>>}))))


CallOf(route) == CHOOSE call \in Calls : call.route = route
Answered == {route \in DOMAIN Routes : Routes[route].body \in DOMAIN Sent}
StructuresOf == [route \in Answered |-> Structures(Routes[route].body, CallOf(route).returns)]

(* A document is ordinary but for one field, which holds any of its values. *)
Documents == [route \in Answered |->
    UNION {UNION {{[in |-> p, field |-> f, holds |-> v] : v \in Written(f, Sent[p[1]][f])} : f \in DOMAIN Sent[p[1]]}
           : p \in StructuresOf[route]}]

(* The values a parameter is given: an ordinary one, accepted whatever the  *)
(* other parameters, and others, refused by some routes.                    *)
Ordinary == [
    region |-> "national", methodology |-> "acv-ademe", version |-> 1, from |-> 0, to |-> 1, format |-> "json",
    interval |-> "day", horizon_hours |-> 24, window_minutes |-> 30, duration_minutes |-> 30, deadline |-> 1,
    estimator |-> "prudent", eligibility |-> "rfnbo", eligibility_version |-> "in", surplus_price_eur_mwh |-> "in",
    low_carbon_threshold_g_per_kwh |-> "in", electrolyzer_kwh_per_kg |-> "in", energy_kwh |-> "in", count |-> 1,
    threshold |-> "in", below |-> "in", source |-> "in", technology |-> "in", perimeter |-> "in", vintage |-> 2025,
    direction |-> "below", callback_url |-> "in", id |-> "in"]

Others(p) ==
    CASE p = "region" -> {"bretagne", "atlantis"}
      [] p = "methodology" -> {"rte-direct", "gas"}
      [] p = "version" -> {2, 3}
      [] p = "from" -> {Unreadable, 1}
      [] p = "to" -> {92, 93, 366, 367}
      [] p \in {"format"} -> {"csv", "xml"}
      [] p = "interval" -> {"hour", "week"}
      [] p = "horizon_hours" -> {0, 72, 73}
      [] p \in {"window_minutes", "duration_minutes"} -> {0, 1441, 4321}
      [] p = "deadline" -> {Unreadable}
      [] p = "estimator" -> {"central", "greedy"}
      [] p = "eligibility" -> {"low-carbon", "green"}
      [] p = "count" -> {0}
      [] p = "direction" -> {"above", "sideways"}
      [] p = "vintage" -> {2024}
      [] OTHER -> {"out"}

Choices(p) == {[name \in {p} |-> v] : v \in {Ordinary[p]} \cup Others(p)}
Give(ps) == [p \in ps |-> Ordinary[p]]

(* The required parameters, on either basis, with any value of one or two   *)
(* parameters; or all the options at once.                                  *)
Consumption(all) == IF "version" \in all THEN {[version |-> 2, methodology |-> "acv-ademe"]} ELSE {}
Queries(required, all) ==
    {Give(all)} \cup {a @@ b @@ basis @@ Give(required) :
        a, b \in UNION {Choices(p) : p \in all}, basis \in {Give({})} \cup Consumption(all)}
    \cup {basis @@ Give(required) : basis \in {Give({})} \cup Consumption(all)}

Accepts == [any |-> [csv |-> 0, json |-> 0-1, csvFirst |-> FALSE],
            csv |-> [csv |-> 1000, json |-> 0-1, csvFirst |-> FALSE],
            either |-> [csv |-> 1000, json |-> 1000, csvFirst |-> FALSE]]
PlainDate == Give({"from", "to"})

VARIABLES
    asked,      \* the request: who asks, the route, the parameters, the key and the Accept header
    answer,     \* the status, the body and the code of the answer, and what was read for it
    document,   \* the document of the answer
    result,     \* what the library returns to its caller
    shared      \* what a shared cache kept of PlainDate, by the Accept header it was asked with

callVars == <<asked, answer, document, result, shared>>

Nobody == [client |-> "none", route |-> "none", query |-> Give({}), key |-> "none", accept |-> "any"]
NoAnswer == [status |-> 0, body |-> "none", code |-> "none", basis |-> "none", days |-> 0, hours |-> 0]
NoDocument == [in |-> <<"none", "none">>, field |-> "none", holds |-> Missing]
NoResult == [error |-> "none", status |-> 0-1, code |-> "none"]
NothingKept == [any |-> "none", csv |-> "none", either |-> "none"]

CallsInit ==
    /\ asked = Nobody /\ answer = NoAnswer /\ document = NoDocument /\ result = NoResult
    /\ shared = NothingKept

(* The shared cache forgets before anything but PlainDate is asked.         *)
Ask(request) ==
    /\ asked' = request
    /\ shared' = IF request.route = "intensity_date" /\ request.query = PlainDate THEN shared ELSE NothingKept
    /\ UNCHANGED <<answer, document>>

AskCall == asked = Nobody /\ \E call \in Calls : \E q \in Queries(call.gives, call.gives \cup call.options) :
    \E key \in IF NeedsKey(call) THEN {"none", "unknown", "known"} ELSE {"none"} :
        /\ Ask([client |-> "sdk", route |-> call.route, query |-> q, key |-> key, accept |-> "any"])
        /\ result' = IF NeedsKey(call) /\ key = "none" THEN Config ELSE result

AskOther == asked = Nobody /\ \E route \in DOMAIN Routes : \E omits \in SUBSET CallOf(route).gives :
    \E q \in Queries(CallOf(route).gives \ omits, Routes[route].reads \ omits) :
    \E accept \in IF route = "intensity_date" THEN DOMAIN Accepts ELSE {"any"} :
        /\ Ask([client |-> "other", route |-> route, query |-> q, key |-> "none", accept |-> accept])
        /\ UNCHANGED result

Waiting == asked # Nobody /\ answer = NoAnswer /\ result = NoResult

(* The handler answers; CSV is a document the schemas know nothing of.      *)
Handled(handler, outcome) ==
    outcome @@ [basis |-> handler.basis, days |-> handler.days, hours |-> handler.hours]

Formatted(outcome) ==
    IF outcome.body = "HistoryResponse" /\ FormatOf(asked.query, Accepts[asked.accept]) = "csv"
    THEN [outcome EXCEPT !.body = "csv"] ELSE outcome

AnswerWith(a) == answer' = a /\ UNCHANGED <<asked, document, result>>

AnswerRequest(db, wired) ==
    /\ Waiting /\ ~NeedsKey(asked)
    /\ LET handler == HandlerOf(asked.route, asked.query, wired)
           outcome == Formatted(Outcome(asked.route, handler, db))
       IN  /\ AnswerWith(Handled(handler, outcome))
           /\ shared' = IF asked.query = PlainDate /\ asked.route = "intensity_date" /\ Cacheable(asked.route, outcome.status)
                        THEN [shared EXCEPT ![asked.accept] = outcome.body] ELSE shared

AnswerWebhook(found) ==
    /\ Waiting /\ NeedsKey(asked)
    /\ AnswerWith(Handled(Catalogue(asked.query),
           CASE asked.route = "create_webhook" -> CreateWebhook(asked.query, asked.key)
             [] asked.route = "list_webhooks" -> ListWebhooks(asked.query, asked.key)
             [] asked.route = "delete_webhook" -> DeleteWebhook(asked.query, asked.key, found)))
    /\ UNCHANGED shared

(* A cache on the way answers with what it kept, under the same Accept      *)
(* header when the answer varies with it.                                   *)
AnswerKept == \E accept \in DOMAIN shared :
    /\ Waiting /\ asked.query = PlainDate /\ shared[accept] # "none"
    /\ VariesOnAccept("intensity_date") => accept = asked.accept
    /\ AnswerWith(Handled(IntensityDate(asked.query), [Success(asked.route) EXCEPT !.body = shared[accept]]))
    /\ UNCHANGED shared

(* A gateway answers in place of the server, with a page of its own.        *)
AnswerGateway ==
    /\ Waiting
    /\ AnswerWith(Handled(Catalogue(asked.query), [status |-> 502, body |-> "page", code |-> "none"]))
    /\ UNCHANGED shared

(* The document of a success; the parameters asked are forgotten.           *)
WriteDocument ==
    /\ answer # NoAnswer /\ Passed(answer) /\ document = NoDocument /\ asked.client = "sdk" /\ result = NoResult
    /\ answer.body \in DOMAIN Sent
    /\ document' \in Documents[asked.route]
    /\ asked' = [asked EXCEPT !.query = Give({})]
    /\ answer' = Handled(Catalogue(asked.query), Success(asked.route))
    /\ UNCHANGED <<result, shared>>

Decodes == document # NoDocument
    /\ document.field \in DOMAIN Read[document.in[2]] =>
           Reads(Read[document.in[2]][document.field], document.holds)

(* What the library waits for and the server never writes.                  *)
Decoded == Decodes /\ \A pair \in StructuresOf[asked.route] :
    \A f \in DOMAIN Read[pair[2]] \ DOMAIN Sent[pair[1]] : Reads(Read[pair[2]][f], Missing)

ReadDocument ==
    /\ answer # NoAnswer /\ asked.client = "sdk" /\ result = NoResult
    /\ Passed(answer) /\ answer.body \in DOMAIN Sent => document # NoDocument
    /\ result' = Returned(CallOf(asked.route), answer, document # NoDocument /\ Decoded)
    /\ UNCHANGED <<asked, answer, document, shared>>

Again ==
    /\ result # NoResult \/ (asked.client = "other" /\ answer # NoAnswer)
    /\ asked' = Nobody /\ answer' = NoAnswer /\ document' = NoDocument /\ result' = NoResult
    /\ UNCHANGED shared

CallsNext ==
    \/ AskCall \/ AskOther
    \/ \E db \in {"up", "empty", "down"}, wired \in BOOLEAN : AnswerRequest(db, wired)
    \/ \E found \in BOOLEAN : AnswerWebhook(found)
    \/ AnswerKept \/ AnswerGateway \/ WriteDocument \/ ReadDocument \/ Again

CallsSpec == CallsInit /\ [][CallsNext]_callVars

(* Whatever the server may write, the library reads it, and an error comes  *)
(* out with the status and the code it left the server with: whatever the   *)
(* release of the server, the field left out or null, and the cache between.*)
AnswerDecoded == result \notin {NoResult, Config} =>
    IF Passed(answer) THEN result = NoError
    ELSE result.error = "Api" /\ result.status = answer.status /\ result.code = answer.code

(* No name the library gives is unknown to the route it asks, and a request *)
(* whose values are all acceptable is accepted, alone or all together.      *)
Ordinarily == \A p \in DOMAIN asked.query : asked.query[p] = Ordinary[p]
CallsUnderstood == [][
    answer = NoAnswer /\ answer' # NoAnswer /\ asked.client = "sdk" =>
        /\ DOMAIN asked.query \subseteq Routes[asked.route].reads
        /\ Ordinarily => answer'.status # 400]_callVars

(* A series is answered on the basis asked: consumption when the request    *)
(* asks the second version of acv-ademe, production otherwise.              *)
VersionServedAsAsked == [][
    answer = NoAnswer /\ answer'.status = 200 /\ answer'.basis # "none" =>
        (answer'.basis = "consumption" <=>
            /\ Get(asked.query, "version", 0) = 2
            /\ Get(asked.query, "methodology", IF asked.route = "factors" THEN "acv-ademe" ELSE "rte-direct")
                = "acv-ademe")]_callVars

(* No request makes the server read more than 366 days, more than 92 when   *)
(* the points are not aggregated, nor forecast more than 72 hours.          *)
ReadsBounded == [][
    /\ answer'.days <= IF answer'.basis = "production" THEN 366 ELSE 92
    /\ answer'.hours <= 72]_callVars
=============================================================================
