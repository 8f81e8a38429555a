------------------------------ MODULE Climatology ------------------------------
(***************************************************************************)
(* The forecasts of the server, climatology@1 and acv-clim@1, reduced to   *)
(* what each point is computed from: floating-point values are abstracted, *)
(* the choice of the samples is not.  A point of climatology@1 is the mean *)
(* of the observations of its slot of the week plus the bias of the last   *)
(* observation, which fades with the time since that observation: its      *)
(* weight exp(-dt/tau) is kept as the distance dt.                         *)
(***************************************************************************)
EXTENDS Integers, FiniteSets

CONSTANTS
    Step,      \* native step of the series
    Week,      \* length of a week, a multiple of Step
    Weeks,     \* weeks of history a forecast reads
    Bands,     \* number of calibrated horizons, 0 when there are none
    MaxSteps,  \* a longer forecast is refused
    MaxAge,    \* oldest import context that may stand for an instant
    None

(* The instants of a semi-open range. *)
Within(instants, start, end) == {m \in instants : start <= m /\ m < end}

(* [from - N weeks, from): never the instant asked for, nor what follows *)
History(instants, from) == Within(instants, from - Weeks * Week, from)

(* week_slot *)
Slot(t) == (t % Week) \div Step

Latest(hist) == CHOOSE m \in hist : \A n \in hist : n <= m

(* Observations averaged for instant t: those of its slot, all of them for  *)
(* a slot never observed.                                                   *)
Samples(hist, t) ==
    LET same == {m \in hist : Slot(m) = Slot(t)}
    IN  IF same = {} THEN hist ELSE same

(* HorizonBands::at, the last calibrated horizon beyond the others; without *)
(* calibration, the dispersion of the slot if it has two samples.           *)
Band(hist, t, k) ==
    IF Bands > 0
    THEN [horizon |-> IF k < Bands THEN k ELSE Bands - 1, spread |-> {}]
    ELSE LET same == {m \in hist : Slot(m) = Slot(t)}
         IN  [horizon |-> None, spread |-> IF Cardinality(same) >= 2 THEN same ELSE hist]

(* One scalar: climatology of the slot, last observation, climatology of    *)
(* the slot of that observation, and the age of that observation at t, by   *)
(* which its bias fades; never negative, a history being before the points  *)
(* (Channel::build, Channel::at).                                           *)
Channel(hist, t) ==
    [mean |-> Samples(hist, t), anchor |-> Latest(hist), climoT0 |-> Samples(hist, Latest(hist)),
     age |-> t - Latest(hist)]

StepsOf(horizon) == (horizon + Step - 1) \div Step

Refused(horizon) == horizon <= 0 \/ horizon \div Step > MaxSteps

(* climatology_forecast: None when nothing can be predicted *)
Forecast(hist, from, horizon) ==
    IF hist = {} \/ Refused(horizon) THEN None
    ELSE [k \in 0 .. StepsOf(horizon) - 1 |->
            LET t == from + k * Step
            IN  [at |-> t, inputs |-> Channel(hist, t), band |-> Band(hist, t, k)]]

(* derive_consumption_series: the instants of the mix that have an import   *)
(* context, the last one before, unless it is too old.                      *)
ConsumptionInstants(mix, flows) ==
    {m \in mix : LET before == {f \in flows : f <= m}
                 IN  before # {} /\ m - Latest(before) <= MaxAge}

(* The dispersion is that of the derived series, if it has two samples.     *)
AcvBand(both, t, k) ==
    LET same == {m \in both : Slot(m) = Slot(t)}
    IN  IF Bands > 0 THEN Band(both, t, k)
        ELSE [horizon |-> None,
              spread |-> IF Cardinality(same) >= 2 THEN same
                         ELSE IF Cardinality(both) >= 2 THEN both ELSE {}]

(* acv_ademe_forecast: the mix and the imports predicted apart, then        *)
(* combined.                                                                *)
AcvForecast(mix, flows, from, horizon) ==
    IF mix = {} \/ flows = {} \/ Refused(horizon) THEN None
    ELSE [k \in 0 .. StepsOf(horizon) - 1 |->
            LET t == from + k * Step
            IN  [at |-> t,
                 inputs |-> [mix |-> Channel(mix, t), flows |-> Channel(flows, t)],
                 band |-> AcvBand(ConsumptionInstants(mix, flows), t, k)]]
=============================================================================
