------------------------------- MODULE Eligibility -------------------------------
(***************************************************************************)
(* The rules of eligibility of the grid's electricity for hydrogen: two    *)
(* frameworks, their versioned rulesets, and the verdict of a slot.        *)
(* Shares are percents, prices EUR/MWh, intensities gCO2eq/kWh, rounded to *)
(* integers; what may be missing is a set of at most one element.           *)
(***************************************************************************)
EXTENDS Integers, Sequences, SequencesExt

The(option) == CHOOSE x \in option : TRUE

-----------------------------------------------------------------------------
(* Rulesets. *)
LOW_CARBON_BUDGET_G_PER_KG == 3384
DEFAULT_ELECTROLYZER_KWH_PER_KG == 53
MAX_LOW_CARBON_INTENSITY_THRESHOLD == 1000

low_carbon_intensity_threshold(kwh) == (2 * LOW_CARBON_BUDGET_G_PER_KG + kwh) \div (2 * kwh)

rfnbo_2023_1184 ==
    [framework |-> "rfnbo", version |-> "2023-1184", status |-> "served",
     share |-> 90, surplus |-> {20}, intensity |-> {},
     overridden |-> FALSE, surplusOverridden |-> FALSE, intensityOverridden |-> FALSE]

low_carbon_2025_2359 ==
    [rfnbo_2023_1184 EXCEPT
        !.framework = "low-carbon", !.version = "2025-2359", !.share = 0, !.surplus = {},
        !.intensity = {low_carbon_intensity_threshold(DEFAULT_ELECTROLYZER_KWH_PER_KG)}]

rfnbo_2026_revision == [rfnbo_2023_1184 EXCEPT !.version = "2026-revision", !.status = "planned"]

ruleset_catalog == <<rfnbo_2023_1184, low_carbon_2025_2359, rfnbo_2026_revision>>

(* None if no ruleset that is served has this version, when one is asked.   *)
resolve_ruleset(framework, version) ==
    {r \in ToSet(ruleset_catalog) :
        /\ r.framework = framework /\ r.status = "served"
        /\ version # {} => r.version = The(version)}

(* An explicit threshold wins over the one derived from kwh, which only     *)
(* applies to a framework that has a threshold.                              *)
with_overrides(r, surplus, threshold, kwh) ==
    LET derives == kwh # {} /\ r.intensity # {} /\ threshold = {}
        derived == low_carbon_intensity_threshold(The(kwh))
    IN  [r EXCEPT
            !.surplus = IF surplus # {} THEN surplus ELSE @,
            !.surplusOverridden = @ \/ surplus # {},
            !.intensity = IF threshold # {} THEN threshold
                          ELSE IF derives
                          THEN {IF derived < MAX_LOW_CARBON_INTENSITY_THRESHOLD THEN derived
                                ELSE MAX_LOW_CARBON_INTENSITY_THRESHOLD}
                          ELSE @,
            !.intensityOverridden = @ \/ derives \/ threshold # {},
            !.overridden = surplus # {} \/ threshold # {} \/ kwh # {}]

basis_of(pillar) == IF pillar = "low-carbon-intensity" THEN "indicative-non-regulatory" ELSE "regulatory"

basis_for(r, pillar) ==
    IF \/ pillar = "surplus-price" /\ r.surplusOverridden
       \/ pillar = "low-carbon-intensity" /\ r.intensityOverridden
    THEN "user-override" ELSE basis_of(pillar)

-----------------------------------------------------------------------------
(* Verdicts. *)
Clamp(x) == IF x \in 0 .. 100 THEN x ELSE IF x < 0 THEN 0 ELSE 100

ObservedShare(share) ==
    [expected |-> Clamp(share), lower |-> Clamp(share), upper |-> Clamp(share), source |-> "observed"]

Decided(pillar, passed, value, threshold, source) ==
    [pillar |-> pillar, verdict |-> IF passed THEN "pass" ELSE "fail",
     value |-> {value}, threshold |-> {threshold}, source |-> source, reason |-> "none"]

Undecided(pillar, reason) ==
    [pillar |-> pillar, verdict |-> "indeterminate", value |-> {}, threshold |-> {},
     source |-> "none", reason |-> reason]

share_signal(slot, threshold) ==
    LET est == The(slot.share)
    IN  IF slot.share = {} THEN Undecided("renewable-share", slot.gap)
        ELSE IF est.lower >= threshold THEN Decided("renewable-share", TRUE, est.expected, threshold, est.source)
        ELSE IF est.upper < threshold THEN Decided("renewable-share", FALSE, est.expected, threshold, est.source)
        ELSE Undecided("renewable-share", "threshold-within-interval")

(* A price above the threshold does not refute the exception, which has a   *)
(* second branch that is not evaluated.                                      *)
surplus_signal_firm(price, threshold) ==
    IF price = {} THEN Undecided("surplus-price", "missing-data")
    ELSE Decided("surplus-price", The(price) <= threshold, The(price), threshold, "observed")

surplus_signal(price, threshold) ==
    IF price = {} THEN Undecided("surplus-price", "missing-data")
    ELSE IF The(price) <= threshold THEN Decided("surplus-price", TRUE, The(price), threshold, "observed")
    ELSE Undecided("surplus-price", "surplus-not-established")

rfnbo_signals(slot, r) ==
    IF r.surplus = {} THEN <<share_signal(slot, r.share)>>
    ELSE <<share_signal(slot, r.share), surplus_signal(slot.price, The(r.surplus))>>

low_carbon_signals(slot, r) ==
    LET threshold == The(r.intensity)
        Firm(passed) == Decided("low-carbon-intensity", passed, slot.intensity, threshold, "forecast")
    IN  IF r.intensity = {} THEN <<Undecided("low-carbon-intensity", "missing-data")>>
        ELSE IF slot.upper <= threshold THEN <<Firm(TRUE)>>
        ELSE IF slot.lower > threshold THEN <<Firm(FALSE)>>
        ELSE <<Undecided("low-carbon-intensity", "threshold-within-interval")>>

(* Thousandths: the gap to a share of 100 %, half the price, the intensity. *)
score(slot, r) ==
    LET gap == IF slot.share = {} THEN 150 ELSE 100 - The(slot.share).expected
        price == IF slot.price = {} THEN 200 ELSE IF The(slot.price) < 0 THEN 0 ELSE The(slot.price)
    IN  IF r.framework = "low-carbon" THEN 1000 * slot.intensity
        ELSE 1000 * gap + 500 * price + slot.intensity

evaluate_slot(slot, r) ==
    LET signals == IF r.framework = "rfnbo" THEN rfnbo_signals(slot, r) ELSE low_carbon_signals(slot, r)
    IN  [at |-> slot.at, signals |-> signals, score |-> score(slot, r),
         eligible |-> \E s \in ToSet(signals) : s.verdict = "pass"]

evaluate(slots, r) == [n \in DOMAIN slots |-> evaluate_slot(slots[n], r)]

is_indeterminate(v) == ~v.eligible /\ \E s \in ToSet(v.signals) : s.verdict = "indeterminate"

(* The first of the least scores among the eligible. *)
best_eligible(verdicts) ==
    {v \in ToSet(verdicts) : v.eligible /\ \A w \in ToSet(verdicts) :
        w.eligible => v.score < w.score \/ (v.score = w.score /\ v.at <= w.at)}

(* EligibilityBody::from_verdicts *)
from_verdicts(r, window, verdicts) ==
    LET inWindow == {v \in ToSet(verdicts) : window.start <= v.at /\ v.at < window.end}
    IN  [ruleset |-> r.version, overridden |-> r.overridden,
         slots |-> verdicts,
         basis |-> [pillar \in {"renewable-share", "surplus-price", "low-carbon-intensity"} |-> basis_for(r, pillar)],
         shareModel |-> \E v \in ToSet(verdicts) : \E s \in ToSet(v.signals) :
                            s.pillar = "renewable-share" /\ s.source = "forecast",
         windowEligible |-> inWindow # {} /\ \A v \in inWindow : v.eligible,
         best |-> best_eligible(verdicts),
         eligible |-> Len(SelectSeq(verdicts, LAMBDA v : v.eligible)),
         indeterminate |-> Len(SelectSeq(verdicts, is_indeterminate))]
=============================================================================
