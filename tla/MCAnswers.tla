------------------------------- MODULE MCAnswers -------------------------------
(***************************************************************************)
(* Small instances of what is computed when it is asked, for TLC: a        *)
(* behaviour is one of the derived series, one of the scheduler, or one of *)
(* the eligibility of the slots of a forecast; which is chosen at the      *)
(* start.                                                                    *)
(***************************************************************************)
EXTENDS EligibilityOverlay, TLC

CONSTANTS Subjects, MaxInstant, FlowAge, SpotAge, SpotMargin, Bucket, Step, MaxPoints, Intensities, Margins

(* A forecast has a positive step, its values are intensities.               *)
ASSUME ScheduleAssumption ==
    /\ Step \in Nat \ {0} /\ MaxPoints \in Nat
    /\ Intensities \subseteq Nat /\ Margins \subseteq Nat

(* A price is too old long before the range of its history is widened that   *)
(* far (6 h and 24 h); a bucket is not empty.                                *)
ASSUME SeriesAssumption ==
    /\ MaxInstant \in Nat /\ FlowAge \in Nat /\ SpotAge \in Nat /\ SpotMargin \in Nat
    /\ SpotAge <= SpotMargin /\ Bucket \in Nat \ {0}

VARIABLES subject, kind, mix, context, base, newest, served, overtaken, points, job, advice

seriesVars == <<kind, mix, context, base, newest, served, overtaken>>
schedulingVars == <<points, job, advice>>
allVars == <<subject, vars, seriesVars, schedulingVars>>

Series == INSTANCE SeriesStore WITH kind <- kind, mix <- mix
Schedule == INSTANCE Scheduling WITH points <- points, job <- job

(* A forecast of three points, with an interval that widens; its bounds meet *)
(* the low-carbon threshold, 64; it starts before, at or after the latest    *)
(* measurement.                              *)
Curve == << <<50, 60, 64>>, <<60, 64, 70>>, <<64, 70, 80>> >>
From(from, framework, wired) ==
    [framework |-> framework, version |-> {}, wired |-> wired, estimator |-> "central",
     surplus |-> {}, threshold |-> {}, kwh |-> {},
     points |-> [n \in 1 .. 3 |-> [at |-> from + 2 * (n - 1),
                    lower |-> Curve[n][1], expected |-> Curve[n][2], upper |-> Curve[n][3]]]]

MCRequests ==
    {From(0, "rfnbo", TRUE), From(1, "rfnbo", TRUE), From(3, "rfnbo", FALSE),
     [From(3, "rfnbo", TRUE) EXCEPT !.surplus = {5}, !.estimator = "prudent"],
     [From(3, "rfnbo", TRUE) EXCEPT !.version = {"2026-revision"}],
     [From(3, "low-carbon", TRUE) EXCEPT !.version = {"2025-2359"}],
     [From(3, "low-carbon", TRUE) EXCEPT !.surplus = {60}, !.kwh = {10}],
     [From(3, "low-carbon", TRUE) EXCEPT !.threshold = {64}, !.kwh = {200}]}

Untouched == [t \in Instants |-> NoRow]

AnswersInit ==
    /\ subject \in Subjects
    /\ Init /\ Series!Init /\ Schedule!Init
    /\ subject # "series" => kind = "price"
    /\ subject # "eligibility" => rows = Untouched /\ 0 \in Hours /\ prices[0] # {}

OfSeries == subject = "series" /\ Series!Next /\ UNCHANGED <<subject, vars, schedulingVars>>
OfScheduling == subject = "scheduling" /\ Schedule!Next /\ UNCHANGED <<subject, vars, seriesVars>>
OfEligibility == subject = "eligibility" /\ Next /\ UNCHANGED <<subject, seriesVars, schedulingVars>>

AnswersSpec == AnswersInit /\ [][OfSeries \/ OfScheduling \/ OfEligibility]_allVars

(* A current value is the point of the history at its instant, but for what *)
(* is written over what it has read: NowMatchesHistory of SeriesStore.       *)
NowMatchesHistory == Series!NowMatchesHistory

(* A history does not depend on the range it is cut from, its buckets add   *)
(* up to its summary: RangesAgree of SeriesStore, in its part.              *)
RangesAgree == subject = "series" => Series!RangesAgree

(* The window advised is the earliest of the greenest that cover the job by *)
(* its deadline, a divisible job never does worse, and no slot left out is  *)
(* greener than one advised: the two properties of Scheduling.               *)
AdviceIsBest == Schedule!WindowIsGreenest /\ Schedule!DivisibleIsGreener
=============================================================================
