------------------------------- MODULE Scheduling -------------------------------
(***************************************************************************)
(* When to run a job on a forecast (FindGreenestWindow and the scheduler): *)
(* a forecast and a job are given, and advice is computed from them.        *)
(***************************************************************************)
EXTENDS Windows

CONSTANTS
    Step,         \* between two points of the forecast
    MaxPoints,    \* bound: points of a forecast
    Intensities,  \* bound: values of a point
    Margins       \* bound: upper - expected of a point

(* CarbonAwareScheduler::schedule_window: no window is InsufficientSeries.  *)
schedule_window(points, duration, deadline, estimator) ==
    LET window == IF deadline.given THEN greenest_window_before(points, duration, deadline.at, estimator)
                  ELSE greenest_window(points, duration, estimator)
    IN  [window |-> window,
         saved |-> IF window = NoWindow THEN 0 ELSE savings_vs_now(points, window, estimator)]

-----------------------------------------------------------------------------
(* A job and the forecast it is asked on; deadlines fall on and beside the  *)
(* ends of the slots, durations on and beside their multiples.              *)
Deadlines == [given : {FALSE}, at : {0}] \cup [given : {TRUE}, at : 0 .. Step * MaxPoints + 1]

Forecasts == UNION {[1 .. n -> [expected : Intensities, margin : Margins]] : n \in 0 .. MaxPoints}
PointsOf(forecast) == [n \in DOMAIN forecast |->
    [at |-> Step * (n - 1), expected |-> forecast[n].expected, upper |-> forecast[n].expected + forecast[n].margin]]

VARIABLES
    points,   \* the forecast
    job,      \* the estimator, the duration, the deadline, the number of slots and the threshold asked
    advice    \* the answers

vars == <<points, job, advice>>

NoJob == [estimator |-> "none"]
NoAdvice == [window |-> NoWindow]

Init == points = <<>> /\ job = NoJob /\ advice = NoAdvice

Ask ==
    /\ job = NoJob
    /\ \E forecast \in Forecasts : points' = PointsOf(forecast)
    /\ \E estimator \in {"central", "prudent"}, duration \in 0 .. Step * MaxPoints, deadline \in Deadlines :
         job' = [estimator |-> estimator, duration |-> duration, deadline |-> deadline]
    /\ UNCHANGED advice

Advise ==
    /\ job # NoJob /\ advice = NoAdvice
    /\ advice' =
         [window |-> schedule_window(points, job.duration, job.deadline, job.estimator).window,
          saved |-> schedule_window(points, job.duration, job.deadline, job.estimator).saved,
          lowest |-> lowest_slots(points, Slots(job.duration, Step), job.estimator),
          below |-> slots_below(points, job.duration, job.estimator)]
    /\ UNCHANGED <<points, job>>

Forget == advice # NoAdvice /\ points' = <<>> /\ job' = NoJob /\ advice' = NoAdvice

Next == Ask \/ Advise \/ Forget

Spec == Init /\ [][Next]_vars

-----------------------------------------------------------------------------
(* A window of whole slots that covers the job and ends by the deadline.    *)
Covering == LET n == Slots(job.duration, Step) IN
    {from \in DOMAIN points :
        /\ from + n - 1 <= Len(points)
        /\ job.deadline.given => points[from].at + Step * n <= job.deadline.at}

TotalFrom(from) == Total(points, from, from + Slots(job.duration, Step) - 1, job.estimator)

Advised == advice # NoAdvice

(* The window advised is the earliest of the greenest that cover the job by *)
(* its deadline, and there is none only when none covers it: rounding, ties *)
(* and deadlines between two slots included.                                 *)
WindowIsGreenest == Advised /\ job.duration > 0 /\ Len(points) > 1 =>
    IF Covering = {} THEN advice.window = NoWindow
    ELSE \E best \in Covering :
        /\ \A from \in Covering :
             TotalFrom(best) < TotalFrom(from) \/ (TotalFrom(best) = TotalFrom(from) /\ best <= from)
        /\ advice.window = [start |-> points[best].at, end |-> points[best].at + Step * Slots(job.duration, Step),
                            total |-> TotalFrom(best), slots |-> Slots(job.duration, Step)]

(* A divisible job of as many slots never does worse than a contiguous one, *)
(* a job of one slot never worse than running now, and a slot that is not   *)
(* advised is not greener than one that is.                                  *)
DivisibleIsGreener == Advised =>
    /\ advice.window # NoWindow =>
         FoldFunction(+, 0, [n \in DOMAIN advice.lowest |-> advice.lowest[n].intensity]) <= advice.window.total
    /\ advice.window.slots = 1 => advice.saved >= 0
    /\ \A slot \in ToSet(advice.lowest) : \A n \in DOMAIN points :
         points[n].at \notin {s.at : s \in ToSet(advice.lowest)} => slot.intensity <= estimate(points[n], job.estimator)
=============================================================================
