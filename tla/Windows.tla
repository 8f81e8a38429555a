--------------------------------- MODULE Windows ---------------------------------
(***************************************************************************)
(* The windows and slots of a forecast: the greenest contiguous window,    *)
(* the one before a deadline, the k least slots, the slots below a         *)
(* threshold and what a window saves.  Intensities are integers; an        *)
(* average is kept as its total and its number of slots.                    *)
(***************************************************************************)
EXTENDS Integers, Sequences, SequencesExt, FiniteSets, Functions

(* Value of a point for an estimator: expected, or the upper bound.         *)
estimate(p, estimator) == IF estimator = "prudent" THEN p.upper ELSE p.expected

step_of(points) == IF Len(points) < 2 THEN 0 ELSE points[2].at - points[1].at

(* The values of the points from..to, added up. *)
Total(points, from, to, estimator) ==
    FoldFunctionOnSet(+, 0, [n \in DOMAIN points |-> estimate(points[n], estimator)], from .. to)

NoWindow == [start |-> 0 - 1, end |-> 0 - 1, total |-> 0, slots |-> 0]

(* duration / step, rounded up *)
Slots(duration, step) == (duration + step - 1) \div step

(* The running sum of the slots that end at point i, the least so far and   *)
(* the first point where it was reached.                                    *)
SlideLatest(points, slots, estimator) ==
    LET value(n) == estimate(points[n], estimator)
        slide[i \in slots .. Len(points)] ==
            IF i = slots
            THEN LET sum == Total(points, 1, slots, estimator) IN [sum |-> sum, best |-> sum, from |-> 1]
            ELSE LET sum == slide[i - 1].sum + value(i) - value(i - slots)
                 IN  IF sum <= slide[i - 1].best THEN [sum |-> sum, best |-> sum, from |-> i - slots + 1]
                     ELSE [slide[i - 1] EXCEPT !.sum = sum]
    IN  slide[Len(points)]

Slide(points, slots, estimator) ==
    LET value(n) == estimate(points[n], estimator)
        slide[i \in slots .. Len(points)] ==
            IF i = slots
            THEN LET sum == Total(points, 1, slots, estimator) IN [sum |-> sum, best |-> sum, from |-> 1]
            ELSE LET sum == slide[i - 1].sum + value(i) - value(i - slots)
                 IN  IF sum < slide[i - 1].best THEN [sum |-> sum, best |-> sum, from |-> i - slots + 1]
                     ELSE [slide[i - 1] EXCEPT !.sum = sum]
    IN  slide[Len(points)]

greenest_window(points, duration, estimator) ==
    LET step == step_of(points)
        slots == Slots(duration, step)
        least == Slide(points, slots, estimator)
    IN  IF Len(points) < 2 \/ duration <= 0 \/ step <= 0 THEN NoWindow
        ELSE IF slots = 0 \/ Len(points) < slots THEN NoWindow
        ELSE [start |-> points[least.from].at, end |-> points[least.from + slots - 1].at + step,
              total |-> least.best, slots |-> slots]

(* The points whose slot ends by the deadline are those before cutoff; with *)
(* one left the step is still that of the whole forecast.                   *)
greenest_window_before(points, duration, deadline, estimator) ==
    LET step == step_of(points)
        cutoff == SelectInSeq(points, LAMBDA p : p.at + step > deadline)
        kept == IF cutoff = 0 THEN points ELSE SubSeq(points, 1, cutoff - 1)
    IN  IF step = 0 THEN NoWindow
        ELSE IF Len(kept) # 1 THEN greenest_window(kept, duration, estimator)
        ELSE IF duration <= 0 \/ duration > step THEN NoWindow
        ELSE [start |-> points[1].at, end |-> points[1].at + step,
              total |-> estimate(points[1], estimator), slots |-> 1]

(* The k least slots, each at its position, for the order of time: the sort *)
(* is stable, so the earlier of two equals comes first.                      *)
lowest_slots(points, k, estimator) ==
    LET value(n) == estimate(points[n], estimator)
        before(n) == {m \in DOMAIN points : value(m) < value(n) \/ (value(m) = value(n) /\ m < n)}
        least == {n \in DOMAIN points : Cardinality(before(n)) < k}
    IN  [n \in least |-> [at |-> points[n].at, intensity |-> value(n)]]

slots_below(points, threshold, estimator) ==
    LET slot(n) == [at |-> points[n].at, intensity |-> estimate(points[n], estimator)]
    IN  SelectSeq([n \in DOMAIN points |-> slot(n)], LAMBDA s : s.intensity < threshold)

(* now - scheduled, times the slots of the window. *)
savings_vs_now(points, window, estimator) ==
    estimate(points[1], estimator) * window.slots - window.total
=============================================================================
