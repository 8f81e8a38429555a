-------------------------- MODULE ForecastCacheProofs --------------------------
(***************************************************************************)
(* Proofs about ForecastCache for any grid, any period of the series, any  *)
(* number of requests and any size of the cache: an entry answers every    *)
(* start of its key as if it had been computed for it, but for the fading  *)
(* of a bias over less than a bucket, and what it leaves out is recent.    *)
(***************************************************************************)
EXTENDS ForecastCache, FiniteSetTheorems, WellFoundedInduction, TLAPS

-----------------------------------------------------------------------------
(* Division.  The quotient and the remainder are the only ones.             *)
LEMMA DivisionUnique ==
    ASSUME NEW a \in Int, NEW n \in Nat \ {0}, NEW q \in Int, NEW r \in 0 .. n - 1, a = n * q + r
    PROVE  a \div n = q /\ a % n = r
OBVIOUS

LEMMA Division ==
    ASSUME NEW a \in Int, NEW n \in Nat \ {0}
    PROVE  /\ a \div n \in Int /\ a % n \in 0 .. n - 1
           /\ a = n * (a \div n) + (a % n)
OBVIOUS

LEMMA Product ==
    ASSUME NEW n \in Nat \ {0}, NEW x \in Int, NEW y \in Int, x <= y
    PROVE  n * x \in Int /\ n * y \in Int /\ n * x <= n * y
OBVIOUS

(* Division by a multiple: first by the divisor, then by the factor.        *)
LEMMA DivisionByMultiple ==
    ASSUME NEW t \in Int, NEW n \in Nat \ {0}, NEW k \in Nat \ {0}
    PROVE  /\ t \div (k * n) = (t \div n) \div k
           /\ t % (k * n) = n * ((t \div n) % k) + (t % n)
<1> DEFINE b == t \div n
           d == t % n
           q == b \div k
           r == b % k
<1>1. b \in Int /\ d \in 0 .. n - 1 /\ t = n * b + d
  BY Division
<1> HIDE DEF b, d
<1>2. q \in Int /\ r \in 0 .. k - 1 /\ b = k * q + r
  BY <1>1, Division
<1> HIDE DEF q, r
<1>3. k * n \in Nat \ {0}
  OBVIOUS
<1>4. n * b = (k * n) * q + n * r
  BY <1>2
<1>5. n * r <= n * (k - 1) /\ n * r \in Nat
  BY <1>2, Product
<1>6. n * (k - 1) = k * n - n
  OBVIOUS
<1>7. n * r + d \in 0 .. (k * n) - 1
  BY <1>1, <1>3, <1>5, <1>6
<1>8. t = (k * n) * q + (n * r + d)
  BY <1>1, <1>2, <1>4, <1>5
<1>9. t \div (k * n) = q /\ t % (k * n) = n * r + d
  BY <1>2, <1>3, <1>7, <1>8, DivisionUnique
<1> QED  BY <1>9 DEF b, d, q, r

(* A multiple of n is before an instant of a bucket of n as soon as it is   *)
(* before the bucket, or at its start and the instant later.                *)
LEMMA BeforeInBucket ==
    ASSUME NEW n \in Nat \ {0}, NEW c \in Int, NEW b \in Int, NEW d \in 0 .. n - 1
    PROVE  n * c < n * b + d <=> c < b \/ (c = b /\ d > 0)
<1>1. CASE c < b
  <2>1. c + 1 <= b
    BY <1>1
  <2>2. n * (c + 1) <= n * b /\ n * b \in Int
    BY <2>1, Product
  <2>3. n * (c + 1) = n * c + n
    OBVIOUS
  <2> QED  BY <1>1, <2>2, <2>3
<1>2. CASE c = b
  BY <1>2
<1>3. CASE c > b
  <2>1. n * (b + 1) <= n * c /\ n * c \in Int
    BY <1>3, Product
  <2>2. n * (b + 1) = n * b + n
    OBVIOUS
  <2> QED  BY <1>3, <2>1, <2>2
<1> QED  BY <1>1, <1>2, <1>3

-----------------------------------------------------------------------------
(* Instants of one bucket share a slot of the week, and those that are both *)
(* on the grid, or both off it, have the same history.                      *)
SameKey(t, u) == BucketOf(t) = BucketOf(u) /\ (OnGrid(t) <=> OnGrid(u))

LEMMA Periods ==
    /\ Bucket \in Nat \ {0}
    /\ \E w, s \in Nat \ {0} : Week = w * Bucket /\ Step = s * Bucket
<1>1. /\ Bucket \in Nat \ {0} /\ Step \in Nat \ {0} /\ Week \in Nat \ {0}
      /\ Step % Bucket = 0 /\ Week % Bucket = 0
  BY CacheAssumption
<1>2. ASSUME NEW p \in Nat \ {0}, p % Bucket = 0 PROVE \E k \in Nat \ {0} : p = k * Bucket
  <2>1. p \div Bucket \in Int /\ p = Bucket * (p \div Bucket)
    BY <1>1, <1>2, Division
  <2>2. p \div Bucket \in Nat \ {0}
    BY <1>1, <2>1
  <2>3. p = (p \div Bucket) * Bucket
    BY <1>1, <2>1
  <2> QED  BY <2>2, <2>3
<1> QED  BY <1>1, <1>2

LEMMA SlotOfBucket ==
    ASSUME NEW t \in Int, NEW u \in Int, BucketOf(t) = BucketOf(u)
    PROVE  Clim!Slot(t) = Clim!Slot(u)
<1>1. Bucket \in Nat \ {0}
  BY Periods
<1>2. PICK w, s \in Nat \ {0} : Week = w * Bucket /\ Step = s * Bucket
  BY Periods
<1>3. ASSUME NEW v \in Int PROVE Clim!Slot(v) = ((v \div Bucket) % w) \div s
  <2> DEFINE b == v \div Bucket
             d == v % Bucket
             x == b % w
  <2>1. b \in Int /\ d \in 0 .. Bucket - 1
    BY <1>1, Division
  <2>2. v % Week = Bucket * x + d
    BY <1>1, <1>2, DivisionByMultiple
  <2> HIDE DEF b, d
  <2>3. x \in Int
    BY <1>2, <2>1, Division
  <2> HIDE DEF x
  <2>4. Bucket * x + d \in Int /\ (Bucket * x + d) \div Bucket = x
    BY <1>1, <2>1, <2>3, DivisionUnique
  <2>5. (Bucket * x + d) \div Step = x \div s
    BY <1>1, <1>2, <2>4, DivisionByMultiple, SMTT(30)
  <2> QED  BY <2>2, <2>5 DEF Clim!Slot, b, x
<1>4. t \div Bucket = u \div Bucket
  BY DEF BucketOf
<1> QED  BY <1>3, <1>4

LEMMA SlotOfStep ==
    ASSUME NEW t \in Int, NEW u \in Int, BucketOf(t) = BucketOf(u), NEW k \in Int
    PROVE  Clim!Slot(t + k * Step) = Clim!Slot(u + k * Step)
<1>1. Bucket \in Nat \ {0}
  BY Periods
<1>2. PICK s \in Nat \ {0} : Step = s * Bucket
  BY Periods
<1>3. ASSUME NEW v \in Int PROVE v + k * Step \in Int /\ (v + k * Step) \div Bucket = (v \div Bucket) + k * s
  <2> DEFINE b == v \div Bucket
             d == v % Bucket
  <2>1. b \in Int /\ d \in 0 .. Bucket - 1 /\ v = Bucket * b + d
    BY <1>1, Division
  <2> HIDE DEF b, d
  <2>2. v + k * Step = Bucket * (b + k * s) + d
    BY <1>1, <1>2, <2>1
  <2>3. b + k * s \in Int /\ v + k * Step \in Int
    BY <1>1, <1>2, <2>1
  <2> QED  BY <1>1, <2>1, <2>2, <2>3, DivisionUnique DEF b
<1>4. BucketOf(t + k * Step) = BucketOf(u + k * Step)
  BY <1>3 DEF BucketOf
<1> QED  BY <1>3, <1>4, SlotOfBucket

LEMMA HistoryOfKey ==
    ASSUME NEW instants \in SUBSET Grid, NEW t \in Int, NEW u \in Int, SameKey(t, u)
    PROVE  Clim!History(instants, t) = Clim!History(instants, u)
<1>1. Bucket \in Nat \ {0}
  BY Periods
<1>2. PICK w \in Nat \ {0} : Week = w * Bucket
  BY Periods
<1> DEFINE n == Weeks * w
           b == t \div Bucket
<1>3. n \in Nat /\ Weeks * Week = Bucket * n
  BY <1>1, <1>2, CacheAssumption
<1> HIDE DEF n
<1>4. b \in Int /\ b = u \div Bucket
  BY <1>1, Division DEF SameKey, BucketOf
<1> HIDE DEF b
<1>5. ASSUME NEW v \in {t, u}, NEW c \in Int
      PROVE  /\ Bucket * c < v <=> c < b \/ (c = b /\ ~OnGrid(v))
             /\ v - Weeks * Week <= Bucket * c <=> ~(c + n < b \/ (c + n = b /\ ~OnGrid(v)))
  <2> DEFINE d == v % Bucket
  <2>1. v \in Int /\ d \in 0 .. Bucket - 1 /\ v = Bucket * b + d /\ (d > 0 <=> ~OnGrid(v))
    <3>1. v \in Int /\ b = v \div Bucket
      <4>1. CASE v = t
        BY <4>1 DEF b
      <4>2. CASE v = u
        BY <1>4, <4>2
      <4> QED  BY <4>1, <4>2
    <3>2. d \in 0 .. Bucket - 1 /\ v = Bucket * (v \div Bucket) + d
      BY <1>1, <3>1, Division
    <3>3. d > 0 <=> ~OnGrid(v)
      BY <3>2 DEF OnGrid
    <3> QED  BY <3>1, <3>2, <3>3
  <2> HIDE DEF d
  <2>2. Bucket * c < v <=> c < b \/ (c = b /\ ~OnGrid(v))
    BY <1>1, <1>4, <2>1, BeforeInBucket
  <2>3. c + n \in Int
    BY <1>3
  <2>4. Bucket * (c + n) < v <=> c + n < b \/ (c + n = b /\ ~OnGrid(v))
    BY <1>1, <1>4, <2>1, <2>3, BeforeInBucket
  <2>5. Bucket * (c + n) = Bucket * c + Weeks * Week /\ Bucket * c \in Int /\ Weeks * Week \in Int
    BY <1>1, <1>3
  <2> HIDE DEF n
  <2>6. v - Weeks * Week <= Bucket * c <=> ~(Bucket * (c + n) < v)
    BY <2>1, <2>5
  <2> QED  BY <2>2, <2>4, <2>6
<1>6. ASSUME NEW g \in Grid
      PROVE  /\ g < t <=> g < u
             /\ t - Weeks * Week <= g <=> u - Weeks * Week <= g
  <2>1. g \in Int /\ g % Bucket = 0
    BY CacheAssumption
  <2>2. PICK c \in Int : g = Bucket * c
    <3>1. g \div Bucket \in Int /\ g = Bucket * (g \div Bucket) + (g % Bucket)
      BY <1>1, <2>1, Division
    <3>2. g = Bucket * (g \div Bucket)
      BY <1>1, <2>1, <3>1
    <3> QED  BY <3>1, <3>2
  <2>3. OnGrid(t) <=> OnGrid(u)
    BY DEF SameKey
  <2> QED  BY <1>5, <2>2, <2>3
<1> QED  BY <1>6 DEF Clim!History, Clim!Within

-----------------------------------------------------------------------------
(* Re-anchoring.  What is computed for one start is, moved, what would have *)
(* been computed for another start of its key.                               *)
LEMMA MovedPoint ==
    ASSUME NEW x, NEW y, NEW z, NEW v
    PROVE  [[at |-> x, inputs |-> y, band |-> z] EXCEPT !.at = v] = [at |-> v, inputs |-> y, band |-> z]
OBVIOUS

(* Starts of one bucket are less than a bucket apart.                       *)
LEMMA StartsApart ==
    ASSUME NEW t \in Int, NEW u \in Int, SameKey(t, u)
    PROVE  t - u \in -(Bucket - 1) .. Bucket - 1
<1>1. Bucket \in Nat \ {0}
  BY Periods
<1>2. PICK x, c, d : /\ x = t \div Bucket /\ x = u \div Bucket
                     /\ c = t % Bucket /\ d = u % Bucket
  BY DEF SameKey, BucketOf
<1>3. x \in Int /\ c \in 0 .. Bucket - 1 /\ t = Bucket * x + c
  BY <1>1, <1>2, Division
<1>4. d \in 0 .. Bucket - 1 /\ u = Bucket * x + d
  BY <1>1, <1>2, Division
<1>5. Bucket * x \in Int
  BY <1>1, <1>3
<1> QED  BY <1>1, <1>3, <1>4, <1>5

(* A history that is not empty has a last instant: it is finite, being in   *)
(* the past of its start, and among what follows each of its instants the   *)
(* least set is empty.                                                      *)
LEMMA LatestIsInt ==
    ASSUME NEW instants \in SUBSET Grid, NEW from \in Int, NEW hist,
           hist = Clim!History(instants, from), hist # {}
    PROVE  Clim!Latest(hist) \in Int
<1> DEFINE D == 0 .. from
           After(t) == {m \in hist : t < m}
           Afters == {After(t) : t \in hist}
<1>1. hist \subseteq Nat /\ hist \subseteq D
  <2>1. instants \subseteq Nat
    BY CacheAssumption
  <2>2. hist \subseteq {m \in instants : m < from}
    BY DEF Clim!History, Clim!Within
  <2>3. ASSUME NEW x \in hist PROVE x \in Nat /\ x \in 0 .. from
    <3>1. x \in Nat /\ x < from
      BY <2>1, <2>2
    <3> QED  BY <3>1
  <2> QED  BY <2>3
<1>2. IsFiniteSet(D)
  BY FS_Interval
<1>3. FiniteSubsetsOf(D) = SUBSET D
  BY <1>2, FS_FiniteSubsetsOfFinite, Zenon
<1>4. IsWellFoundedOn(StrictSubsetOrdering(D), SUBSET D)
  BY <1>3, FS_StrictSubsetOrderingWellFounded
<1>5. PICK least \in Afters : \A A \in Afters : <<A, least>> \notin StrictSubsetOrdering(D)
  <2>1. Afters \subseteq SUBSET D /\ Afters # {}
    BY <1>1
  <2> HIDE DEF Afters
  <2> QED  BY <1>4, <2>1, WFMin, Zenon
<1>6. PICK last \in hist : least = After(last)
  OBVIOUS
<1>7. ASSUME NEW m \in hist PROVE m <= last
  <2>1. SUFFICES ASSUME last < m PROVE FALSE
    BY <1>1
  <2>2. After(m) \in Afters /\ After(m) \subseteq least /\ m \in least /\ m \notin After(m)
    BY <1>1, <1>6, <2>1
  <2>3. least \in SUBSET D /\ After(m) \in SUBSET D
    BY <1>1, <1>6
  <2>4. <<After(m), least>> \in StrictSubsetOrdering(D)
    BY <2>2, <2>3 DEF StrictSubsetOrdering
  <2> QED  BY <1>5, <2>2, <2>4
<1> QED  BY <1>1, <1>7 DEF Clim!Latest

(* The values of a channel of one slot, at instants less than a bucket      *)
(* apart, and a value and itself.                                           *)
LEMMA ChannelsClose ==
    ASSUME NEW instants \in SUBSET Grid, NEW from \in Int, NEW hist,
           hist = Clim!History(instants, from), hist # {},
           NEW t \in Int, NEW u \in Int, Clim!Slot(t) = Clim!Slot(u),
           t - u \in -(Bucket - 1) .. Bucket - 1
    PROVE  CloseChannels(Clim!Channel(hist, t), Clim!Channel(hist, u))
<1>1. Clim!Latest(hist) \in Int
  BY LatestIsInt
<1>2. Clim!Samples(hist, t) = Clim!Samples(hist, u)
  BY DEF Clim!Samples
<1>3. (t - Clim!Latest(hist)) - (u - Clim!Latest(hist)) = t - u
  BY <1>1
<1> QED  BY <1>2, <1>3 DEF CloseChannels, Clim!Channel

(* Two series that have close points, each from its own start.              *)
SamePoints(points, moved, m, t, u, n) ==
    /\ DOMAIN points = 0 .. n /\ DOMAIN moved = 0 .. n
    /\ \A k \in 0 .. n : \E i, j, b :
          /\ points[k] = [at |-> t + k * Step, inputs |-> i, band |-> b]
          /\ moved[k] = [at |-> u + k * Step, inputs |-> j, band |-> b]
          /\ IF m = "acv" THEN CloseChannels(i.mix, j.mix) /\ CloseChannels(i.flows, j.flows)
             ELSE CloseChannels(i, j)

LEMMA MovedSeries ==
    ASSUME NEW t \in Int, NEW u \in Int, NEW n \in Int, NEW points, NEW moved, NEW m,
           SamePoints(points, moved, m, t, u, n)
    PROVE  /\ DOMAIN Reanchor(points, t, u) = DOMAIN moved
           /\ \A k \in DOMAIN moved : ClosePoints(m, Reanchor(points, t, u)[k], moved[k])
<1>1. DOMAIN points = 0 .. n /\ DOMAIN moved = 0 .. n
  BY DEF SamePoints
<1>2. Reanchor(points, t, u) = [k \in 0 .. n |-> [points[k] EXCEPT !.at = points[k].at + u - t]]
  BY <1>1 DEF Reanchor
<1>3. ASSUME NEW k \in 0 .. n
      PROVE  ClosePoints(m, [points[k] EXCEPT !.at = points[k].at + u - t], moved[k])
  <2>1. PICK i, j, b :
           /\ points[k] = [at |-> t + k * Step, inputs |-> i, band |-> b]
           /\ moved[k] = [at |-> u + k * Step, inputs |-> j, band |-> b]
           /\ IF m = "acv" THEN CloseChannels(i.mix, j.mix) /\ CloseChannels(i.flows, j.flows)
              ELSE CloseChannels(i, j)
    BY DEF SamePoints
  <2>2. points[k].at = t + k * Step
    BY <2>1
  <2>3. k * Step \in Int
    BY CacheAssumption
  <2>4. points[k].at + u - t = u + k * Step
    BY <2>2, <2>3
  <2>5. [points[k] EXCEPT !.at = u + k * Step] = [at |-> u + k * Step, inputs |-> i, band |-> b]
    BY <2>1, MovedPoint
  <2> QED  BY <2>1, <2>4, <2>5 DEF ClosePoints
<1> QED  BY <1>1, <1>2, <1>3

LEMMA ClimatologyMoved ==
    ASSUME NEW instants \in SUBSET Grid, NEW from \in Int, NEW hist,
           hist = Clim!History(instants, from),
           NEW t \in Int, NEW u \in Int, NEW h \in Int, SameKey(t, u),
           NEW m, m # "acv", Clim!Forecast(hist, t, h) # None
    PROVE  /\ hist # {} /\ ~Clim!Refused(h)
           /\ SamePoints(Clim!Forecast(hist, t, h), Clim!Forecast(hist, u, h), m, t, u, Clim!StepsOf(h) - 1)
<1> DEFINE n == Clim!StepsOf(h) - 1
           Point(v, k) == [at |-> v + k * Step, inputs |-> Clim!Channel(hist, v + k * Step),
                           band |-> Clim!Band(hist, v + k * Step, k)]
           From(v) == [k \in 0 .. n |-> Point(v, k)]
<1>1. n \in Int
  BY CacheAssumption DEF Clim!StepsOf
<1>2. hist # {} /\ ~Clim!Refused(h)
  BY DEF Clim!Forecast
<1>3. Clim!Forecast(hist, t, h) = From(t) /\ Clim!Forecast(hist, u, h) = From(u)
  BY <1>2 DEF Clim!Forecast
<1>4. ASSUME NEW k \in 0 .. n
      PROVE  \E i, j, b : /\ From(t)[k] = [at |-> t + k * Step, inputs |-> i, band |-> b]
                          /\ From(u)[k] = [at |-> u + k * Step, inputs |-> j, band |-> b]
                          /\ CloseChannels(i, j)
  <2>1. Clim!Slot(t + k * Step) = Clim!Slot(u + k * Step)
    BY SlotOfStep DEF SameKey
  <2>2. /\ t + k * Step \in Int /\ u + k * Step \in Int
        /\ (t + k * Step) - (u + k * Step) \in -(Bucket - 1) .. Bucket - 1
    <3>1. k * Step \in Int
      BY CacheAssumption
    <3>2. (t + k * Step) - (u + k * Step) = t - u
      BY <3>1
    <3> QED  BY <3>1, <3>2, StartsApart
  <2>3. CloseChannels(Clim!Channel(hist, t + k * Step), Clim!Channel(hist, u + k * Step))
    BY <1>2, <2>1, <2>2, ChannelsClose
  <2>4. Clim!Band(hist, t + k * Step, k) = Clim!Band(hist, u + k * Step, k)
    BY <2>1 DEF Clim!Band
  <2>5. From(t)[k] = Point(t, k) /\ From(u)[k] = Point(u, k)
    OBVIOUS
  <2> QED  BY <2>3, <2>4, <2>5
<1>5. DOMAIN From(t) = 0 .. n /\ DOMAIN From(u) = 0 .. n
  OBVIOUS
<1> HIDE DEF n, From
<1> HIDE DEF Point
<1>6. SamePoints(From(t), From(u), m, t, u, n)
  BY <1>4, <1>5, Zenon DEF SamePoints
<1> QED  BY <1>2, <1>3, <1>6 DEF n

LEMMA AcvMoved ==
    ASSUME NEW known \in Known, NEW from \in Int, NEW mix, NEW flows,
           mix = Clim!History(known.mix, from), flows = Clim!History(known.flows, from),
           NEW t \in Int, NEW u \in Int, NEW h \in Int, SameKey(t, u),
           Clim!AcvForecast(mix, flows, t, h) # None
    PROVE  /\ mix # {} /\ flows # {} /\ ~Clim!Refused(h)
           /\ SamePoints(Clim!AcvForecast(mix, flows, t, h), Clim!AcvForecast(mix, flows, u, h),
                         "acv", t, u, Clim!StepsOf(h) - 1)
<1> DEFINE n == Clim!StepsOf(h) - 1
           both == Clim!ConsumptionInstants(mix, flows)
           Point(v, k) == [at |-> v + k * Step,
                           inputs |-> [mix |-> Clim!Channel(mix, v + k * Step),
                                       flows |-> Clim!Channel(flows, v + k * Step)],
                           band |-> Clim!AcvBand(both, v + k * Step, k)]
           From(v) == [k \in 0 .. n |-> Point(v, k)]
<1>1. n \in Int /\ known.mix \in SUBSET Grid /\ known.flows \in SUBSET Grid
  BY CacheAssumption DEF Clim!StepsOf, Known
<1>2. mix # {} /\ flows # {} /\ ~Clim!Refused(h)
  BY DEF Clim!AcvForecast
<1>3. Clim!AcvForecast(mix, flows, t, h) = From(t) /\ Clim!AcvForecast(mix, flows, u, h) = From(u)
  BY <1>2 DEF Clim!AcvForecast
<1>4. ASSUME NEW k \in 0 .. n
      PROVE  \E i, j, b : /\ From(t)[k] = [at |-> t + k * Step, inputs |-> i, band |-> b]
                          /\ From(u)[k] = [at |-> u + k * Step, inputs |-> j, band |-> b]
                          /\ CloseChannels(i.mix, j.mix) /\ CloseChannels(i.flows, j.flows)
  <2>1. Clim!Slot(t + k * Step) = Clim!Slot(u + k * Step)
    BY SlotOfStep DEF SameKey
  <2>2. /\ t + k * Step \in Int /\ u + k * Step \in Int
        /\ (t + k * Step) - (u + k * Step) \in -(Bucket - 1) .. Bucket - 1
    <3>1. k * Step \in Int
      BY CacheAssumption
    <3>2. (t + k * Step) - (u + k * Step) = t - u
      BY <3>1
    <3> QED  BY <3>1, <3>2, StartsApart
  <2>3. /\ CloseChannels(Clim!Channel(mix, t + k * Step), Clim!Channel(mix, u + k * Step))
        /\ CloseChannels(Clim!Channel(flows, t + k * Step), Clim!Channel(flows, u + k * Step))
    BY <1>1, <1>2, <2>1, <2>2, ChannelsClose
  <2>4. Clim!AcvBand(both, t + k * Step, k) = Clim!AcvBand(both, u + k * Step, k)
    BY <2>1 DEF Clim!AcvBand, Clim!Band
  <2>5. From(t)[k] = Point(t, k) /\ From(u)[k] = Point(u, k)
    OBVIOUS
  <2> DEFINE i == Point(t, k).inputs
             j == Point(u, k).inputs
             b == Point(t, k).band
  <2>6. CloseChannels(i.mix, j.mix) /\ CloseChannels(i.flows, j.flows)
    BY <2>3
  <2>7. /\ Point(t, k) = [at |-> t + k * Step, inputs |-> i, band |-> b]
        /\ Point(u, k) = [at |-> u + k * Step, inputs |-> j, band |-> b]
    BY <2>4
  <2> HIDE DEF i, j, b
  <2> QED  BY <2>5, <2>6, <2>7
<1>5. DOMAIN From(t) = 0 .. n /\ DOMAIN From(u) = 0 .. n
  OBVIOUS
<1> HIDE DEF n, From
<1> HIDE DEF Point
<1>6. SamePoints(From(t), From(u), "acv", t, u, n)
  BY <1>4, <1>5, Zenon DEF SamePoints
<1> QED  BY <1>2, <1>3, <1>6 DEF n

(* The series of two starts of one key have close points. *)
LEMMA SameSeries ==
    ASSUME NEW m, NEW known \in Known, NEW t \in Int, NEW u \in Int, NEW h \in Int,
           SameKey(t, u), Compute(m, known, t, h) # None
    PROVE  /\ ~Clim!Refused(h) /\ \A s \in Inputs(m) : Clim!History(known[s], u) # {}
           /\ SamePoints(Compute(m, known, t, h), Compute(m, known, u, h), m, t, u, Clim!StepsOf(h) - 1)
<1>1. known.mix \in SUBSET Grid /\ known.flows \in SUBSET Grid
  BY DEF Known
<1>2. /\ Clim!History(known.mix, t) = Clim!History(known.mix, u)
      /\ Clim!History(known.flows, t) = Clim!History(known.flows, u)
  BY <1>1, HistoryOfKey
<1>3. CASE m = "acv"
  <2> DEFINE mix == Clim!History(known.mix, u)
             flows == Clim!History(known.flows, u)
  <2>1. /\ Compute(m, known, t, h) = Clim!AcvForecast(mix, flows, t, h)
        /\ Compute(m, known, u, h) = Clim!AcvForecast(mix, flows, u, h)
    BY <1>2, <1>3 DEF Compute
  <2>2. Inputs(m) = {"mix", "flows"}
    BY <1>3 DEF Inputs, Series
  <2> QED  BY <1>3, <2>1, <2>2, AcvMoved
<1>4. CASE m # "acv"
  <2> DEFINE mix == Clim!History(known.mix, u)
  <2>1. /\ Compute(m, known, t, h) = Clim!Forecast(mix, t, h)
        /\ Compute(m, known, u, h) = Clim!Forecast(mix, u, h)
    BY <1>2, <1>4 DEF Compute
  <2>2. Inputs(m) = {"mix"}
    BY <1>4 DEF Inputs
  <2> QED  BY <1>1, <1>4, <2>1, <2>2, ClimatologyMoved
<1> QED  BY <1>3, <1>4

(* An entry computed for t answers u as computed, and t itself. *)
LEMMA Reanchored ==
    ASSUME NEW m, NEW known \in Known, NEW t \in Int, NEW u \in Int, NEW h \in Int,
           SameKey(t, u), Compute(m, known, t, h) # None
    PROVE  AsComputed(Reanchor(Compute(m, known, t, h), t, u), m, known, u, h)
<1>1. Clim!StepsOf(h) - 1 \in Int
  BY CacheAssumption DEF Clim!StepsOf
<1> DEFINE points == Compute(m, known, t, h)
           computed == Compute(m, known, u, h)
<1>2. /\ ~Clim!Refused(h) /\ \A s \in Inputs(m) : Clim!History(known[s], u) # {}
      /\ SamePoints(points, computed, m, t, u, Clim!StepsOf(h) - 1)
  BY SameSeries
<1> HIDE DEF points
<1>3. /\ DOMAIN Reanchor(points, t, u) = DOMAIN computed
      /\ \A k \in DOMAIN computed : ClosePoints(m, Reanchor(points, t, u)[k], computed[k])
  <2> HIDE DEF computed
  <2> QED  BY <1>1, <1>2, MovedSeries
<1> QED  BY <1>2, <1>3 DEF AsComputed, points

LEMMA Itself ==
    ASSUME NEW m, NEW known \in Known, NEW t \in Int, NEW h \in Int, Compute(m, known, t, h) # None
    PROVE  AsComputed(Compute(m, known, t, h), m, known, t, h)
<1> DEFINE points == Compute(m, known, t, h)
           n == Clim!StepsOf(h) - 1
<1>1. /\ ~Clim!Refused(h) /\ \A s \in Inputs(m) : Clim!History(known[s], t) # {}
      /\ SamePoints(points, points, m, t, t, n)
  BY SameSeries DEF SameKey
<1> HIDE DEF n
<1>2. ASSUME NEW k \in DOMAIN points PROVE ClosePoints(m, points[k], points[k])
  <2>1. PICK i, j, b :
           /\ points[k] = [at |-> t + k * Step, inputs |-> i, band |-> b]
           /\ points[k] = [at |-> t + k * Step, inputs |-> j, band |-> b]
           /\ IF m = "acv" THEN CloseChannels(i.mix, j.mix) /\ CloseChannels(i.flows, j.flows)
              ELSE CloseChannels(i, j)
    BY <1>1 DEF SamePoints
  <2>2. points[k].inputs = i /\ points[k].inputs = j
    BY <2>1
  <2> QED  BY <2>1, <2>2 DEF ClosePoints
<1> QED  BY <1>1, <1>2 DEF AsComputed

-----------------------------------------------------------------------------
(* The invariant.  A request in progress has been reading for less than     *)
(* Lag; an entry is what the model computes from what it read; what a       *)
(* request or an entry left out was stored after it began to read.          *)
Request ==
    [pc : {"idle", "mix", "flows", "store"}, model : Models \cup {None},
     from : Froms \cup {None}, horizon : Horizons \cup {None}, cached : BOOLEAN,
     since : Nat, known : Known]

StateOK ==
    /\ now \in Start .. MaxTime
    /\ arrived \in [Series -> [Grid -> (0 .. MaxTime) \cup {None}]]
    /\ req \in [Requests -> Request]

RequestOK(r) ==
    r.pc # "idle" =>
        /\ r.model \in Models /\ r.from \in Froms /\ r.horizon \in Horizons
        /\ r.since <= now /\ now - r.since <= Lag
        /\ r.pc = "flows" => r.model = "acv"

EntryOK(k, e) ==
    /\ k.model \in Models /\ k.horizon \in Horizons
    /\ e.storedAt \in Nat /\ e.storedAt <= now
    /\ e.computedFrom \in Froms /\ e.known \in Known
    /\ KeyOf(k.model, e.computedFrom, k.horizon) = k
    /\ Compute(k.model, e.known, e.computedFrom, k.horizon) # None
    /\ e.points = Compute(k.model, e.known, e.computedFrom, k.horizon)

Sized == IsFiniteSet(DOMAIN cache) /\ Cardinality(DOMAIN cache) <= MaxEntries

(* Every instant of s left out of instants was stored at time t or later.   *)
LeftOutSince(s, instants, t) ==
    \A g \in Grid : arrived[s][g] # None /\ g \notin instants => arrived[s][g] >= t

ReadSoFar(r) ==
    {s \in Inputs(r.model) : r.pc = "store" \/ (r.pc = "flows" /\ s = "mix")}

RequestRecent(r) == \A s \in ReadSoFar(r) : LeftOutSince(s, r.known[s], r.since)

EntryRecent(k, e) == \A s \in Inputs(k.model) : LeftOutSince(s, e.known[s], e.storedAt - Lag)

CacheInv ==
    /\ StateOK
    /\ \A q \in Requests : RequestOK(req[q]) /\ RequestRecent(req[q])
    /\ \A k \in DOMAIN cache : EntryOK(k, cache[k]) /\ EntryRecent(k, cache[k])
    /\ Sized

(* What holds of an answer in the state where it is given.                  *)
AnswerOK == ServedAsComputed /\ StalenessBounded

LEMMA Numbers ==
    /\ Start \in Nat /\ MaxTime \in Nat /\ Start <= MaxTime
    /\ Lag \in Nat /\ Ttl \in Nat \ {0} /\ MaxEntries \in Nat \ {0}
    /\ Froms \subseteq Int /\ Horizons \subseteq Int /\ None \notin Nat
BY CacheAssumption

LEMMA InputsAreSeries == \A m : Inputs(m) \subseteq Series /\ "mix" \in Inputs(m)
BY DEF Inputs, Series

LEMMA IdleRequest == Idle \in Request /\ Idle.pc = "idle"
<1>1. Idle.known \in Known
  BY DEF Idle, Known
<1> QED  BY <1>1 DEF Idle, Request, Known

LEMMA InitialCache == Init => CacheInv
<1> SUFFICES ASSUME Init PROVE CacheInv
  OBVIOUS
<1>1. StateOK
  <2>1. now \in Start .. MaxTime
    BY Numbers DEF Init
  <2>2. arrived \in [Series -> [Grid -> (0 .. MaxTime) \cup {None}]]
    BY Numbers DEF Init, Series
  <2>3. req \in [Requests -> Request]
    BY IdleRequest DEF Init
  <2> QED  BY <2>1, <2>2, <2>3 DEF StateOK
<1>2. \A q \in Requests : RequestOK(req[q]) /\ RequestRecent(req[q])
  BY DEF Init, Idle, RequestOK, RequestRecent, ReadSoFar
<1>3. DOMAIN cache = {}
  BY DEF Init
<1>4. Sized
  BY <1>3, FS_EmptySet, Numbers DEF Sized
<1> QED  BY <1>1, <1>2, <1>3, <1>4 DEF CacheInv

(* What holds of the entries and of the requests that a step leaves alone   *)
(* still holds: time only passes, and what is stored is stored now.         *)
LEMMA Passing ==
    ASSUME CacheInv, now' \in Start .. MaxTime, now' >= now,
           arrived' \in [Series -> [Grid -> (0 .. MaxTime) \cup {None}]],
           \A s \in Series, g \in Grid :
              arrived'[s][g] = arrived[s][g] \/ (arrived[s][g] = None /\ arrived'[s][g] = now)
    PROVE  /\ \A s \in Series, known, t \in Int :
                 t <= now /\ LeftOutSince(s, known, t) =>
                    \A g \in Grid : arrived'[s][g] # None /\ g \notin known => arrived'[s][g] >= t
           /\ \A k \in DOMAIN cache : k \in DOMAIN cache' /\ cache'[k] = cache[k] =>
                 (EntryOK(k, cache[k]) /\ EntryRecent(k, cache[k]))'
           /\ \A q \in Requests : req'[q] = req[q] /\ (req[q].pc # "idle" => now' - req[q].since <= Lag) =>
                 (RequestOK(req[q]) /\ RequestRecent(req[q]))'
<1>1. now \in Nat /\ now' \in Nat
  BY Numbers DEF CacheInv, StateOK
<1>2. ASSUME NEW s \in Series, NEW known, NEW t \in Int, t <= now, LeftOutSince(s, known, t),
             NEW g \in Grid, arrived'[s][g] # None, g \notin known
      PROVE  arrived'[s][g] >= t
  BY <1>1, <1>2, Numbers DEF LeftOutSince
<1>3. ASSUME NEW k \in DOMAIN cache, k \in DOMAIN cache', cache'[k] = cache[k]
      PROVE  EntryOK(k, cache[k])' /\ EntryRecent(k, cache[k])'
  <2>1. EntryOK(k, cache[k]) /\ EntryRecent(k, cache[k])
    BY DEF CacheInv
  <2>2. EntryOK(k, cache[k])'
    BY <1>1, <1>3, <2>1 DEF EntryOK
  <2>3. cache[k].storedAt - Lag \in Int /\ cache[k].storedAt - Lag <= now
    BY <1>1, <2>1, Numbers DEF EntryOK
  <2>4. ASSUME NEW s \in Inputs(k.model), NEW g \in Grid,
               arrived'[s][g] # None, g \notin cache[k].known[s]
        PROVE  arrived'[s][g] >= cache[k].storedAt - Lag
    <3>1. LeftOutSince(s, cache[k].known[s], cache[k].storedAt - Lag) /\ s \in Series
      BY <2>1, InputsAreSeries DEF EntryRecent
    <3> QED  BY <1>2, <2>3, <2>4, <3>1
  <2>5. EntryRecent(k, cache[k])'
    BY <1>3, <2>4 DEF EntryRecent, LeftOutSince
  <2> QED  BY <2>2, <2>5
<1>4. ASSUME NEW q \in Requests, req'[q] = req[q],
             req[q].pc # "idle" => now' - req[q].since <= Lag
      PROVE  RequestOK(req[q])' /\ RequestRecent(req[q])'
  <2>1. RequestOK(req[q]) /\ RequestRecent(req[q]) /\ req[q] \in Request
    BY DEF CacheInv, StateOK
  <2>2. req[q].since \in Nat
    BY <2>1 DEF Request
  <2>3. RequestOK(req[q])'
    BY <1>1, <1>4, <2>1, <2>2 DEF RequestOK
  <2>4. ASSUME NEW s \in ReadSoFar(req[q]), NEW g \in Grid,
               arrived'[s][g] # None, g \notin req[q].known[s]
        PROVE  arrived'[s][g] >= req[q].since
    <3>1. LeftOutSince(s, req[q].known[s], req[q].since) /\ s \in Series
      BY <2>1, InputsAreSeries DEF RequestRecent, ReadSoFar
    <3>2. req[q].since <= now
      BY <2>1, <2>4 DEF RequestOK, ReadSoFar
    <3> QED  BY <1>2, <2>2, <2>4, <3>1, <3>2
  <2>5. RequestRecent(req[q])'
    BY <1>4, <2>4 DEF RequestRecent, LeftOutSince, ReadSoFar
  <2> QED  BY <2>3, <2>5
<1> QED  BY <1>2, <1>3, <1>4

(* Room is made for an entry, so that the cache stays within its size.      *)
LEMMA Stored ==
    ASSUME CacheInv, NEW key, NEW e, Store(key, e)
    PROVE  /\ Sized'
           /\ cache'[key] = e
           /\ \A k \in DOMAIN cache' : k # key => k \in DOMAIN cache /\ cache'[k] = cache[k]
<1> DEFINE kept == {k \in DOMAIN cache : FreshEntry(cache[k])}
<1>1. IsFiniteSet(kept) /\ Cardinality(kept) <= MaxEntries
  BY FS_Subset, FS_CardinalityType, Numbers DEF CacheInv, Sized
<1> HIDE DEF kept
<1>2. ASSUME NEW rest \in SUBSET kept, Cardinality(rest) < MaxEntries,
             cache' = [k \in rest \cup {key} |-> IF k = key THEN e ELSE cache[k]]
      PROVE  /\ Sized'
             /\ cache'[key] = e
             /\ \A k \in DOMAIN cache' : k # key => k \in DOMAIN cache /\ cache'[k] = cache[k]
  <2>1. IsFiniteSet(rest) /\ Cardinality(rest) \in Nat
    BY <1>1, FS_Subset, FS_CardinalityType
  <2>2. /\ IsFiniteSet(rest \cup {key})
        /\ Cardinality(rest \cup {key}) <= Cardinality(rest) + 1
    BY <2>1, FS_AddElement
  <2>3. Cardinality(rest \cup {key}) \in Nat
    BY <2>2, FS_CardinalityType
  <2>4. DOMAIN cache' = rest \cup {key}
    BY <1>2
  <2>5. Sized'
    BY <1>2, <2>1, <2>2, <2>3, <2>4, Numbers DEF Sized
  <2> QED  BY <1>2, <2>4, <2>5 DEF kept
<1>3. CASE Cardinality(kept) < MaxEntries
  BY <1>2, <1>3 DEF Store, kept
<1>4. CASE ~(Cardinality(kept) < MaxEntries)
  <2>1. PICK old \in kept :
           cache' = [k \in (kept \ {old}) \cup {key} |-> IF k = key THEN e ELSE cache[k]]
    BY <1>4 DEF Store, kept
  <2>2. Cardinality(kept \ {old}) < MaxEntries
    <3>1. Cardinality(kept \ {old}) = Cardinality(kept) - 1
      BY <1>1, FS_RemoveElement
    <3>2. Cardinality(kept) \in Nat
      BY <1>1, FS_CardinalityType
    <3> QED  BY <1>1, <3>1, <3>2, Numbers
  <2> QED  BY <1>2, <2>1, <2>2
<1> QED  BY <1>3, <1>4

-----------------------------------------------------------------------------
(* The entry an answer comes from was stored less than Ttl ago, after a     *)
(* computation of at most Lag: what it left out is not older than both.     *)
LEMMA HitAnswer ==
    ASSUME CacheInv, NEW m \in Models, NEW from \in Froms, NEW h \in Horizons,
           NEW k, k = KeyOf(m, from, h), Hit(k), NEW a,
           a = Answer(m, from, h, Reanchor(cache[k].points, cache[k].computedFrom, from), cache[k].known)
    PROVE  /\ AsComputed(a.points, a.model, a.known, a.from, a.horizon)
           /\ \A s \in Inputs(a.model), g \in Grid :
                 (arrived[s][g] # None /\ arrived[s][g] + Ttl + Lag <= now) => g \in a.known[s]
<1> DEFINE e == cache[k]
           t == e.computedFrom
<1>0. k \in DOMAIN cache /\ FreshEntry(e) /\ EntryOK(k, e) /\ EntryRecent(k, e)
  BY DEF Hit, CacheInv
<1>1. k.model = m /\ k.horizon = h
  BY DEF KeyOf
<1>2. a.model = m /\ a.from = from /\ a.horizon = h /\ a.known = e.known
      /\ a.points = Reanchor(e.points, t, from)
  BY DEF Answer
<1> HIDE DEF e
<1>3. /\ t \in Int /\ from \in Int /\ h \in Int /\ e.known \in Known /\ e.storedAt \in Nat
      /\ KeyOf(m, t, h) = k
      /\ e.points = Compute(m, e.known, t, h) /\ e.points # None
  BY <1>0, <1>1, Numbers DEF EntryOK
<1>4. SameKey(t, from)
  <2>1. KeyOf(m, t, h) = KeyOf(m, from, h)
    BY <1>3
  <2>2. KeyOf(m, t, h).bucket = KeyOf(m, from, h).bucket /\ KeyOf(m, t, h).onGrid = KeyOf(m, from, h).onGrid
    BY <2>1
  <2>3. BucketOf(t) = BucketOf(from) /\ OnGrid(t) = OnGrid(from)
    BY <2>2, Zenon DEF KeyOf
  <2> QED  BY <2>3 DEF SameKey
<1>5. AsComputed(Reanchor(e.points, t, from), m, e.known, from, h)
  BY <1>3, <1>4, Reanchored
<1>6. ASSUME NEW s \in Inputs(m), NEW g \in Grid, arrived[s][g] # None,
             arrived[s][g] + Ttl + Lag <= now
      PROVE  g \in e.known[s]
  <2>1. LeftOutSince(s, e.known[s], e.storedAt - Lag) /\ s \in Series
    BY <1>0, <1>1, InputsAreSeries DEF EntryRecent
  <2>2. arrived[s][g] \in Nat /\ now \in Nat
    BY <1>6, <2>1, Numbers DEF CacheInv, StateOK
  <2>3. now - e.storedAt < Ttl
    BY <1>0 DEF FreshEntry
  <2> QED  BY <1>3, <1>6, <2>1, <2>2, <2>3, Numbers DEF LeftOutSince
<1> QED  BY <1>2, <1>5, <1>6

(* The series of a request, from all it was to read.                        *)
LEMMA ComputedAnswer ==
    ASSUME CacheInv, NEW q \in Requests, req[q].pc = "store", NEW a,
           Compute(req[q].model, req[q].known, req[q].from, req[q].horizon) # None,
           a = Answer(req[q].model, req[q].from, req[q].horizon,
                      Compute(req[q].model, req[q].known, req[q].from, req[q].horizon), req[q].known)
    PROVE  /\ AsComputed(a.points, a.model, a.known, a.from, a.horizon)
           /\ \A s \in Inputs(a.model), g \in Grid :
                 (arrived[s][g] # None /\ arrived[s][g] + Ttl + Lag <= now) => g \in a.known[s]
<1> DEFINE r == req[q]
<1>1. r \in Request /\ RequestOK(r) /\ RequestRecent(r)
  BY DEF CacheInv, StateOK
<1>2. a.model = r.model /\ a.from = r.from /\ a.horizon = r.horizon /\ a.known = r.known
      /\ a.points = Compute(r.model, r.known, r.from, r.horizon)
  BY DEF Answer
<1>3. ASSUME NEW s \in Inputs(r.model), NEW g \in Grid, arrived[s][g] # None,
             arrived[s][g] + Ttl + Lag <= now
      PROVE  g \in r.known[s]
  <2>1. LeftOutSince(s, r.known[s], r.since) /\ s \in Series
    BY <1>1, InputsAreSeries DEF RequestRecent, ReadSoFar
  <2>2. arrived[s][g] \in Nat /\ now \in Nat /\ r.since \in Nat
    BY <1>1, <1>3, <2>1, Numbers DEF CacheInv, StateOK, Request
  <2>3. now - r.since <= Lag
    BY <1>1 DEF RequestOK
  <2> QED  BY <1>3, <2>1, <2>2, <2>3, Numbers DEF LeftOutSince
<1>4. AsComputed(a.points, a.model, a.known, a.from, a.horizon)
  <2>1. r.pc = "store" /\ r.known \in Known /\ r.from \in Int /\ r.horizon \in Int
    BY <1>1, Numbers DEF RequestOK, Request
  <2> QED  BY <1>2, <2>1, Itself
<1> QED  BY <1>2, <1>3, <1>4

(* The entry of a request that ends now. *)
LEMMA NewEntry ==
    ASSUME CacheInv, NEW q \in Requests, req[q].pc = "store",
           Compute(req[q].model, req[q].known, req[q].from, req[q].horizon) # None,
           NEW k, k = KeyOf(req[q].model, req[q].from, req[q].horizon),
           NEW e, e = [storedAt |-> now, computedFrom |-> req[q].from,
                       points |-> Compute(req[q].model, req[q].known, req[q].from, req[q].horizon),
                       known |-> req[q].known]
    PROVE  EntryOK(k, e) /\ EntryRecent(k, e)
<1> DEFINE r == req[q]
<1>1. r \in Request /\ RequestOK(r) /\ RequestRecent(r) /\ now \in Nat
  BY Numbers DEF CacheInv, StateOK
<1>2. k.model = r.model /\ k.horizon = r.horizon
  BY DEF KeyOf
<1>3. e.storedAt = now /\ e.computedFrom = r.from /\ e.known = r.known
      /\ e.points = Compute(r.model, r.known, r.from, r.horizon)
  OBVIOUS
<1>4. EntryOK(k, e)
  BY <1>1, <1>2, <1>3 DEF EntryOK, RequestOK, Request
<1>5. ASSUME NEW s \in Inputs(r.model) PROVE LeftOutSince(s, r.known[s], now - Lag)
  <2>1. LeftOutSince(s, r.known[s], r.since) /\ s \in Series
    BY <1>1, InputsAreSeries DEF RequestRecent, ReadSoFar
  <2>2. r.since \in Nat /\ now - r.since <= Lag
    BY <1>1 DEF RequestOK, Request
  <2>3. ASSUME NEW g \in Grid, arrived[s][g] # None PROVE arrived[s][g] \in Nat
    BY <2>1, <2>3, Numbers DEF CacheInv, StateOK
  <2> QED  BY <1>1, <2>1, <2>2, <2>3, Numbers DEF LeftOutSince
<1> QED  BY <1>2, <1>3, <1>4, <1>5 DEF EntryRecent

(* A step in which neither the clock nor the measurements change, that      *)
(* leaves the entries alone and changes the request of q at most.           *)
LEMMA RequestStep ==
    ASSUME CacheInv, now' = now, arrived' = arrived, NEW q \in Requests,
           req' \in [Requests -> Request], \A p \in Requests \ {q} : req'[p] = req[p],
           (RequestOK(req[q]) /\ RequestRecent(req[q]))'
    PROVE  /\ StateOK'
           /\ (\A p \in Requests : RequestOK(req[p]) /\ RequestRecent(req[p]))'
           /\ cache' = cache => CacheInv'
           /\ \A k \in DOMAIN cache : k \in DOMAIN cache' /\ cache'[k] = cache[k] =>
                 (EntryOK(k, cache[k]) /\ EntryRecent(k, cache[k]))'
<1>0. /\ now \in Start .. MaxTime /\ now \in Nat
      /\ arrived \in [Series -> [Grid -> (0 .. MaxTime) \cup {None}]]
  BY Numbers DEF CacheInv, StateOK
<1>1. StateOK'
  BY <1>0 DEF StateOK
<1>2. now' \in Start .. MaxTime /\ now' >= now
      /\ arrived' \in [Series -> [Grid -> (0 .. MaxTime) \cup {None}]]
      /\ \A s \in Series, g \in Grid :
            arrived'[s][g] = arrived[s][g] \/ (arrived[s][g] = None /\ arrived'[s][g] = now)
  BY <1>0
<1>3. ASSUME NEW p \in Requests \ {q} PROVE (RequestOK(req[p]) /\ RequestRecent(req[p]))'
  <2>1. req[p].pc # "idle" => now' - req[p].since <= Lag
    BY DEF CacheInv, RequestOK
  <2> QED  BY <1>2, <2>1, Passing
<1>4. (\A p \in Requests : RequestOK(req[p]) /\ RequestRecent(req[p]))'
  BY <1>3
<1>5. \A k \in DOMAIN cache : k \in DOMAIN cache' /\ cache'[k] = cache[k] =>
         (EntryOK(k, cache[k]) /\ EntryRecent(k, cache[k]))'
  BY <1>2, Passing
<1>6. ASSUME cache' = cache PROVE CacheInv'
  <2>1. Sized'
    BY <1>6 DEF CacheInv, Sized
  <2> QED  BY <1>1, <1>4, <1>5, <1>6, <2>1 DEF CacheInv
<1> QED  BY <1>1, <1>4, <1>5, <1>6

LEMMA CacheStep == CacheInv /\ [Next]_vars => CacheInv'
<1> SUFFICES ASSUME CacheInv, [Next]_vars PROVE CacheInv'
  OBVIOUS
<1>0. /\ now \in Start .. MaxTime /\ now \in Nat
      /\ arrived \in [Series -> [Grid -> (0 .. MaxTime) \cup {None}]]
      /\ req \in [Requests -> Request]
      /\ \A q \in Requests : RequestOK(req[q]) /\ RequestRecent(req[q]) /\ req[q] \in Request
  BY Numbers DEF CacheInv, StateOK
<1>1. CASE Tick
  <2>1. now' = now + 1 /\ now' \in Start .. MaxTime /\ UNCHANGED <<arrived, cache, req>>
    BY <1>0, <1>1, Numbers DEF Tick
  <2>2. ASSUME NEW q \in Requests PROVE (RequestOK(req[q]) /\ RequestRecent(req[q]))'
    <3>1. req[q].pc # "idle" => now' - req[q].since <= Lag
      BY <1>0, <1>1, <2>1, Numbers DEF Tick, Request
    <3> QED  BY <1>0, <2>1, <3>1, Passing
  <2>3. ASSUME NEW k \in DOMAIN cache PROVE (EntryOK(k, cache[k]) /\ EntryRecent(k, cache[k]))'
    BY <1>0, <2>1, Passing
  <2>4. StateOK' /\ Sized'
    BY <1>0, <2>1 DEF CacheInv, StateOK, Sized
  <2> QED  BY <2>1, <2>2, <2>3, <2>4 DEF CacheInv
<1>2. ASSUME NEW s \in Series, NEW g \in Grid, Ingest(s, g) PROVE CacheInv'
  <2>1. /\ UNCHANGED <<now, cache, req>>
        /\ arrived' \in [Series -> [Grid -> (0 .. MaxTime) \cup {None}]]
        /\ \A x \in Series, y \in Grid :
              arrived'[x][y] = arrived[x][y] \/ (arrived[x][y] = None /\ arrived'[x][y] = now)
    BY <1>0, <1>2, Numbers DEF Ingest
  <2>2. ASSUME NEW q \in Requests PROVE (RequestOK(req[q]) /\ RequestRecent(req[q]))'
    BY <1>0, <2>1, Passing DEF RequestOK
  <2>3. ASSUME NEW k \in DOMAIN cache PROVE (EntryOK(k, cache[k]) /\ EntryRecent(k, cache[k]))'
    BY <1>0, <2>1, Passing
  <2>4. StateOK' /\ Sized'
    BY <1>0, <2>1 DEF CacheInv, StateOK, Sized
  <2> QED  BY <2>1, <2>2, <2>3, <2>4 DEF CacheInv
<1>3. ASSUME NEW q \in Requests, NEW m \in Models, NEW from \in Froms, NEW h \in Horizons,
             Ask(q, m, from, h)
      PROVE  CacheInv'
  <2> DEFINE r == [Idle EXCEPT !.pc = "mix", !.model = m, !.from = from, !.horizon = h,
                               !.cached = (BucketOf(from) = BucketOf(now)), !.since = now]
  <2>1. /\ UNCHANGED <<now, arrived, cache>>
        /\ UNCHANGED req \/ req' = [req EXCEPT ![q] = r]
    BY <1>3 DEF Ask
  <2>2. r \in Request /\ r.pc = "mix" /\ r.model = m /\ r.from = from /\ r.horizon = h /\ r.since = now
    BY <1>0 DEF Idle, Request, Known
  <2> HIDE DEF r
  <2>3. CASE UNCHANGED req
    <3>1. (RequestOK(req[q]) /\ RequestRecent(req[q]))'
      BY <1>0, <2>1, <2>3 DEF RequestOK, RequestRecent, ReadSoFar, LeftOutSince
    <3> QED  BY <1>0, <2>1, <2>3, <3>1, RequestStep
  <2>4. CASE req' = [req EXCEPT ![q] = r]
    <3>1. req'[q] = r /\ req' \in [Requests -> Request] /\ \A p \in Requests \ {q} : req'[p] = req[p]
      BY <1>0, <2>2, <2>4
    <3>2. RequestOK(req[q])'
      BY <1>0, <2>1, <2>2, <3>1, Numbers DEF RequestOK
    <3>3. RequestRecent(req[q])'
      BY <2>2, <3>1 DEF RequestRecent, ReadSoFar
    <3> QED  BY <2>1, <3>1, <3>2, <3>3, RequestStep
  <2> QED  BY <2>1, <2>3, <2>4
<1>4. ASSUME NEW q \in Requests, ReadMix(q) PROVE CacheInv'
  <2> DEFINE r == req[q]
  <2>1. UNCHANGED <<now, arrived, cache>> /\ r.pc = "mix" /\ r \in Request
        /\ RequestOK(r)
    BY <1>0, <1>4 DEF ReadMix
  <2>2. /\ DOMAIN req' = Requests /\ req' = [p \in Requests |-> req'[p]]
        /\ \A p \in Requests \ {q} : req'[p] = req[p]
        /\ req'[q].pc = IF r.model = "acv" THEN "flows" ELSE "store"
        /\ req'[q].known = [r.known EXCEPT !.mix = Measured("mix")]
        /\ req'[q].since = r.since /\ req'[q].model = r.model /\ req'[q].from = r.from
        /\ req'[q].horizon = r.horizon /\ req'[q].cached = r.cached
        /\ req'[q] \in Request
    <3>1. PICK m : m = Measured("mix") /\ m \in SUBSET Grid
      BY DEF Measured
    <3>2. PICK new : new = [r EXCEPT !.pc = IF r.model = "acv" THEN "flows" ELSE "store", !.known.mix = m]
      OBVIOUS
    <3>3. req' = [req EXCEPT ![q] = new] /\ req \in [Requests -> Request]
      BY <1>0, <1>4, <3>1, <3>2, ZenonT(30) DEF ReadMix
    <3>4. /\ new.pc = IF r.model = "acv" THEN "flows" ELSE "store"
          /\ new.known = [r.known EXCEPT !.mix = m]
          /\ new.since = r.since /\ new.model = r.model /\ new.from = r.from
          /\ new.horizon = r.horizon /\ new.cached = r.cached
          /\ new \in Request
      <4>1. PICK k : k = r.known  OBVIOUS
      <4>2. [k EXCEPT !.mix = m] \in Known
        <5>1. k \in Known  BY <2>1, <4>1 DEF Request
        <5> QED  BY <3>1, <5>1 DEF Known
      <4>3. new.known = [k EXCEPT !.mix = m]
        BY <2>1, <3>2, <4>1 DEF Request
      <4> QED  BY <2>1, <3>2, <4>1, <4>2, <4>3 DEF Request
    <3> QED  BY <3>1, <3>3, <3>4
  <2>3. req'[q].known.mix = Measured("mix")
    BY <2>1, <2>2 DEF Request, Known
  <2>4. RequestOK(req[q])'
    BY <2>1, <2>2 DEF RequestOK
  <2>5. RequestRecent(req[q])'
    BY <2>1, <2>2, <2>3 DEF RequestRecent, ReadSoFar, LeftOutSince, Measured, Inputs
  <2>6. req' \in [Requests -> Request]
    <3>1. \A p \in Requests : req'[p] \in Request
      BY <1>0, <2>2
    <3>2. req' = [p \in Requests |-> req'[p]]
      BY <2>2
    <3> QED  BY <3>1, <3>2
  <2> QED  BY <2>1, <2>2, <2>4, <2>5, <2>6, RequestStep
<1>5. ASSUME NEW q \in Requests, ReadFlows(q) PROVE CacheInv'
  <2> DEFINE r == req[q]
  <2>1. UNCHANGED <<now, arrived, cache>> /\ r.pc = "flows" /\ r \in Request
        /\ RequestOK(r) /\ RequestRecent(r)
    BY <1>0, <1>5 DEF ReadFlows
  <2>2. /\ DOMAIN req' = Requests /\ req' = [p \in Requests |-> req'[p]]
        /\ \A p \in Requests \ {q} : req'[p] = req[p]
        /\ req'[q].pc = "store"
        /\ req'[q].known = [r.known EXCEPT !.flows = Measured("flows")]
        /\ req'[q].since = r.since /\ req'[q].model = r.model /\ req'[q].from = r.from
        /\ req'[q].horizon = r.horizon /\ req'[q].cached = r.cached
        /\ req'[q] \in Request
    <3>1. PICK m : m = Measured("flows") /\ m \in SUBSET Grid
      BY DEF Measured
    <3>2. PICK new : new = [r EXCEPT !.pc = "store", !.known.flows = m]
      OBVIOUS
    <3>3. req' = [req EXCEPT ![q] = new] /\ req \in [Requests -> Request]
      BY <1>0, <1>5, <3>1, <3>2, ZenonT(30) DEF ReadFlows
    <3>4. /\ new.pc = "store" /\ new.known = [r.known EXCEPT !.flows = m]
          /\ new.since = r.since /\ new.model = r.model /\ new.from = r.from
          /\ new.horizon = r.horizon /\ new.cached = r.cached
          /\ new \in Request
      <4>1. PICK k : k = r.known  OBVIOUS
      <4>2. [k EXCEPT !.flows = m] \in Known
        <5>1. k \in Known  BY <2>1, <4>1 DEF Request
        <5> QED  BY <3>1, <5>1 DEF Known
      <4>3. new.known = [k EXCEPT !.flows = m]
        BY <2>1, <3>2, <4>1 DEF Request
      <4> QED  BY <2>1, <3>2, <4>1, <4>2, <4>3 DEF Request
    <3> QED  BY <3>1, <3>3, <3>4
  <2>3. req'[q].known.flows = Measured("flows") /\ req'[q].known.mix = r.known.mix
    BY <2>1, <2>2 DEF Request, Known
  <2>4. RequestOK(req[q])'
    BY <2>1, <2>2 DEF RequestOK
  <2>5. LeftOutSince("mix", r.known["mix"], r.since)
    BY <2>1, InputsAreSeries DEF RequestRecent, ReadSoFar
  <2>6. RequestRecent(req[q])'
    <3>1. ASSUME NEW s \in Inputs(req'[q].model)
          PROVE  \A g \in Grid : arrived'[s][g] # None /\ g \notin req'[q].known[s]
                                    => arrived'[s][g] >= req'[q].since
      <4>1. s \in {"mix", "flows"}
        BY InputsAreSeries, <2>2, <2>1 DEF Series
      <4>2. CASE s = "mix"
        BY <2>1, <2>2, <2>3, <2>5, <4>2 DEF LeftOutSince
      <4>3. CASE s = "flows"
        BY <2>1, <2>2, <2>3, <4>3 DEF LeftOutSince, Measured
      <4> QED  BY <4>1, <4>2, <4>3
    <3> QED  BY <3>1 DEF RequestRecent, ReadSoFar, LeftOutSince
  <2>7. req' \in [Requests -> Request]
    <3>1. \A p \in Requests : req'[p] \in Request
      BY <1>0, <2>2
    <3>2. req' = [p \in Requests |-> req'[p]]
      BY <2>2
    <3> QED  BY <3>1, <3>2
  <2> QED  BY <2>1, <2>2, <2>4, <2>6, <2>7, RequestStep
<1>6. ASSUME NEW q \in Requests, req' = [req EXCEPT ![q] = Idle], UNCHANGED <<now, arrived>>
      PROVE  /\ StateOK'
             /\ (\A p \in Requests : RequestOK(req[p]) /\ RequestRecent(req[p]))'
             /\ cache' = cache => CacheInv'
             /\ \A k \in DOMAIN cache : k \in DOMAIN cache' /\ cache'[k] = cache[k] =>
                   (EntryOK(k, cache[k]) /\ EntryRecent(k, cache[k]))'
  <2>1. req'[q] = Idle /\ req' \in [Requests -> Request] /\ \A p \in Requests \ {q} : req'[p] = req[p]
    BY <1>0, <1>6, IdleRequest
  <2>2. (RequestOK(req[q]) /\ RequestRecent(req[q]))'
    BY <2>1, IdleRequest DEF RequestOK, RequestRecent, ReadSoFar
  <2> QED  BY <1>6, <2>1, <2>2, RequestStep
<1>7. ASSUME NEW q \in Requests, Finish(q) PROVE CacheInv'
  <2> DEFINE r == req[q]
             points == Compute(r.model, r.known, r.from, r.horizon)
             key == KeyOf(r.model, r.from, r.horizon)
             entry == [storedAt |-> now, computedFrom |-> r.from, points |-> points, known |-> r.known]
  <2>1. /\ req' = [req EXCEPT ![q] = Idle] /\ UNCHANGED <<now, arrived>> /\ r.pc = "store"
        /\ cache' = cache \/ (points # None /\ Store(key, entry))
    BY <1>7, Zenon DEF Finish
  <2>2. CASE cache' = cache
    BY <1>6, <2>1, <2>2
  <2>3. CASE points # None /\ Store(key, entry)
    <3>0. PICK k, e : k = key /\ e = entry
      OBVIOUS
    <3>1. EntryOK(k, e) /\ EntryRecent(k, e)
      BY <2>1, <2>3, <3>0, NewEntry
    <3>2. /\ Sized'
          /\ cache'[k] = e
          /\ \A x \in DOMAIN cache' : x # k => x \in DOMAIN cache /\ cache'[x] = cache[x]
      BY <2>3, <3>0, Stored
    <3>3. ASSUME NEW x \in DOMAIN cache', x # k PROVE (EntryOK(x, cache[x]) /\ EntryRecent(x, cache[x]))'
      BY <1>6, <2>1, <3>2, <3>3
    <3>4. (EntryOK(k, cache[k]) /\ EntryRecent(k, cache[k]))'
      BY <2>1, <3>1, <3>2 DEF EntryOK, EntryRecent, LeftOutSince
    <3>5. StateOK' /\ (\A p \in Requests : RequestOK(req[p]) /\ RequestRecent(req[p]))'
      BY <1>6, <2>1
    <3> QED  BY <3>2, <3>3, <3>4, <3>5 DEF CacheInv
  <2> QED  BY <2>1, <2>2, <2>3
<1>8. ASSUME NEW q \in Requests, Abandon(q) PROVE CacheInv'
  BY <1>6, <1>8 DEF Abandon
<1>9. CASE UNCHANGED vars
  <2>1. UNCHANGED <<now, arrived, cache, req>>
    BY <1>9 DEF vars
  <2>2. ASSUME NEW q \in Requests PROVE (RequestOK(req[q]) /\ RequestRecent(req[q]))'
    BY <1>0, <2>1, Passing DEF RequestOK
  <2>3. ASSUME NEW k \in DOMAIN cache PROVE (EntryOK(k, cache[k]) /\ EntryRecent(k, cache[k]))'
    BY <1>0, <2>1, Passing
  <2>4. StateOK' /\ Sized'
    BY <2>1 DEF CacheInv, StateOK, Sized
  <2> QED  BY <2>1, <2>2, <2>3, <2>4 DEF CacheInv
<1> QED  BY <1>1, <1>2, <1>3, <1>4, <1>5, <1>7, <1>8, <1>9 DEF Next

LEMMA CacheInvariant == Spec => []CacheInv
BY InitialCache, CacheStep, PTL DEF Spec

-----------------------------------------------------------------------------
(* An answer is given by a hit or by the end of a computation, and the      *)
(* clock, the measurements and the size of the cache are then those of the  *)
(* state in which it was given.                                             *)
LEMMA AnswerStep == CacheInv /\ CacheInv' /\ AnswerOK /\ [Next]_vars => AnswerOK'
<1> SUFFICES ASSUME CacheInv, CacheInv', AnswerOK, [Next]_vars PROVE AnswerOK'
  OBVIOUS
<1>1. ASSUME answer' = None PROVE AnswerOK'
  BY <1>1 DEF AnswerOK, ServedAsComputed, StalenessBounded, CacheInv, Sized
<1>2. ASSUME UNCHANGED <<now, arrived>>, NEW a, answer' = a,
             AsComputed(a.points, a.model, a.known, a.from, a.horizon),
             \A s \in Inputs(a.model), g \in Grid :
                (arrived[s][g] # None /\ arrived[s][g] + Ttl + Lag <= now) => g \in a.known[s]
      PROVE  AnswerOK'
  BY <1>2 DEF AnswerOK, ServedAsComputed, StalenessBounded, CacheInv, Sized
<1>3. CASE answer' = None
  BY <1>1, <1>3
<1>4. ASSUME NEW q \in Requests, NEW m \in Models, NEW from \in Froms, NEW h \in Horizons,
             Ask(q, m, from, h), answer' # None
      PROVE  AnswerOK'
  <2> DEFINE k == KeyOf(m, from, h)
             a == Answer(m, from, h, Reanchor(cache[k].points, cache[k].computedFrom, from), cache[k].known)
  <2>1. Hit(k) /\ answer' = a /\ UNCHANGED <<now, arrived>>
    BY <1>4, Zenon DEF Ask
  <2> HIDE DEF a
  <2>2. /\ AsComputed(a.points, a.model, a.known, a.from, a.horizon)
        /\ \A s \in Inputs(a.model), g \in Grid :
              (arrived[s][g] # None /\ arrived[s][g] + Ttl + Lag <= now) => g \in a.known[s]
    BY <2>1, HitAnswer DEF a
  <2> QED  BY <1>2, <2>1, <2>2
<1>5. ASSUME NEW q \in Requests, Finish(q), answer' # None PROVE AnswerOK'
  <2> DEFINE r == req[q]
             a == Answer(r.model, r.from, r.horizon, Compute(r.model, r.known, r.from, r.horizon), r.known)
  <2>1. /\ answer' = a /\ UNCHANGED <<now, arrived>> /\ r.pc = "store"
        /\ Compute(r.model, r.known, r.from, r.horizon) # None
    BY <1>5, Zenon DEF Finish
  <2> HIDE DEF a
  <2>2. /\ AsComputed(a.points, a.model, a.known, a.from, a.horizon)
        /\ \A s \in Inputs(a.model), g \in Grid :
              (arrived[s][g] # None /\ arrived[s][g] + Ttl + Lag <= now) => g \in a.known[s]
    BY <2>1, ComputedAnswer DEF a
  <2> QED  BY <1>2, <2>1, <2>2
<1>6. CASE UNCHANGED vars
  BY <1>6 DEF vars, AnswerOK, ServedAsComputed, StalenessBounded
<1>7. ASSUME answer' # None, Next
      PROVE  \E q \in Requests :
                \/ \E m \in Models, from \in Froms, h \in Horizons : Ask(q, m, from, h)
                \/ Finish(q)
  BY <1>7 DEF Next, Tick, Ingest, ReadMix, ReadFlows, Abandon
<1> QED  BY <1>3, <1>4, <1>5, <1>6, <1>7

LEMMA InitialAnswer == Init => AnswerOK
<1> SUFFICES ASSUME Init PROVE AnswerOK
  OBVIOUS
<1>1. Sized /\ answer = None
  BY InitialCache DEF Init, CacheInv
<1> QED  BY <1>1 DEF AnswerOK, ServedAsComputed, StalenessBounded, Sized

LEMMA AnswerInvariant == Spec => []AnswerOK
<1>1. CacheInv /\ CacheInv' /\ AnswerOK /\ [Next]_vars => AnswerOK'
  BY AnswerStep
<1> QED  BY <1>1, InitialAnswer, CacheInvariant, PTL DEF Spec

(* Shape of the state: each entry is under the key of what it was computed  *)
(* for, and no request runs for longer than Lag.                            *)
THEOREM TypeCorrect == Spec => []TypeOK
<1>1. CacheInv => TypeOK
  <2> SUFFICES ASSUME CacheInv PROVE TypeOK
    OBVIOUS
  <2>1. ASSUME NEW q \in Requests
        PROVE  /\ req[q].pc \in {"idle", "mix", "flows", "store"} /\ req[q].known \in Known
               /\ req[q].pc # "idle" => now - req[q].since \in 0 .. Lag
    BY Numbers DEF CacheInv, StateOK, Request, RequestOK
  <2> QED  BY <2>1 DEF TypeOK, CacheInv, StateOK, EntryOK
<1> QED  BY <1>1, CacheInvariant, PTL

(* Re-anchoring (CachedForecaster::forecast, reanchor): an answer taken     *)
(* from an entry computed for another start of the bucket has the points,   *)
(* samples, anchors and bands that the model would compute for the start    *)
(* asked for from the same history, and biases that have faded for times    *)
(* less than a bucket apart, because instants on the grid have an entry of  *)
(* their own.                                                               *)
THEOREM AnswersAsComputed == Spec => []ServedAsComputed
<1>1. AnswerOK => ServedAsComputed
  BY DEF AnswerOK
<1> QED  BY <1>1, AnswerInvariant, PTL

(* Staleness (CachedForecaster's lookup and store): the cache keeps within  *)
(* CACHE_MAX_ENTRIES, and no answer leaves out a measurement stored more    *)
(* than a time to live and the duration of a computation ago, even one      *)
(* stored while the entry was being computed.                               *)
THEOREM StalenessHolds == Spec => []StalenessBounded
<1>1. AnswerOK => StalenessBounded
  BY DEF AnswerOK
<1> QED  BY <1>1, AnswerInvariant, PTL
=============================================================================
