----------------------------- MODULE ForecastCache -----------------------------
(***************************************************************************)
(* CachedForecaster: forecasts are computed when they are read and kept in *)
(* memory for one interval of the poller.  A computation reads the history *)
(* from the database and stores its result later; meanwhile measurements   *)
(* arrive, other requests compute the same series, the clock advances.     *)
(* An entry computed for one instant of a bucket answers the others, each  *)
(* with the series moved to its own start.                                 *)
(*                                                                         *)
(* The history is the set of instants measured so far, for the mix and for *)
(* the imports.  The answer given last is visible only in the state right  *)
(* after it, when the clock still shows the time at which it was given.    *)
(***************************************************************************)
EXTENDS Integers, FiniteSets

CONSTANTS
    Requests,
    Models,      \* the forecasters wrapped: "climatology", "acv"
    Grid,        \* instants of the measurements
    Froms,       \* starts asked for, in the current bucket or not
    Horizons,    \* horizons asked for
    Bucket,      \* CACHE_BUCKET_SECS
    Ttl,         \* time to live of an entry, the interval of the poller
    MaxEntries,  \* CACHE_MAX_ENTRIES
    Lag,         \* bound of a request (request_timeout)
    Start, MaxTime,
    Step, Week, Weeks, Bands, MaxSteps, MaxAge, None

VARIABLES
    now,
    arrived,  \* arrived[s][g]: when instant g of series s was stored, or None
    cache,    \* entries, by key
    req,      \* req[q]: the computation of request q
    answer    \* the answer given by the last step, or None

vars == <<now, arrived, cache, req, answer>>

Clim == INSTANCE Climatology

Series == {"mix", "flows"}

ASSUME CacheAssumption ==
    /\ Models \subseteq {"climatology", "acv"}
    /\ Grid \subseteq Nat /\ \A g \in Grid : g % Bucket = 0
    /\ Bucket \in Nat \ {0} /\ Step % Bucket = 0 /\ Week % Bucket = 0
    /\ Weeks \in Nat \ {0} /\ Bands \in Nat /\ MaxSteps \in Nat /\ MaxAge \in Nat
    /\ Step \in Nat \ {0} /\ Week \in Nat \ {0} /\ Week % Step = 0
    /\ Ttl \in Nat \ {0} /\ MaxEntries \in Nat \ {0} /\ Lag \in Nat
    /\ Froms \subseteq Nat /\ Horizons \subseteq Int
    /\ Start \in Nat /\ MaxTime \in Nat /\ Start <= MaxTime
    /\ None \notin Nat

BucketOf(t) == t \div Bucket
OnGrid(t) == t % Bucket = 0

(* CacheKey: an instant on the grid has an entry of its own, its history    *)
(* being shifted by one sample.                                             *)
KeyIgnoringGrid(m, from, h) ==
    [model |-> m, bucket |-> BucketOf(from), onGrid |-> TRUE, horizon |-> h]

KeyOf(m, from, h) ==
    [model |-> m, bucket |-> BucketOf(from), onGrid |-> OnGrid(from), horizon |-> h]

(* What the model computes for from when the instants of known are stored;  *)
(* acv exists for the nation only, the one region here.                     *)
Compute(m, known, from, h) ==
    IF m = "acv"
    THEN Clim!AcvForecast(Clim!History(known.mix, from), Clim!History(known.flows, from), from, h)
    ELSE Clim!Forecast(Clim!History(known.mix, from), from, h)

(* reanchor: each point keeps its rank and its values, the fading of its    *)
(* bias included.                                                           *)
Reanchor(points, computedFrom, from) ==
    [k \in DOMAIN points |-> [points[k] EXCEPT !.at = @ + from - computedFrom]]

FreshIgnoringTtl(e) == TRUE

FreshEntry(e) == now - e.storedAt < Ttl

(* lookup *)
Hit(key) == key \in DOMAIN cache /\ FreshEntry(cache[key])

(* store: drop what has expired, make room by evicting an oldest entry, insert *)
Store(key, e) ==
    LET kept == {k \in DOMAIN cache : FreshEntry(cache[k])}
        Keep(rest) == cache' = [k \in rest \cup {key} |-> IF k = key THEN e ELSE cache[k]]
    IN  IF Cardinality(kept) < MaxEntries THEN Keep(kept)
        ELSE \E old \in kept :
                /\ \A k \in kept : cache[old].storedAt <= cache[k].storedAt
                /\ Keep(kept \ {old})

Idle == [pc |-> "idle", model |-> None, from |-> None, horizon |-> None, cached |-> FALSE,
         since |-> 0, known |-> [mix |-> {}, flows |-> {}]]

Measured(s) == {g \in Grid : arrived[s][g] # None}

Answer(m, from, h, points, known) ==
    [model |-> m, from |-> from, horizon |-> h, points |-> points, known |-> known]

-----------------------------------------------------------------------------
Init ==
    /\ now = Start
    /\ \E late \in SUBSET {g \in Grid : g < Start} :
          arrived = [mix |-> [g \in Grid |-> IF g < Start /\ g \notin late THEN 0 ELSE None],
                     flows |-> [g \in Grid |-> IF g < Start THEN 0 ELSE None]]
    /\ cache = <<>>
    /\ req = [q \in Requests |-> Idle]
    /\ answer = None

(* Time passes; a computation still running at its deadline is dropped      *)
(* first, so the clock waits for it.                                        *)
Tick ==
    /\ now < MaxTime
    /\ \A q \in Requests : req[q].pc # "idle" => now - req[q].since < Lag
    /\ now' = now + 1
    /\ answer' = None
    /\ UNCHANGED <<arrived, cache, req>>

(* A measurement is stored, late or not. *)
Ingest(s, g) ==
    /\ g <= now /\ arrived[s][g] = None
    /\ arrived' = [arrived EXCEPT ![s][g] = now]
    /\ answer' = None
    /\ UNCHANGED <<now, cache, req>>

(* forecast: only a request for the current bucket may use the cache.       *)
Ask(q, m, from, h) ==
    LET key == KeyOf(m, from, h)
        current == BucketOf(from) = BucketOf(now)
    IN  /\ req[q].pc = "idle"
        /\ IF current /\ Hit(key)
           THEN /\ answer' = Answer(m, from, h, Reanchor(cache[key].points,
                                                         cache[key].computedFrom, from),
                                    cache[key].known)
                /\ UNCHANGED req
           ELSE /\ req' = [req EXCEPT ![q] = [Idle EXCEPT !.pc = "mix", !.model = m,
                                !.from = from, !.horizon = h, !.cached = current, !.since = now]]
                /\ answer' = None
        /\ UNCHANGED <<now, arrived, cache>>

(* The history is read, for acv in two queries. *)
ReadMix(q) ==
    /\ req[q].pc = "mix"
    /\ req' = [req EXCEPT ![q].pc = IF req[q].model = "acv" THEN "flows" ELSE "store",
                          ![q].known.mix = Measured("mix")]
    /\ answer' = None
    /\ UNCHANGED <<now, arrived, cache>>

ReadFlows(q) ==
    /\ req[q].pc = "flows"
    /\ req' = [req EXCEPT ![q].pc = "store", ![q].known.flows = Measured("flows")]
    /\ answer' = None
    /\ UNCHANGED <<now, arrived, cache>>

(* The series is computed, stored and answered; an error is not stored.     *)
Finish(q) ==
    LET r == req[q]
        points == Compute(r.model, r.known, r.from, r.horizon)
        entry == [storedAt |-> now, computedFrom |-> r.from, points |-> points,
                  known |-> r.known]
    IN  /\ r.pc = "store"
        /\ req' = [req EXCEPT ![q] = Idle]
        /\ IF points = None
           THEN answer' = None /\ UNCHANGED cache
           ELSE /\ answer' = Answer(r.model, r.from, r.horizon, points, r.known)
                /\ IF r.cached THEN Store(KeyOf(r.model, r.from, r.horizon), entry)
                   ELSE UNCHANGED cache
        /\ UNCHANGED <<now, arrived>>

(* The database fails, the client leaves, or the deadline passes. *)
Abandon(q) ==
    /\ req[q].pc # "idle"
    /\ req' = [req EXCEPT ![q] = Idle]
    /\ answer' = None
    /\ UNCHANGED <<now, arrived, cache>>

Next ==
    \/ Tick
    \/ \E s \in Series, g \in Grid : Ingest(s, g)
    \/ \E q \in Requests :
          \/ \E m \in Models, from \in Froms, h \in Horizons : Ask(q, m, from, h)
          \/ ReadMix(q)
          \/ ReadFlows(q)
          \/ Finish(q)
          \/ Abandon(q)

Spec == Init /\ [][Next]_vars

-----------------------------------------------------------------------------
Known == [mix : SUBSET Grid, flows : SUBSET Grid]

(* Shape of the state; an entry is under the key of what it was computed    *)
(* for.                                                                     *)
TypeOK ==
    /\ now \in Start .. MaxTime
    /\ arrived \in [Series -> [Grid -> (0 .. MaxTime) \cup {None}]]
    /\ \A k \in DOMAIN cache :
          /\ k.model \in Models /\ k.horizon \in Horizons
          /\ cache[k].storedAt <= now
          /\ KeyOf(k.model, cache[k].computedFrom, k.horizon) = k
    /\ \A q \in Requests :
          /\ req[q].pc \in {"idle", "mix", "flows", "store"}
          /\ req[q].known \in Known
          /\ req[q].pc # "idle" => now - req[q].since \in 0 .. Lag

(* What the series of a model depends on. *)
Inputs(m) == IF m = "acv" THEN Series ELSE {"mix"}

(* Two values of a channel for the same slot and from the same samples,     *)
(* whose biases have faded for times less than a bucket apart.              *)
CloseChannels(c, d) ==
    /\ c.mean = d.mean /\ c.anchor = d.anchor /\ c.climoT0 = d.climoT0
    /\ c.age - d.age \in -(Bucket - 1) .. Bucket - 1

ClosePoints(m, p, q) ==
    /\ p.at = q.at /\ p.band = q.band
    /\ IF m = "acv" THEN /\ CloseChannels(p.inputs.mix, q.inputs.mix)
                         /\ CloseChannels(p.inputs.flows, q.inputs.flows)
       ELSE CloseChannels(p.inputs, q.inputs)

(* The series points is what the model computes for from when known is      *)
(* stored, up to the age of the last observation.                           *)
AsComputed(points, m, known, from, h) ==
    LET computed == Compute(m, known, from, h)
    IN  /\ ~Clim!Refused(h) /\ \A s \in Inputs(m) : Clim!History(known[s], from) # {}
        /\ DOMAIN points = DOMAIN computed
        /\ \A k \in DOMAIN computed : ClosePoints(m, points[k], computed[k])

(* Re-anchoring: whatever the entry an answer comes from, each of its       *)
(* points has the instant, the samples, the anchor and the band that the    *)
(* model computes for the start that was asked for, from the history the    *)
(* entry was computed from; only the fading of the bias, exp(-dt/tau), is   *)
(* that of another start of the bucket.                                     *)
ServedAsComputed ==
    answer # None =>
        AsComputed(answer.points, answer.model, answer.known, answer.from, answer.horizon)

(* Bounded staleness: an answer takes into account every measurement stored *)
(* at least Ttl plus the duration of a computation before, even when it was *)
(* stored while a slower computation of the same entry was running.  That   *)
(* is with the cache kept within MaxEntries whatever is asked.               *)
StalenessBounded ==
    /\ Cardinality(DOMAIN cache) <= MaxEntries
    /\ answer # None =>
        \A s \in Inputs(answer.model), g \in Grid :
            (arrived[s][g] # None /\ arrived[s][g] + Ttl + Lag <= now) => g \in answer.known[s]
=============================================================================
