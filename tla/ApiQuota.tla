-------------------------------- MODULE ApiQuota --------------------------------
(***************************************************************************)
(* The edge middleware of adapter-http (enforce): who is calling, and how  *)
(* many requests that caller may still send in the current minute.         *)
(*                                                                         *)
(* Requests run in parallel; each critical section of the limiter or of a  *)
(* key cache is one action, and the resolution of a key is a query during  *)
(* which anything may happen: other requests, a revocation from another    *)
(* process, the change of minute.  A request keeps the time it read on     *)
(* arrival.                                                                *)
(***************************************************************************)
EXTENDS Naturals, FiniteSets

CONSTANTS
    Requests,      \* requests in flight at the same time
    Ips,           \* "ip:" buckets
    ApiKeys,          \* API keys (their hashes); each has a "key:" bucket
    NoKey,         \* a request without a bearer token
    Overflow,      \* OVERFLOW_BUCKET_ID
    AnonLimit,     \* anonymous_per_min
    KeyLimit,      \* free_per_min
    MaxTracked,    \* RATE_LIMITER_MAX_TRACKED
    CacheMax,      \* NEGATIVE_CACHE_MAX and POSITIVE_CACHE_MAX
    Ttl,           \* NEGATIVE_CACHE_TTL_SECS and POSITIVE_CACHE_TTL_SECS
    Minute,        \* clock ticks of a minute
    MaxTime        \* bound: end of the clock

Ids == Ips \cup ApiKeys \cup {Overflow}

ASSUME QuotaAssumption ==
    /\ IsFiniteSet(Ips) /\ IsFiniteSet(ApiKeys) /\ NoKey \notin Ips \cup ApiKeys
    /\ Overflow \notin Ips \cup ApiKeys /\ Ips \cap ApiKeys = {}
    /\ AnonLimit \in Nat \ {0} /\ KeyLimit \in Nat \ {0} /\ AnonLimit <= KeyLimit
    /\ MaxTracked \in Nat /\ CacheMax \in Nat \ {0}
    /\ Ttl \in Nat \ {0} /\ Minute \in Nat \ {0} /\ MaxTime \in Nat

VARIABLES
    clock,
    key,         \* key[k]: its status in api_key, and since when
    tracked,     \* buckets present in RateLimiter.windows
    window,      \* window[id]: minute and count of a tracked bucket
    lastPurge,   \* last_purge_minute
    negative,    \* negative[k]: expiry of the entry of k, 0 without
    positive,    \* positive[k]: likewise
    req,         \* req[r]: where request r is and what it has read
    charged,     \* history: charged[id], answers charged to a bucket in this minute
    straddled    \* history: a request met the limiter after its minute

quota == <<tracked, window, lastPurge, charged, straddled>>
quotaVars == <<clock, key, quota, negative, positive, req>>

Window(minute, count) == [minute |-> minute, count |-> count]
Request(pc, ip, k, now) == [pc |-> pc, ip |-> ip, key |-> k, now |-> now]
KeyState(status, since) == [status |-> status, since |-> since]

MinuteOf(t) == t \div Minute
Free == Request("idle", NoKey, NoKey, 0)
Goto(r, pc) == req' = [req EXCEPT ![r] = Request(pc, req[r].ip, req[r].key, req[r].now)]
Answer(r) == req' = [req EXCEPT ![r] = Free]

-----------------------------------------------------------------------------
(* RateLimiter.  The buckets kept by purge(minute): it runs once per change *)
(* of minute.                                                               *)
Kept(minute) ==
    IF minute = lastPurge THEN tracked ELSE {id \in tracked : window[id].minute = minute}

Counts(kept) == [id \in Ids |-> IF id \in kept THEN window[id] ELSE Window(0, 0)]

(* effective_id: a new bucket of a full map is the overflow bucket.         *)
EffectiveLate(kept, id) ==
    IF Cardinality(kept) > MaxTracked /\ id \notin kept THEN Overflow ELSE id

Effective(kept, id) ==
    IF Cardinality(kept) >= MaxTracked /\ id \notin kept THEN Overflow ELSE id

Used(kept, id, minute) ==
    IF id \in kept /\ window[id].minute = minute THEN window[id].count ELSE 0

Admits(wanted, limit, minute) ==
    LET kept == Kept(minute) IN Used(kept, Effective(kept, wanted), minute) < limit

(* The histories: the charges of the minute lastPurge, counted until some   *)
(* request meets the limiter after its minute.                              *)
NoneServed == [id \in Ids |-> 0]

Charge(id, minute, admits) ==
    LET before == IF minute = lastPurge THEN charged ELSE NoneServed
    IN  /\ straddled' = (straddled \/ minute < lastPurge)
        /\ charged' = IF straddled' THEN NoneServed
                     ELSE IF admits THEN [before EXCEPT ![id] = @ + 1] ELSE before

(* check(id, limit, minute): charges the bucket when it is under the limit. *)
CheckAtLimit(wanted, limit, minute) ==
    LET kept == Kept(minute)
        id == Effective(kept, wanted)
        used == Used(kept, id, minute)
    IN  /\ tracked' = kept \cup {id}
        /\ lastPurge' = minute
        /\ window' = [Counts(kept) EXCEPT ![id] = Window(minute, IF used <= limit THEN used + 1 ELSE used)]
        /\ Charge(id, minute, used <= limit)

Check(wanted, limit, minute) ==
    LET kept == Kept(minute)
        id == Effective(kept, wanted)
        used == Used(kept, id, minute)
    IN  /\ tracked' = kept \cup {id}
        /\ lastPurge' = minute
        /\ window' = [Counts(kept) EXCEPT ![id] = Window(minute, IF used < limit THEN used + 1 ELSE used)]
        /\ Charge(id, minute, used < limit)

(* The caches.  A full cache drops its expired entries; still full, it does *)
(* not remember.                                                            *)
Remembered(cache, k, now) ==
    LET entries == {h \in ApiKeys : cache[h] # 0}
        live == {h \in entries : cache[h] > now}
        kept == IF Cardinality(entries) >= CacheMax THEN live ELSE entries
    IN  [h \in ApiKeys |->
            IF h = k /\ Cardinality(kept) < CacheMax THEN now + Ttl
            ELSE IF h \in kept THEN cache[h] ELSE 0]
-----------------------------------------------------------------------------
QuotaInit ==
    /\ clock = 1
    /\ key = [k \in ApiKeys |-> KeyState("unknown", 0)]
    /\ tracked = {}
    /\ window = [id \in Ids |-> Window(0, 0)]
    /\ lastPurge = 0
    /\ negative = [k \in ApiKeys |-> 0]
    /\ positive = [k \in ApiKeys |-> 0]
    /\ req = [r \in Requests |-> Free]
    /\ charged = NoneServed
    /\ straddled = FALSE

Tick ==
    /\ clock < MaxTime
    /\ clock' = clock + 1
    /\ UNCHANGED <<key, quota, negative, positive, req>>

(* mint-key and revoke-key, from another process.                           *)
MintKey(k) ==
    /\ key[k].status = "unknown"
    /\ key' = [key EXCEPT ![k] = KeyState("valid", clock)]
    /\ UNCHANGED <<clock, quota, negative, positive, req>>

RevokeKey(k) ==
    /\ key[k].status = "valid"
    /\ key' = [key EXCEPT ![k] = KeyState("revoked", clock)]
    /\ UNCHANGED <<clock, quota, negative, positive, req>>

(* A new request under /v1: the time is read once.                          *)
Arrive(r, ip, k) ==
    /\ req[r].pc = "idle"
    /\ req' = [req EXCEPT ![r] = Request(IF k = NoKey THEN "check" ELSE "negative", ip, k, clock)]
    /\ UNCHANGED <<clock, key, quota, negative, positive>>

(* The negative cache: a key known to be invalid is refused at once.        *)
KnownInvalid(r) ==
    /\ req[r].pc = "negative"
    /\ Goto(r, IF negative[req[r].key] > req[r].now THEN "refuse" ELSE "exhausted")
    /\ UNCHANGED <<clock, key, quota, negative, positive>>

(* An exhausted anonymous bucket refuses before the database is asked.  The *)
(* test charges nothing, but it purges.                                     *)
AnonExhausted(r) ==
    /\ req[r].pc = "exhausted"
    /\ LET minute == MinuteOf(req[r].now)
       IN  /\ IF Admits(req[r].ip, AnonLimit, minute) THEN Goto(r, "cached") ELSE Answer(r)
           /\ tracked' = Kept(minute)
           /\ window' = Counts(Kept(minute))
           /\ lastPurge' = minute
           /\ Charge(req[r].ip, minute, FALSE)
    /\ UNCHANGED <<clock, key, negative, positive>>

(* The positive cache: a key known to be valid needs no query.              *)
Cached(r) ==
    /\ req[r].pc = "cached"
    /\ Goto(r, IF positive[req[r].key] > req[r].now THEN "check" ELSE "resolve")
    /\ UNCHANGED <<clock, key, quota, negative, positive>>

(* resolve(&hash).await: the row is read at some instant of the query.      *)
Resolve(r) ==
    /\ req[r].pc = "resolve"
    /\ Goto(r, IF key[req[r].key].status = "valid" THEN "remember" ELSE "forget")
    /\ UNCHANGED <<clock, key, quota, negative, positive>>

ResolveFails(r) ==
    /\ req[r].pc = "resolve"
    /\ Goto(r, "fail")
    /\ UNCHANGED <<clock, key, quota, negative, positive>>

(* The client leaves during the query: the server drops the request, and    *)
(* nothing is charged or remembered.                                        *)
Disconnect(r) ==
    /\ req[r].pc = "resolve"
    /\ Answer(r)
    /\ UNCHANGED <<clock, key, quota, negative, positive>>

(* The answer is remembered from the time of arrival, not from now.         *)
RememberFromNow(r) ==
    /\ req[r].pc = "remember"
    /\ positive' = Remembered(positive, req[r].key, clock)
    /\ Goto(r, "check")
    /\ UNCHANGED <<clock, key, quota, negative>>

Remember(r) ==
    /\ req[r].pc = "remember"
    /\ positive' = Remembered(positive, req[r].key, req[r].now)
    /\ Goto(r, "check")
    /\ UNCHANGED <<clock, key, quota, negative>>

RememberInvalid(r) ==
    /\ req[r].pc = "forget"
    /\ negative' = Remembered(negative, req[r].key, req[r].now)
    /\ Goto(r, "refuse")
    /\ UNCHANGED <<clock, key, quota, positive>>

(* auth_failure_response: the failure is charged to the address, and a      *)
(* full bucket answers 429 in its place.                                    *)
AuthFailure(r) ==
    /\ req[r].pc \in {"refuse", "fail"}
    /\ Check(req[r].ip, AnonLimit, MinuteOf(req[r].now))
    /\ Answer(r)
    /\ UNCHANGED <<clock, key, negative, positive>>

(* The quota of the caller: the handler runs, or 429.                       *)
Enforce(r) ==
    /\ req[r].pc = "check"
    /\ LET anonymous == req[r].key = NoKey
       IN  Check(IF anonymous THEN req[r].ip ELSE req[r].key,
                 IF anonymous THEN AnonLimit ELSE KeyLimit, MinuteOf(req[r].now))
    /\ Answer(r)
    /\ UNCHANGED <<clock, key, negative, positive>>

Step(r) ==
    \/ \E ip \in Ips, k \in ApiKeys \cup {NoKey} : Arrive(r, ip, k)
    \/ KnownInvalid(r) \/ AnonExhausted(r) \/ Cached(r)
    \/ Resolve(r) \/ ResolveFails(r) \/ Disconnect(r) \/ Remember(r) \/ RememberInvalid(r)
    \/ AuthFailure(r) \/ Enforce(r)

QuotaNext ==
    \/ Tick
    \/ \E k \in ApiKeys : MintKey(k) \/ RevokeKey(k)
    \/ \E r \in Requests : Step(r)

QuotaSpec == QuotaInit /\ [][QuotaNext]_quotaVars

-----------------------------------------------------------------------------
Resolving == {"negative", "exhausted", "cached", "resolve", "remember", "forget", "refuse", "fail"}

KeyStates == [status : {"unknown", "valid", "revoked"}, since : Nat]
Windows == [minute : Nat, count : 0 .. KeyLimit]
RequestStates ==
    {Free} \cup [pc : Resolving, ip : Ips, key : ApiKeys, now : Nat]
           \cup [pc : {"check"}, ip : Ips, key : ApiKeys \cup {NoKey}, now : Nat]

QuotaTypeOK ==
    /\ clock \in Nat
    /\ key \in [ApiKeys -> KeyStates]
    /\ tracked \subseteq Ids
    /\ window \in [Ids -> Windows]
    /\ lastPurge \in Nat
    /\ negative \in [ApiKeys -> Nat] /\ positive \in [ApiKeys -> Nat]
    /\ req \in [Requests -> RequestStates]
    /\ charged \in [Ids -> Nat] /\ straddled \in BOOLEAN

(* The maps stay bounded whatever callers and keys come: the tracked        *)
(* buckets by their cap and the shared overflow, each cache by its maximum. *)
Bounded ==
    /\ Cardinality(tracked) <= MaxTracked + 1
    /\ Cardinality({k \in ApiKeys : negative[k] # 0}) <= CacheMax
    /\ Cardinality({k \in ApiKeys : positive[k] # 0}) <= CacheMax

(* POSITIVE_CACHE_TTL_SECS: a request that arrives one TTL or more after a  *)
(* revocation is not admitted with that key, even if another request read   *)
(* the key just before the revocation and remembered it long after.         *)
RevokedRefused ==
    \A r \in Requests : req[r].pc = "check" /\ req[r].key # NoKey =>
        LET k == key[req[r].key]
        IN  \/ k.status = "valid"
            \/ k.status = "revoked" /\ req[r].now < k.since + Ttl

(* NEGATIVE_CACHE_TTL_SECS: a request that arrives one TTL or more after    *)
(* its key was minted is not refused as unknown while the key stands.       *)
MintedAccepted ==
    \A r \in Requests : req[r].pc = "refuse" /\ key[req[r].key].status = "valid" =>
        req[r].now < key[req[r].key].since + Ttl

(* A key that is minted or revoked is followed within one TTL. *)
KeysObeyed == RevokedRefused /\ MintedAccepted

(* The quota: in a minute no bucket is charged more answers than its limit, *)
(* failures of authentication included.  It needs that no request meets the *)
(* limiter after its minute: such a request purges the buckets of the       *)
(* current minute, and all callers start it again.                          *)
QuotaUnlessStraddled ==
    ~straddled => \A id \in Ids : charged[id] <= (IF id \in Ips THEN AnonLimit ELSE KeyLimit)

(* The inductive invariants.  What a request has read of its key binds the  *)
(* time it read on arrival to the life of the key, as do the caches.        *)
RequestSound(r) ==
    LET k == key[req[r].key]
    IN  /\ req[r].now <= clock
        /\ req[r].pc = "remember" =>
              k.status # "unknown" /\ (k.status = "revoked" => req[r].now <= k.since)
        /\ req[r].pc = "forget" /\ k.status = "valid" => req[r].now <= k.since

CacheSound(k) ==
    /\ key[k].since <= clock
    /\ positive[k] <= clock + Ttl /\ negative[k] <= clock + Ttl
    /\ key[k].status = "unknown" => positive[k] = 0
    /\ key[k].status = "revoked" => positive[k] <= key[k].since + Ttl
    /\ key[k].status = "valid" => negative[k] <= key[k].since + Ttl

KeyInv ==
    /\ \A r \in Requests : RequestSound(r)
    /\ \A k \in ApiKeys : CacheSound(k)
    /\ RevokedRefused /\ MintedAccepted

(* All tracked buckets are of the minute of the last purge, and what they   *)
(* count is what was charged, as long as no late request has erased it.      *)
LimiterInv ==
    /\ \A id \in tracked : window[id].minute = lastPurge
    /\ \A id \in Ips : window[id].count <= AnonLimit
    /\ ~straddled => \A id \in Ids : charged[id] = (IF id \in tracked THEN window[id].count ELSE 0)

(* The comment of purge: it "removes the windows of past minutes".          *)
OnlyPastPurged ==
    [][\A id \in tracked : id \notin tracked' => window[id].minute < MinuteOf(clock)]_quotaVars
=============================================================================
