----------------------------- MODULE ApiQuotaProofs -----------------------------
(***************************************************************************)
(* Proofs about ApiQuota for any number of requests, addresses and keys.   *)
(*                                                                         *)
(* Three invariants, each inductive with the type: the bounds of the maps, *)
(* what the caches and the requests know of a key, and the agreement of    *)
(* the limiter with the answers really charged.                             *)
(***************************************************************************)
EXTENDS ApiQuota, FiniteSetTheorems, TLAPS

-----------------------------------------------------------------------------
(* Types. *)

(* The limiter's part of a step, common to all its calls. *)
LEMMA CheckType ==
    ASSUME QuotaTypeOK, NEW id \in Ips \cup ApiKeys, NEW limit \in Nat, limit <= KeyLimit,
           NEW minute \in Nat, Check(id, limit, minute)
    PROVE  /\ tracked' \subseteq Ids
           /\ window' \in [Ids -> Windows]
           /\ lastPurge' \in Nat /\ straddled' \in BOOLEAN
           /\ charged' \in [Ids -> Nat]
<1> USE QuotaAssumption
<1> DEFINE kept == Kept(minute)
           e == Effective(kept, id)
           used == Used(kept, e, minute)
<1>1. e \in Ids
  BY DEF Effective, Ids
<1>2. kept \subseteq tracked
  BY DEF Kept
<1>3. used \in 0 .. KeyLimit /\ used \in Nat
  BY <1>1, <1>2 DEF Used, QuotaTypeOK, Windows
<1>4. Counts(kept) \in [Ids -> Windows]
  BY <1>2 DEF Counts, Window, Windows, QuotaTypeOK
<1>5. /\ tracked' = kept \cup {e}
      /\ lastPurge' = minute
      /\ window' = [Counts(kept) EXCEPT ![e] = Window(minute, IF used < limit THEN used + 1 ELSE used)]
      /\ Charge(e, minute, used < limit)
  BY DEF Check
<1> HIDE DEF kept, e, used
<1>6. Window(minute, IF used < limit THEN used + 1 ELSE used) \in Windows
  BY <1>3 DEF Window, Windows
<1>7. charged' \in [Ids -> Nat] /\ straddled' \in BOOLEAN
  <2>1. NoneServed \in [Ids -> Nat]
    BY DEF NoneServed
  <2>2. charged \in [Ids -> Nat] /\ straddled \in BOOLEAN /\ lastPurge \in Nat
    BY DEF QuotaTypeOK
  <2> QED  BY <2>1, <2>2, <1>1, <1>5 DEF Charge
<1> QED  BY <1>1, <1>2, <1>4, <1>5, <1>6, <1>7 DEF QuotaTypeOK

LEMMA GotoType ==
    ASSUME QuotaTypeOK, NEW r \in Requests, NEW pc \in Resolving \cup {"check"},
           Answer(r) \/ (req[r].pc \in Resolving /\ Goto(r, pc))
    PROVE  req' \in [Requests -> RequestStates]
<1>1. CASE Answer(r)
  BY <1>1 DEF Answer, QuotaTypeOK, RequestStates
<1>2. CASE req[r].pc \in Resolving /\ Goto(r, pc)
  <2>1. req[r] \in RequestStates
    BY DEF QuotaTypeOK
  <2>2. req[r] \in [pc : Resolving, ip : Ips, key : ApiKeys, now : Nat]
    BY <1>2, <2>1 DEF RequestStates, Resolving, Free, Request
  <2>3. Request(pc, req[r].ip, req[r].key, req[r].now) \in RequestStates
    BY <2>2 DEF Request, RequestStates
  <2> QED  BY <1>2, <2>3 DEF Goto, QuotaTypeOK
<1> QED  BY <1>1, <1>2

LEMMA MinuteType == \A t \in Nat : MinuteOf(t) \in Nat
BY QuotaAssumption DEF MinuteOf

LEMMA TypeInit == QuotaInit => QuotaTypeOK
<1> SUFFICES ASSUME QuotaInit PROVE QuotaTypeOK
  OBVIOUS
<1>1. KeyState("unknown", 0) \in KeyStates
  BY DEF KeyState, KeyStates
<1>2. Window(0, 0) \in Windows
  BY QuotaAssumption DEF Window, Windows
<1>3. Free \in RequestStates
  BY DEF RequestStates
<1>4. NoneServed \in [Ids -> Nat]
  BY DEF NoneServed
<1> QED  BY <1>1, <1>2, <1>3, <1>4 DEF QuotaInit, QuotaTypeOK

LEMMA TypeNext == QuotaTypeOK /\ [QuotaNext]_quotaVars => QuotaTypeOK'
<1> SUFFICES ASSUME QuotaTypeOK, [QuotaNext]_quotaVars PROVE QuotaTypeOK'
  OBVIOUS
<1> USE QuotaAssumption
<1>1. ASSUME UNCHANGED quotaVars PROVE QuotaTypeOK'
  BY <1>1 DEF quotaVars, quota, QuotaTypeOK
<1>2. ASSUME Tick PROVE QuotaTypeOK'
  BY <1>2 DEF Tick, quota, QuotaTypeOK
<1>3. ASSUME NEW k \in ApiKeys, MintKey(k) \/ RevokeKey(k) PROVE QuotaTypeOK'
  <2>1. KeyState("valid", clock) \in KeyStates /\ KeyState("revoked", clock) \in KeyStates
    BY DEF KeyState, KeyStates, QuotaTypeOK
  <2>2. key' \in [ApiKeys -> KeyStates]
    BY <1>3, <2>1 DEF MintKey, RevokeKey, QuotaTypeOK
  <2> QED  BY <1>3, <2>2 DEF MintKey, RevokeKey, quota, QuotaTypeOK
<1>4. ASSUME NEW r \in Requests, Step(r) PROVE QuotaTypeOK'
  <2> USE DEF Resolving
  <2>0. req[r] \in RequestStates /\ req[r].now \in Nat /\ MinuteOf(req[r].now) \in Nat
    <3>1. req[r] \in RequestStates
      BY DEF QuotaTypeOK
    <3>2. req[r].now \in Nat
      BY <3>1 DEF RequestStates, Free, Request
    <3> QED  BY <3>1, <3>2, MinuteType
  <2>1. ASSUME NEW ip \in Ips, NEW k \in ApiKeys \cup {NoKey}, Arrive(r, ip, k) PROVE QuotaTypeOK'
    <3>1. Request(IF k = NoKey THEN "check" ELSE "negative", ip, k, clock) \in RequestStates
      BY DEF Request, RequestStates, QuotaTypeOK
    <3>2. req' \in [Requests -> RequestStates]
      BY <2>1, <3>1 DEF Arrive, QuotaTypeOK
    <3> QED  BY <2>1, <3>2 DEF Arrive, quota, QuotaTypeOK
  <2>2. CASE KnownInvalid(r)
    <3>1. req' \in [Requests -> RequestStates]
      BY <2>2, GotoType DEF KnownInvalid
    <3> QED  BY <2>2, <3>1 DEF KnownInvalid, quota, QuotaTypeOK
  <2>3. CASE AnonExhausted(r)
    <3>1. req' \in [Requests -> RequestStates]
      BY <2>3, GotoType DEF AnonExhausted
    <3>2. Counts(Kept(MinuteOf(req[r].now))) \in [Ids -> Windows]
      BY DEF Counts, Window, Windows, QuotaTypeOK
    <3>3. Kept(MinuteOf(req[r].now)) \subseteq Ids
      BY DEF Kept, QuotaTypeOK
    <3>4. charged' \in [Ids -> Nat] /\ straddled' \in BOOLEAN
      <4>1. Charge(req[r].ip, MinuteOf(req[r].now), FALSE)
        BY <2>3 DEF AnonExhausted
      <4>2. NoneServed \in [Ids -> Nat]
        BY DEF NoneServed
      <4> QED  BY <2>0, <4>1, <4>2 DEF Charge, QuotaTypeOK
    <3> QED  BY <2>0, <2>3, <3>1, <3>2, <3>3, <3>4 DEF AnonExhausted, QuotaTypeOK
  <2>4. CASE Cached(r)
    <3>1. req' \in [Requests -> RequestStates]
      BY <2>4, GotoType DEF Cached
    <3> QED  BY <2>4, <3>1 DEF Cached, quota, QuotaTypeOK
  <2>5. CASE Resolve(r)
    <3>1. req' \in [Requests -> RequestStates]
      BY <2>5, GotoType DEF Resolve
    <3> QED  BY <2>5, <3>1 DEF Resolve, quota, QuotaTypeOK
  <2>6. CASE ResolveFails(r) \/ Disconnect(r)
    <3>1. req' \in [Requests -> RequestStates]
      BY <2>6, GotoType DEF ResolveFails, Disconnect
    <3> QED  BY <2>6, <3>1 DEF ResolveFails, Disconnect, quota, QuotaTypeOK
  <2>7. CASE Remember(r)
    <3>1. req' \in [Requests -> RequestStates]
      BY <2>7, GotoType DEF Remember
    <3>2. positive' \in [ApiKeys -> Nat]
      BY <2>7, <2>0 DEF Remember, Remembered, QuotaTypeOK
    <3> QED  BY <2>7, <3>1, <3>2 DEF Remember, quota, QuotaTypeOK
  <2>8. CASE RememberInvalid(r)
    <3>1. req' \in [Requests -> RequestStates]
      BY <2>8, GotoType DEF RememberInvalid
    <3>2. negative' \in [ApiKeys -> Nat]
      BY <2>8, <2>0 DEF RememberInvalid, Remembered, QuotaTypeOK
    <3> QED  BY <2>8, <3>1, <3>2 DEF RememberInvalid, quota, QuotaTypeOK
  <2>9. ASSUME AuthFailure(r) \/ Enforce(r) PROVE QuotaTypeOK'
    <3>1. req' \in [Requests -> RequestStates]
      BY <2>9, GotoType DEF AuthFailure, Enforce
    <3>2. req[r].ip \in Ips /\ req[r].key \in ApiKeys \cup {NoKey}
      BY <2>9, <2>0 DEF AuthFailure, Enforce, RequestStates, Free, Request
    <3>3. PICK id \in Ips \cup ApiKeys, limit \in {AnonLimit, KeyLimit} :
             Check(id, limit, MinuteOf(req[r].now))
      BY <2>9, <3>2 DEF AuthFailure, Enforce
    <3>4. /\ tracked' \subseteq Ids
          /\ window' \in [Ids -> Windows]
          /\ lastPurge' \in Nat /\ straddled' \in BOOLEAN
          /\ charged' \in [Ids -> Nat]
      BY <2>0, <3>3, CheckType
    <3> QED  BY <2>9, <3>1, <3>4 DEF AuthFailure, Enforce, QuotaTypeOK
  <2> QED  BY <1>4, <2>1, <2>2, <2>3, <2>4, <2>5, <2>6, <2>7, <2>8, <2>9 DEF Step
<1> QED  BY <1>1, <1>2, <1>3, <1>4 DEF QuotaNext

(* The shape of the state, for any number of requests, addresses and keys:  *)
(* a request past its arrival has an address, and one being resolved a key. *)
THEOREM TypeCorrect == QuotaSpec => []QuotaTypeOK
BY TypeInit, TypeNext, PTL DEF QuotaSpec

-----------------------------------------------------------------------------
(* Bounds.  A bucket other than the overflow only joins a map that has      *)
(* room, so the invariant counts the others.                                *)
Remembers(cache) == {k \in ApiKeys : cache[k] # 0}

BoundInv ==
    /\ Cardinality(tracked \ {Overflow}) <= MaxTracked
    /\ Cardinality(Remembers(negative)) <= CacheMax
    /\ Cardinality(Remembers(positive)) <= CacheMax

LEMMA SubsetBound ==
    ASSUME NEW S, IsFiniteSet(S), NEW T \in SUBSET S, NEW n \in Nat, Cardinality(S) <= n
    PROVE  IsFiniteSet(T) /\ Cardinality(T) <= n /\ Cardinality(T) \in Nat
BY FS_Subset, FS_CardinalityType

LEMMA AddBound ==
    ASSUME NEW S, IsFiniteSet(S), NEW x, NEW n \in Nat, Cardinality(S) < n
    PROVE  Cardinality(S \cup {x}) <= n
<1>1. Cardinality(S) \in Nat
  BY FS_CardinalityType
<1>2. Cardinality(S \cup {x}) = IF x \in S THEN Cardinality(S) ELSE Cardinality(S) + 1
  BY FS_AddElement
<1> QED  BY <1>1, <1>2

LEMMA IdsFinite == IsFiniteSet(Ids) /\ IsFiniteSet(ApiKeys)
BY QuotaAssumption, FS_Union, FS_Singleton DEF Ids

LEMMA CheckBound ==
    ASSUME QuotaTypeOK, BoundInv, NEW id \in Ips \cup ApiKeys, NEW limit, NEW minute,
           Check(id, limit, minute)
    PROVE  Cardinality(tracked' \ {Overflow}) <= MaxTracked
<1> DEFINE kept == Kept(minute)
           others == kept \ {Overflow}
<1>1. kept \subseteq tracked /\ tracked \subseteq Ids
  BY DEF Kept, QuotaTypeOK
<1>2. IsFiniteSet(tracked) /\ IsFiniteSet(kept)
  BY <1>1, IdsFinite, FS_Subset
<1>3. IsFiniteSet(tracked \ {Overflow}) /\ others \in SUBSET (tracked \ {Overflow})
  BY <1>1, <1>2, FS_Subset
<1>4. IsFiniteSet(others) /\ Cardinality(others) <= MaxTracked
  BY <1>3, SubsetBound, QuotaAssumption DEF BoundInv
<1>5. tracked' = kept \cup {Effective(kept, id)}
  BY DEF Check
<1>6. CASE id \in kept \/ Cardinality(kept) >= MaxTracked
  <2>1. tracked' \ {Overflow} = others
    BY <1>5, <1>6 DEF Effective
  <2> QED  BY <2>1, <1>4
<1>7. CASE id \notin kept /\ ~(Cardinality(kept) >= MaxTracked)
  <2>1. tracked' \ {Overflow} = others \cup {id}
    BY <1>5, <1>7, QuotaAssumption DEF Effective
  <2>2. Cardinality(kept) \in Nat /\ Cardinality(others) <= Cardinality(kept)
    BY <1>2, FS_Subset, FS_CardinalityType
  <2>3. Cardinality(others) < MaxTracked
    BY <1>7, <2>2, <1>4, FS_CardinalityType, QuotaAssumption
  <2> QED  BY <2>1, <2>3, <1>4, AddBound, QuotaAssumption
<1> QED  BY <1>6, <1>7

LEMMA RememberedBound ==
    ASSUME NEW cache \in [ApiKeys -> Nat], Cardinality(Remembers(cache)) <= CacheMax,
           NEW k \in ApiKeys, NEW now \in Nat
    PROVE  Cardinality(Remembers(Remembered(cache, k, now))) <= CacheMax
<1> DEFINE entries == {h \in ApiKeys : cache[h] # 0}
           live == {h \in entries : cache[h] > now}
           kept == IF Cardinality(entries) >= CacheMax THEN live ELSE entries
           new == Remembers(Remembered(cache, k, now))
<1>1. IsFiniteSet(entries) /\ IsFiniteSet(kept) /\ IsFiniteSet(new)
  BY IdsFinite, FS_Subset DEF Remembers
<1>2. Cardinality(kept) <= CacheMax /\ Cardinality(kept) \in Nat
  BY <1>1, SubsetBound, QuotaAssumption DEF Remembers
<1>3. Remembered(cache, k, now) =
        [h \in ApiKeys |-> IF h = k /\ Cardinality(kept) < CacheMax THEN now + Ttl
                        ELSE IF h \in kept THEN cache[h] ELSE 0]
  BY DEF Remembered
<1> HIDE DEF kept
<1>4. CASE Cardinality(kept) < CacheMax
  <2>1. new \subseteq kept \cup {k}
    BY <1>3 DEF Remembers
  <2>2. Cardinality(kept \cup {k}) <= CacheMax /\ IsFiniteSet(kept \cup {k})
    BY <1>1, <1>4, AddBound, FS_AddElement, QuotaAssumption
  <2> QED  BY <2>1, <2>2, SubsetBound, QuotaAssumption
<1>5. CASE ~(Cardinality(kept) < CacheMax)
  <2>1. new \subseteq kept
    BY <1>3, <1>5 DEF Remembers
  <2> QED  BY <2>1, <1>1, <1>2, SubsetBound, QuotaAssumption
<1> QED  BY <1>4, <1>5

LEMMA BoundInit == QuotaInit => BoundInv
<1> SUFFICES ASSUME QuotaInit PROVE BoundInv
  OBVIOUS
<1>1. tracked \ {Overflow} = {} /\ Remembers(negative) = {} /\ Remembers(positive) = {}
  BY DEF QuotaInit, Remembers
<1> QED  BY <1>1, FS_EmptySet, QuotaAssumption DEF BoundInv

LEMMA BoundNext == QuotaTypeOK /\ BoundInv /\ [QuotaNext]_quotaVars => BoundInv'
<1> SUFFICES ASSUME QuotaTypeOK, BoundInv, [QuotaNext]_quotaVars PROVE BoundInv'
  OBVIOUS
<1> USE QuotaAssumption DEF BoundInv, Remembers
<1>1. ASSUME UNCHANGED <<tracked, negative, positive>> PROVE BoundInv'
  BY <1>1
<1>2. CASE UNCHANGED quotaVars
  BY <1>1, <1>2 DEF quotaVars, quota
<1>3. CASE Tick
  BY <1>1, <1>3 DEF Tick, quota
<1>4. ASSUME NEW k \in ApiKeys, MintKey(k) \/ RevokeKey(k) PROVE BoundInv'
  BY <1>1, <1>4 DEF MintKey, RevokeKey, quota
<1>5. ASSUME NEW r \in Requests, Step(r) PROVE BoundInv'
  <2>1. req[r] \in RequestStates
    BY DEF QuotaTypeOK
  <2>2. ASSUME NEW ip, NEW k, Arrive(r, ip, k) PROVE BoundInv'
    BY <1>1, <2>2 DEF Arrive, quota
  <2>3. CASE KnownInvalid(r) \/ Cached(r) \/ Resolve(r) \/ ResolveFails(r) \/ Disconnect(r)
    BY <1>1, <2>3 DEF KnownInvalid, Cached, Resolve, ResolveFails, Disconnect, quota
  <2>4. CASE AnonExhausted(r)
    <3>1. tracked' \ {Overflow} \in SUBSET (tracked \ {Overflow})
      BY <2>4 DEF AnonExhausted, Kept
    <3>2. IsFiniteSet(tracked \ {Overflow})
      BY IdsFinite, FS_Subset DEF QuotaTypeOK
    <3>3. Cardinality(tracked' \ {Overflow}) <= MaxTracked
      BY <3>1, <3>2, SubsetBound
    <3> QED  BY <2>4, <3>3 DEF AnonExhausted
  <2>5. CASE Remember(r) \/ RememberInvalid(r)
    <3>1. req[r].key \in ApiKeys /\ req[r].now \in Nat
      BY <2>1, <2>5 DEF RequestStates, Resolving, Free, Request, Remember, RememberInvalid
    <3>2. positive \in [ApiKeys -> Nat] /\ negative \in [ApiKeys -> Nat]
      BY DEF QuotaTypeOK
    <3>3. /\ Cardinality(Remembers(Remembered(positive, req[r].key, req[r].now))) <= CacheMax
          /\ Cardinality(Remembers(Remembered(negative, req[r].key, req[r].now))) <= CacheMax
      BY <3>1, <3>2, RememberedBound, ZenonT(30)
    <3>4. CASE Remember(r)
      BY <3>3, <3>4 DEF Remember, quota
    <3>5. CASE RememberInvalid(r)
      BY <3>3, <3>5 DEF RememberInvalid, quota
    <3> QED  BY <2>5, <3>4, <3>5
  <2>6. CASE AuthFailure(r) \/ Enforce(r)
    <3>1. req[r].ip \in Ips /\ req[r].key \in ApiKeys \cup {NoKey}
      BY <2>1, <2>6 DEF AuthFailure, Enforce, RequestStates, Free, Request
    <3>2. PICK id \in Ips \cup ApiKeys, limit \in {AnonLimit, KeyLimit} : Check(id, limit, MinuteOf(req[r].now))
      BY <2>6, <3>1 DEF AuthFailure, Enforce
    <3>3. Cardinality(tracked' \ {Overflow}) <= MaxTracked
      BY <3>2, CheckBound
    <3> QED  BY <2>6, <3>3 DEF AuthFailure, Enforce
  <2> QED  BY <1>5, <2>2, <2>3, <2>4, <2>5, <2>6 DEF Step
<1> QED  BY <1>2, <1>3, <1>4, <1>5 DEF QuotaNext

LEMMA BoundIsEnough == QuotaTypeOK /\ BoundInv => Bounded
<1> SUFFICES ASSUME QuotaTypeOK, BoundInv PROVE Cardinality(tracked) <= MaxTracked + 1
  BY DEF BoundInv, Bounded, Remembers
<1>1. IsFiniteSet(tracked \ {Overflow}) /\ IsFiniteSet(tracked)
  BY IdsFinite, FS_Subset DEF QuotaTypeOK
<1>2. Cardinality((tracked \ {Overflow}) \cup {Overflow}) <= MaxTracked + 1
  <2>1. Cardinality(tracked \ {Overflow}) < MaxTracked + 1
    BY <1>1, FS_CardinalityType, QuotaAssumption DEF BoundInv
  <2>2. MaxTracked + 1 \in Nat
    BY QuotaAssumption
  <2>3. \A S, x : IsFiniteSet(S) /\ Cardinality(S) < MaxTracked + 1
                  => Cardinality(S \cup {x}) <= MaxTracked + 1
    BY <2>2, AddBound
  <2> QED  BY <1>1, <2>1, <2>3
<1>3. IsFiniteSet((tracked \ {Overflow}) \cup {Overflow})
      /\ tracked \subseteq (tracked \ {Overflow}) \cup {Overflow}
  BY <1>1, FS_AddElement
<1> QED  BY <1>2, <1>3, SubsetBound, QuotaAssumption

(* Memory stays bounded whatever callers and keys come.                     *)
THEOREM MapsBounded == QuotaSpec => []Bounded
BY TypeInit, TypeNext, BoundInit, BoundNext, BoundIsEnough, PTL DEF QuotaSpec

-----------------------------------------------------------------------------
(* ApiKeys.  The invariant KeyInv, one request or one key at a time.           *)
RequestInv(r) ==
    /\ RequestSound(r)
    /\ req[r].pc = "check" /\ req[r].key # NoKey =>
          LET k == key[req[r].key]
          IN  \/ k.status = "valid"
              \/ k.status = "revoked" /\ req[r].now < k.since + Ttl
    /\ req[r].pc = "refuse" /\ key[req[r].key].status = "valid" =>
          req[r].now < key[req[r].key].since + Ttl

LEMMA KeyInvParts ==
    KeyInv <=> (\A r \in Requests : RequestInv(r)) /\ (\A k \in ApiKeys : CacheSound(k))
BY DEF KeyInv, RequestInv, RevokedRefused, MintedAccepted

LEMMA RequestFacts ==
    ASSUME QuotaTypeOK, NEW r \in Requests
    PROVE  /\ req[r].now \in Nat
           /\ req[r].pc \in Resolving => req[r].key \in ApiKeys /\ req[r].ip \in Ips
           /\ req[r].pc = "check" => req[r].key \in ApiKeys \cup {NoKey} /\ req[r].ip \in Ips
           /\ req[r].pc \in Resolving \cup {"check", "idle"}
<1>1. req[r] \in RequestStates
  BY DEF QuotaTypeOK
<1> QED  BY <1>1 DEF RequestStates, Resolving, Free, Request

LEMMA KeyFacts ==
    ASSUME QuotaTypeOK, NEW k \in ApiKeys
    PROVE  /\ key[k].status \in {"unknown", "valid", "revoked"} /\ key[k].since \in Nat
           /\ positive[k] \in Nat /\ negative[k] \in Nat
BY DEF QuotaTypeOK, KeyStates

LEMMA IdleFine == ASSUME NEW r, req[r] = Free, clock \in Nat PROVE RequestInv(r)
BY DEF RequestInv, RequestSound, Free, Request

(* The step of request r leaves the other requests as they are.             *)
LEMMA OthersFine ==
    ASSUME KeyInv, NEW r \in Requests, NEW s \in Requests, s # r, UNCHANGED <<clock, key>>,
           req'[s] = req[s]
    PROVE  RequestInv(s)'
BY KeyInvParts DEF RequestInv, RequestSound

LEMMA CachesFine ==
    ASSUME KeyInv, UNCHANGED <<clock, key, negative, positive>>, NEW k \in ApiKeys
    PROVE  CacheSound(k)'
BY KeyInvParts DEF CacheSound

LEMMA KeyInit == QuotaInit => KeyInv
<1> SUFFICES ASSUME QuotaInit PROVE KeyInv
  OBVIOUS
<1>1. ASSUME NEW r \in Requests PROVE RequestInv(r)
  BY IdleFine DEF QuotaInit
<1>2. ASSUME NEW k \in ApiKeys PROVE CacheSound(k)
  BY QuotaAssumption DEF QuotaInit, CacheSound, KeyState
<1> QED  BY <1>1, <1>2, KeyInvParts

LEMMA KeyChange ==
    ASSUME QuotaTypeOK, KeyInv, NEW h \in ApiKeys, MintKey(h) \/ RevokeKey(h)
    PROVE  KeyInv'
<1> USE QuotaAssumption
<1>0. ASSUME NEW k \in ApiKeys
      PROVE  \/ key'[k] = key[k]
             \/ key[k].status = "unknown" /\ key'[k] = [status |-> "valid", since |-> clock]
             \/ key[k].status = "valid" /\ key'[k] = [status |-> "revoked", since |-> clock]
  BY DEF MintKey, RevokeKey, KeyState, QuotaTypeOK
<1>1. ASSUME NEW r \in Requests PROVE RequestInv(r)'
  <2>1. RequestInv(r) /\ UNCHANGED <<clock, req>>
    BY KeyInvParts DEF MintKey, RevokeKey
  <2>2. CASE req[r].key \in ApiKeys
    <3>1. /\ req[r].now \in Nat /\ clock \in Nat
          /\ key[req[r].key].status \in {"unknown", "valid", "revoked"}
          /\ key[req[r].key].since \in Nat
      BY <2>2, RequestFacts, KeyFacts DEF QuotaTypeOK
    <3> QED  BY <1>0, <2>1, <2>2, <3>1 DEF RequestInv, RequestSound
  <2>3. CASE req[r].key \notin ApiKeys
    <3>1. req[r].pc \notin Resolving /\ (req[r].pc = "check" => req[r].key = NoKey)
      BY <2>3, RequestFacts
    <3> QED  BY <2>1, <3>1 DEF RequestInv, RequestSound, Resolving
  <2> QED  BY <2>2, <2>3
<1>2. ASSUME NEW k \in ApiKeys PROVE CacheSound(k)'
  <2>1. CacheSound(k) /\ UNCHANGED <<clock, positive, negative>>
    BY KeyInvParts DEF MintKey, RevokeKey
  <2>2. /\ key[k].status \in {"unknown", "valid", "revoked"} /\ key[k].since \in Nat
        /\ positive[k] \in Nat /\ negative[k] \in Nat /\ clock \in Nat
    BY KeyFacts DEF QuotaTypeOK
  <2> QED  BY <1>0, <2>1, <2>2 DEF CacheSound
<1>3. KeyInv' <=> (\A r \in Requests : RequestInv(r)') /\ (\A k \in ApiKeys : CacheSound(k)')
  BY DEF KeyInv, RequestInv, RevokedRefused, MintedAccepted
<1> QED  BY <1>1, <1>2, <1>3

LEMMA KeyTick == ASSUME QuotaTypeOK, KeyInv, Tick PROVE KeyInv'
<1> USE QuotaAssumption
<1>0. clock \in Nat /\ clock' = clock + 1 /\ UNCHANGED <<key, req, negative, positive>>
  BY DEF Tick, QuotaTypeOK
<1>1. ASSUME NEW r \in Requests PROVE RequestInv(r)'
  <2>1. RequestInv(r) /\ req[r].now \in Nat
    BY KeyInvParts, RequestFacts
  <2> QED  BY <1>0, <2>1 DEF RequestInv, RequestSound
<1>2. ASSUME NEW k \in ApiKeys PROVE CacheSound(k)'
  <2>1. CacheSound(k)
    BY KeyInvParts
  <2> QED  BY <1>0, <2>1, KeyFacts DEF CacheSound
<1>3. KeyInv' <=> (\A r \in Requests : RequestInv(r)') /\ (\A k \in ApiKeys : CacheSound(k)')
  BY DEF KeyInv, RequestInv, RevokedRefused, MintedAccepted
<1> QED  BY <1>1, <1>2, <1>3

LEMMA KeyStep == ASSUME QuotaTypeOK, KeyInv, NEW r \in Requests, Step(r) PROVE KeyInv'
<1> USE QuotaAssumption
<1>0. /\ UNCHANGED <<clock, key>> /\ clock \in Nat
      /\ \A s \in Requests \ {r} : req'[s] = req[s]
  BY DEF Step, Arrive, KnownInvalid, AnonExhausted, Cached, Resolve, ResolveFails, Disconnect, Remember,
         RememberInvalid, AuthFailure, Enforce, Goto, Answer, QuotaTypeOK
<1>1. ASSUME NEW s \in Requests, s # r PROVE RequestInv(s)'
  BY <1>0, <1>1, OthersFine
<1>2. RequestInv(r) /\ req[r].now \in Nat /\ (req[r].pc \in Resolving => req[r].key \in ApiKeys)
  BY KeyInvParts, RequestFacts
<1>3. ASSUME NEW k \in ApiKeys PROVE CacheSound(k) /\ key[k].since \in Nat
                                  /\ positive[k] \in Nat /\ negative[k] \in Nat
                                  /\ key[k].status \in {"unknown", "valid", "revoked"}
  BY KeyInvParts, KeyFacts
<1> DEFINE k0 == key[req[r].key]
           now == req[r].now
<1>4. ASSUME NEW pc, Goto(r, pc),
             pc = "remember" => k0.status # "unknown" /\ (k0.status = "revoked" => now <= k0.since),
             pc = "forget" /\ k0.status = "valid" => now <= k0.since,
             pc = "check" => k0.status = "valid" \/ (k0.status = "revoked" /\ now < k0.since + Ttl),
             pc = "refuse" /\ k0.status = "valid" => now < k0.since + Ttl
      PROVE  RequestInv(r)'
  <2>1. req'[r] = [pc |-> pc, ip |-> req[r].ip, key |-> req[r].key, now |-> now]
    BY <1>4 DEF Goto, Request, QuotaTypeOK
  <2>2. now <= clock
    BY <1>2 DEF RequestInv, RequestSound
  <2> QED  BY <1>0, <1>4, <2>1, <2>2 DEF RequestInv, RequestSound
<1>5. ASSUME Answer(r) PROVE RequestInv(r)'
  BY <1>0, <1>5 DEF Answer, Free, Request, QuotaTypeOK, RequestInv, RequestSound
<1>6. RequestInv(r)'
  <2> USE DEF RequestInv, RequestSound, Resolving
  <2>1. ASSUME NEW ip, NEW k \in ApiKeys \cup {NoKey}, Arrive(r, ip, k) PROVE RequestInv(r)'
    <3>1. req'[r] = [pc |-> IF k = NoKey THEN "check" ELSE "negative", ip |-> ip, key |-> k,
                     now |-> clock]
      BY <2>1 DEF Arrive, Request, QuotaTypeOK
    <3> QED  BY <1>0, <3>1
  <2>2. CASE KnownInvalid(r)
    <3>1. CacheSound(req[r].key) /\ negative[req[r].key] \in Nat /\ k0.since \in Nat
      BY <1>2, <1>3, <2>2 DEF KnownInvalid
    <3>2. PICK pc \in {"refuse", "exhausted"} :
             Goto(r, pc) /\ (pc = "refuse" => negative[req[r].key] > now)
      BY <2>2 DEF KnownInvalid
    <3> QED  BY <1>2, <1>4, <3>1, <3>2 DEF CacheSound
  <2>3. CASE AnonExhausted(r)
    <3>1. Goto(r, "cached") \/ Answer(r)
      BY <2>3 DEF AnonExhausted
    <3>2. CASE Goto(r, "cached")
      BY <1>4, <3>2
    <3> QED  BY <1>5, <3>1, <3>2
  <2>4. CASE Cached(r)
    <3>1. /\ CacheSound(req[r].key) /\ positive[req[r].key] \in Nat /\ k0.since \in Nat
          /\ k0.status \in {"unknown", "valid", "revoked"}
      BY <1>2, <1>3, <2>4 DEF Cached
    <3>2. PICK pc \in {"check", "resolve"} :
             Goto(r, pc) /\ (pc = "check" => positive[req[r].key] > now)
      BY <2>4 DEF Cached
    <3> QED  BY <1>2, <1>4, <3>1, <3>2 DEF CacheSound
  <2>5. CASE Resolve(r)
    <3>1. PICK pc \in {"remember", "forget"} : Goto(r, pc) /\ (pc = "remember" <=> k0.status = "valid")
      BY <2>5 DEF Resolve
    <3> QED  BY <1>4, <3>1
  <2>6. CASE ResolveFails(r) \/ Disconnect(r)
    <3>1. Goto(r, "fail") \/ Answer(r)
      BY <2>6 DEF ResolveFails, Disconnect
    <3> QED  BY <1>4, <1>5, <3>1
  <2>7. CASE Remember(r)
    <3>1. Goto(r, "check") /\ req[r].pc = "remember"
      BY <2>7 DEF Remember
    <3>2. k0.status \in {"unknown", "valid", "revoked"} /\ k0.since \in Nat
      BY <1>2, <1>3, <3>1
    <3>3. k0.status # "unknown" /\ (k0.status = "revoked" => now <= k0.since)
      BY <1>2, <3>1
    <3> QED  BY <1>2, <1>4, <3>1, <3>2, <3>3
  <2>8. CASE RememberInvalid(r)
    <3>1. Goto(r, "refuse") /\ req[r].pc = "forget"
      BY <2>8 DEF RememberInvalid
    <3>2. k0.since \in Nat
      BY <1>2, <1>3, <3>1
    <3>3. k0.status = "valid" => now <= k0.since
      BY <1>2, <3>1
    <3> QED  BY <1>2, <1>4, <3>1, <3>2, <3>3
  <2>9. CASE AuthFailure(r) \/ Enforce(r)
    BY <1>5, <2>9 DEF AuthFailure, Enforce
  <2> QED  BY <2>1, <2>2, <2>3, <2>4, <2>5, <2>6, <2>7, <2>8, <2>9 DEF Step
<1>7. ASSUME NEW k \in ApiKeys PROVE CacheSound(k)'
  <2>1. CASE Remember(r)
    <3>1. positive'[k] \in {positive[k], 0} \/ (k = req[r].key /\ positive'[k] = req[r].now + Ttl)
      BY <2>1 DEF Remember, Remembered
    <3>2. negative' = negative
      BY <2>1 DEF Remember
    <3> QED  BY <1>0, <1>2, <1>3, <2>1, <3>1, <3>2
             DEF CacheSound, RequestInv, RequestSound, Remember
  <2>2. CASE RememberInvalid(r)
    <3>1. negative'[k] \in {negative[k], 0} \/ (k = req[r].key /\ negative'[k] = req[r].now + Ttl)
      BY <2>2 DEF RememberInvalid, Remembered
    <3>2. positive' = positive
      BY <2>2 DEF RememberInvalid
    <3> QED  BY <1>0, <1>2, <1>3, <2>2, <3>1, <3>2
             DEF CacheSound, RequestInv, RequestSound, RememberInvalid
  <2>3. CASE ~Remember(r) /\ ~RememberInvalid(r)
    <3>1. UNCHANGED <<negative, positive>>
      BY <2>3 DEF Step, Arrive, KnownInvalid, AnonExhausted, Cached, Resolve, ResolveFails, Disconnect,
                  AuthFailure, Enforce
    <3> QED  BY <1>0, <3>1, CachesFine
  <2> QED  BY <2>1, <2>2, <2>3
<1>8. KeyInv' <=> (\A s \in Requests : RequestInv(s)') /\ (\A k \in ApiKeys : CacheSound(k)')
  BY DEF KeyInv, RequestInv, RevokedRefused, MintedAccepted
<1> QED  BY <1>1, <1>6, <1>7, <1>8

LEMMA KeyNext == QuotaTypeOK /\ KeyInv /\ [QuotaNext]_quotaVars => KeyInv'
<1> SUFFICES ASSUME QuotaTypeOK, KeyInv, [QuotaNext]_quotaVars PROVE KeyInv'
  OBVIOUS
<1>1. CASE UNCHANGED quotaVars
  BY <1>1 DEF quotaVars, KeyInv, RequestSound, CacheSound, RevokedRefused, MintedAccepted
<1> QED  BY <1>1, KeyTick, KeyChange, KeyStep DEF QuotaNext

(* A revocation is obeyed one TTL later, a mint is seen one TTL later: for  *)
(* any interleaving of requests, queries and commands.                      *)
THEOREM KeysFollowed == QuotaSpec => []KeysObeyed
<1>1. KeyInv => KeysObeyed
  BY DEF KeyInv, KeysObeyed
<1> QED  BY <1>1, TypeInit, TypeNext, KeyInit, KeyNext, PTL DEF QuotaSpec

-----------------------------------------------------------------------------
(* Quota.  One call of the limiter: on a map kept by its purge every bucket *)
(* is of the call's minute, so that a count is never read as another's.     *)
LEMMA CheckLimiter ==
    ASSUME QuotaTypeOK, LimiterInv, NEW minute \in Nat,
           NEW id \in Ips \cup ApiKeys, NEW limit \in {AnonLimit, KeyLimit},
           id \in Ips => limit = AnonLimit,
           Check(id, limit, minute)
    PROVE  LimiterInv'
<1> USE QuotaAssumption
<1> DEFINE kept == Kept(minute)
           e == Effective(kept, id)
           used == Used(kept, e, minute)
           count == IF used < limit THEN used + 1 ELSE used
<1>1. e \in Ids /\ (e \in Ips => e = id) /\ kept \subseteq tracked /\ tracked \subseteq Ids
  BY DEF Effective, Ids, Kept, QuotaTypeOK
<1>2. \A i \in kept : window[i].minute = minute
  BY DEF Kept, LimiterInv
<1>3. minute # lastPurge => kept = {}
  BY DEF Kept, LimiterInv
<1>4. \A i \in Ids : window[i].count \in Nat /\ window[i].minute \in Nat
  BY DEF QuotaTypeOK, Windows
<1>5. used = IF e \in kept THEN window[e].count ELSE 0
  BY <1>2 DEF Used
<1>6. count \in Nat /\ (e \in Ips => count <= AnonLimit)
  BY <1>1, <1>4, <1>5 DEF LimiterInv
<1>7. /\ tracked' = kept \cup {e}
      /\ lastPurge' = minute
      /\ window' = [Counts(kept) EXCEPT ![e] = Window(minute, count)]
      /\ Charge(e, minute, used < limit)
  BY DEF Check
<1> HIDE DEF kept, e, used, count
<1>8. \A i \in Ids : window'[i] = IF i = e THEN [minute |-> minute, count |-> count]
                                ELSE IF i \in kept THEN window[i]
                                ELSE [minute |-> 0, count |-> 0]
  BY <1>7 DEF Counts, Window
<1>9. \A i \in tracked' : window'[i].minute = lastPurge'
  BY <1>1, <1>2, <1>7, <1>8
<1>10. \A i \in Ips : window'[i].count <= AnonLimit
  BY <1>6, <1>8 DEF LimiterInv, Ids
<1>11. ASSUME ~straddled', NEW i \in Ids
       PROVE  charged'[i] = IF i \in tracked' THEN window'[i].count ELSE 0
  <2> DEFINE before == IF minute = lastPurge THEN charged ELSE NoneServed
  <2>1. ~straddled /\ before \in [Ids -> Nat]
    BY <1>7, <1>11 DEF Charge, NoneServed, QuotaTypeOK
  <2>2. before[i] = IF i \in kept THEN window[i].count ELSE 0
    <3>1. CASE minute = lastPurge
      BY <2>1, <3>1 DEF LimiterInv, kept, Kept
    <3>2. CASE minute # lastPurge
      BY <1>3, <3>2 DEF NoneServed
    <3> QED  BY <3>1, <3>2
  <2>3. before[e] = used
    <3>1. CASE minute = lastPurge
      BY <1>1, <1>5, <2>1, <3>1 DEF LimiterInv, kept, Kept
    <3>2. CASE minute # lastPurge
      BY <1>1, <1>3, <1>5, <3>2 DEF NoneServed
    <3> QED  BY <3>1, <3>2
  <2>4. charged' = IF used < limit THEN [before EXCEPT ![e] = @ + 1] ELSE before
    BY <1>7, <1>11 DEF Charge
  <2> HIDE DEF before
  <2>5. charged'[i] = IF i = e THEN count ELSE before[i]
    BY <2>1, <2>3, <2>4, <1>1 DEF count
  <2> QED  BY <1>1, <1>7, <1>8, <2>2, <2>5
<1> QED  BY <1>9, <1>10, <1>11 DEF LimiterInv

LEMMA LimiterInit == QuotaInit => LimiterInv
BY QuotaAssumption DEF QuotaInit, LimiterInv, NoneServed, Window, Ids

LEMMA LimiterNext == QuotaTypeOK /\ LimiterInv /\ [QuotaNext]_quotaVars => LimiterInv'
<1> SUFFICES ASSUME QuotaTypeOK, LimiterInv, [QuotaNext]_quotaVars PROVE LimiterInv'
  OBVIOUS
<1> USE QuotaAssumption
<1>1. ASSUME UNCHANGED quota PROVE LimiterInv'
  BY <1>1 DEF quota, LimiterInv
<1>2. CASE UNCHANGED quotaVars \/ Tick \/ \E k \in ApiKeys : MintKey(k) \/ RevokeKey(k)
  BY <1>1, <1>2 DEF quotaVars, Tick, MintKey, RevokeKey
<1>3. ASSUME NEW r \in Requests, Step(r) PROVE LimiterInv'
  <2>0. MinuteOf(req[r].now) \in Nat
    BY RequestFacts, MinuteType
  <2>1. CASE AnonExhausted(r)
    <3> DEFINE minute == MinuteOf(req[r].now)
    <3>1. /\ tracked' = Kept(minute) /\ window' = Counts(Kept(minute)) /\ lastPurge' = minute
          /\ Charge(req[r].ip, minute, FALSE)
      BY <2>1 DEF AnonExhausted
    <3> HIDE DEF minute
    <3>2. \A i \in Ids : window[i].count \in Nat
      BY DEF QuotaTypeOK, Windows
    <3>3. \A i \in tracked' : window'[i].minute = lastPurge'
      BY <3>1 DEF Kept, Counts, LimiterInv, QuotaTypeOK
    <3>4. \A i \in Ips : window'[i].count <= AnonLimit
      BY <3>1 DEF Counts, Window, LimiterInv, Ids
    <3>5. ASSUME ~straddled', NEW i \in Ids
          PROVE  charged'[i] = IF i \in tracked' THEN window'[i].count ELSE 0
      <4>1. ~straddled /\ charged' = IF minute = lastPurge THEN charged ELSE NoneServed
        BY <3>1, <3>5 DEF Charge
      <4>2. CASE minute = lastPurge
        BY <3>1, <4>1, <4>2 DEF Kept, Counts, LimiterInv, QuotaTypeOK
      <4>3. CASE minute # lastPurge
        BY <3>1, <4>1, <4>3 DEF Kept, LimiterInv, NoneServed
      <4> QED  BY <4>2, <4>3
    <3> QED  BY <3>3, <3>4, <3>5 DEF LimiterInv
  <2>2. CASE AuthFailure(r)
    <3>1. req[r].ip \in Ips
      BY <2>2, RequestFacts DEF AuthFailure, Resolving
    <3>2. Check(req[r].ip, AnonLimit, MinuteOf(req[r].now))
      BY <2>2 DEF AuthFailure
    <3> QED  BY <2>0, <3>1, <3>2, CheckLimiter
  <2>3. CASE Enforce(r)
    <3>1. req[r].ip \in Ips /\ req[r].key \in ApiKeys \cup {NoKey}
      BY <2>3, RequestFacts DEF Enforce
    <3>2. CASE req[r].key = NoKey
      <4>1. Check(req[r].ip, AnonLimit, MinuteOf(req[r].now))
        BY <2>3, <3>2 DEF Enforce
      <4> QED  BY <2>0, <3>1, <4>1, CheckLimiter
    <3>3. CASE req[r].key # NoKey
      <4>1. Check(req[r].key, KeyLimit, MinuteOf(req[r].now)) /\ req[r].key \in ApiKeys
        BY <2>3, <3>1, <3>3 DEF Enforce
      <4>2. req[r].key \notin Ips
        BY <4>1
      <4> QED  BY <2>0, <4>1, <4>2, CheckLimiter
    <3> QED  BY <3>2, <3>3
  <2>4. CASE ~AnonExhausted(r) /\ ~AuthFailure(r) /\ ~Enforce(r)
    <3>1. UNCHANGED quota
      BY <1>3, <2>4 DEF Step, Arrive, KnownInvalid, Cached, Resolve, ResolveFails, Disconnect, Remember,
                        RememberInvalid
    <3> QED  BY <3>1, <1>1
  <2> QED  BY <2>1, <2>2, <2>3, <2>4
<1> QED  BY <1>2, <1>3 DEF QuotaNext

(* As long as no request meets the limiter after its minute, no bucket is   *)
(* ever charged above its limit, for any limits and any number of callers.  *)
THEOREM QuotaHolds == QuotaSpec => []QuotaUnlessStraddled
<1>1. QuotaTypeOK /\ LimiterInv => QuotaUnlessStraddled
  <2> SUFFICES ASSUME QuotaTypeOK, LimiterInv, ~straddled, NEW id \in Ids
               PROVE  charged[id] <= (IF id \in Ips THEN AnonLimit ELSE KeyLimit)
    BY DEF QuotaUnlessStraddled
  <2>1. window[id].count \in Nat /\ window[id].count <= KeyLimit
    BY QuotaAssumption DEF QuotaTypeOK, Windows
  <2> QED  BY <2>1, QuotaAssumption DEF LimiterInv
<1> QED  BY <1>1, TypeInit, TypeNext, LimiterInit, LimiterNext, PTL DEF QuotaSpec
=============================================================================
