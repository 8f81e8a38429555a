-------------------------- MODULE SubscriptionRegistry --------------------------
(***************************************************************************)
(* What the key register and the webhook subscriptions promise, each       *)
(* operation in one step (ports ApiKeyRepository and                       *)
(* SubscriptionRepository).  WebhookStore shows that the SQL transactions  *)
(* of the Postgres adapter implement this specification; WebhookWatcher    *)
(* uses its operations as "the database".                                  *)
(*                                                                         *)
(* Key and subscription identifiers are drawn at random by the program     *)
(* (256 and 128 bits), so a fresh one is never equal to one still known to *)
(* somebody.  Here a fresh identifier is any member of Keys or Ids that    *)
(* names nothing at the moment, which keeps the state space finite without *)
(* bounding the number of creations.                                       *)
(***************************************************************************)
EXTENDS Naturals, FiniteSets

CONSTANTS
    Keys,         \* fingerprints of API keys
    Ids,          \* identifiers of subscriptions
    None,         \* absence of a row, of a key or of an identifier
    MaxPerOwner,  \* MAX_WEBHOOKS_PER_KEY, subscriptions one key may own
    MaxFailures,  \* consecutive failed deliveries that disable a subscription
    PurgeDays     \* days a disabled subscription is kept

Ages == 0 .. PurgeDays + 1

(* A row of webhook_subscription: its owner, its consecutive_failures and   *)
(* its disabled_at, kept as the number of whole days since it was set (0    *)
(* while it is NULL), which is all that purge_disabled reads of it.  Ages   *)
(* beyond PurgeDays are all alike and are counted as PurgeDays + 1.         *)
Row == [owner : Keys, failures : 0 .. MaxFailures, status : {"active", "disabled"}, age : Ages]

VARIABLES
    keys,  \* keys present in the table api_key
    subs   \* subs[i] is the row of subscription i, or None

vars == <<keys, subs>>

-----------------------------------------------------------------------------
(* Reading the table. *)

Live(i) == subs[i] # None
Active(i) == Live(i) /\ subs[i].status = "active"
SubsOf(k) == {i \in Ids : Live(i) /\ subs[i].owner = k}

(* Rows as the statements of the adapter leave them. *)

NewRow(k) == [owner |-> k, failures |-> 0, status |-> "active", age |-> 0]

StatusAt(n) == IF n >= MaxFailures THEN "disabled" ELSE "active"

RecordedAlways(row, delivered) ==
    LET n == IF delivered THEN 0 ELSE row.failures + 1
    IN  [row EXCEPT !.failures = n, !.status = StatusAt(n)]

(* record_delivery: one UPDATE ... WHERE disabled_at IS NULL *)
Recorded(row, delivered) ==
    IF row.status = "disabled" THEN row
    ELSE LET n == IF delivered THEN 0 ELSE row.failures + 1
         IN  [row EXCEPT !.failures = n, !.status = StatusAt(n)]

Purgeable(row) == row.status = "disabled" /\ row.age > PurgeDays

Aged(row) ==
    IF row.status = "disabled" /\ row.age <= PurgeDays THEN [row EXCEPT !.age = @ + 1] ELSE row

-----------------------------------------------------------------------------
Init == keys = {} /\ subs = [i \in Ids |-> None]

(* mint-key: a key that does not exist yet is registered. *)
InsertKey(k) ==
    /\ k \notin keys
    /\ keys' = keys \cup {k}
    /\ UNCHANGED subs

(* revoke-key: the key goes, and all its subscriptions with it. *)
RevokeKey(k) ==
    /\ k \in keys
    /\ keys' = keys \ {k}
    /\ subs' = [i \in Ids |-> IF i \in SubsOf(k) THEN None ELSE subs[i]]

(* POST /v1/webhooks, answered 201. *)
Create(i, k) ==
    /\ k \in keys
    /\ subs[i] = None
    /\ Cardinality(SubsOf(k)) < MaxPerOwner
    /\ subs' = [subs EXCEPT ![i] = NewRow(k)]
    /\ UNCHANGED keys

(* DELETE /v1/webhooks/{id}, answered 204: only the owner deletes. *)
Delete(i, k) ==
    /\ i \in SubsOf(k)
    /\ subs' = [subs EXCEPT ![i] = None]
    /\ UNCHANGED keys

(* The outcome of a delivery; nothing happens when the row is gone. *)
RecordDelivery(i, delivered) ==
    /\ subs' = IF Live(i) THEN [subs EXCEPT ![i] = Recorded(@, delivered)] ELSE subs
    /\ UNCHANGED keys

PurgeDisabled ==
    /\ subs' = [i \in Ids |-> IF Live(i) /\ Purgeable(subs[i]) THEN None ELSE subs[i]]
    /\ UNCHANGED keys

(* A day passes. *)
Day ==
    /\ subs' = [i \in Ids |-> IF Live(i) THEN Aged(subs[i]) ELSE None]
    /\ UNCHANGED keys

Next ==
    \/ \E k \in Keys : InsertKey(k) \/ RevokeKey(k)
    \/ \E i \in Ids, k \in Keys : Create(i, k) \/ Delete(i, k)
    \/ \E i \in Ids, delivered \in BOOLEAN : RecordDelivery(i, delivered)
    \/ PurgeDisabled
    \/ Day

Spec == Init /\ [][Next]_vars

-----------------------------------------------------------------------------
TypeOK ==
    /\ keys \subseteq Keys
    /\ subs \in [Ids -> Row \cup {None}]
=============================================================================
