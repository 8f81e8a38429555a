----------------------------- MODULE WebhookWatcher -----------------------------
(***************************************************************************)
(* The webhook watcher (spawn_webhook_watcher): one task that receives the *)
(* national updates from the broadcast channel, compares each with the     *)
(* last value it evaluated, and starts a delivery task for every active    *)
(* subscription whose threshold has just been crossed.                     *)
(*                                                                         *)
(* The database is the registry of SubscriptionRegistry, one step per      *)
(* operation (WebhookStore justifies it); its other users (owners,         *)
(* revocations, purge) run at any moment.  The broadcast channel of tokio  *)
(* is external: a ring of Capacity updates, the oldest overwritten when    *)
(* the receiver lags, which it learns by one Lagged error at its next      *)
(* receive.  Only national updates exist: the poller sends no other, and   *)
(* create_webhook refuses any other region.                                *)
(***************************************************************************)
EXTENDS Integers, Sequences, FiniteSets

CONSTANTS
    Keys, Ids, None, MaxPerOwner, MaxFailures, PurgeDays,
    Values,       \* intensities an update may carry
    Threshold,    \* Threshold[i] of subscription i
    Direction,    \* Direction[i], "below" or "above"
    Capacity,     \* size of the broadcast ring
    Permits,      \* deliveries that may be sending at once
    MaxAttempts,  \* attempts of one delivery
    Slots,        \* bound: delivery tasks alive at once, sending or recording
    Outages       \* database calls that may fail, among "read" and "record"

VARIABLES
    keys, subs,   \* the registry
    ring,         \* updates sent and not received, oldest first
    lagged,       \* an update was overwritten before being received
    previous,     \* last value evaluated (the entry of the map), or None
    watcher,      \* where the loop is, the update it holds and what is left
    task,         \* task[s]: the delivery in slot s, or None
    truth,        \* history: the value that came just before in the feed
    armed,        \* history: armed[i], i was seen not to hold since its last delivery
    streak        \* history: failed deliveries of i since its last success

table == <<keys, subs>>
channel == <<ring, lagged>>
history == <<truth, armed, streak>>
vars == <<keys, subs, ring, lagged, previous, watcher, task, truth, armed, streak>>

Registry == INSTANCE SubscriptionRegistry
    WITH Keys <- Keys, Ids <- Ids, None <- None, MaxPerOwner <- MaxPerOwner, MaxFailures <- MaxFailures,
         PurgeDays <- PurgeDays, keys <- keys, subs <- subs

(* An update, and (history) whether the one sent just before was lost. *)
Update == [value : Values, gap : BOOLEAN]

(* A delivery: its subscription, the attempts made, and its outcome once    *)
(* the last attempt is over ("sending" until then).                         *)
Task == [id : Ids, attempts : 0 .. MaxAttempts, state : {"sending", "delivered", "failed"}]

ASSUME WatcherAssumption ==
    /\ Values \subseteq Int /\ None \notin Values
    /\ Threshold \in [Ids -> Int]
    /\ Direction \in [Ids -> {"below", "above"}]
    /\ Capacity \in Nat \ {0}
    /\ Permits \in Nat \ {0}
    /\ MaxAttempts \in Nat \ {0}
    /\ Cardinality(Slots) >= Cardinality(Ids)
    /\ Outages \subseteq {"read", "record"}
    /\ MaxFailures \in Nat \ {0} /\ PurgeDays \in Nat \ {0}
    /\ None \notin Registry!Row /\ None \notin Update /\ None \notin Task

Waiting == [pc |-> "recv", update |-> None, prev |-> None, todo |-> {}]

-----------------------------------------------------------------------------
(* ThresholdDirection::holds, strict on both sides *)
Holds(i, v) == IF Direction[i] = "below" THEN v < Threshold[i] ELSE v > Threshold[i]

ShouldFireLevel(i, prev, current) == Holds(i, current)

(* should_fire: only on the crossing, never without a known previous value  *)
ShouldFire(i, prev, current) ==
    prev # None /\ ~Holds(i, prev) /\ Holds(i, current)

Sending == {s \in Slots : task[s] # None /\ task[s].state = "sending"}
Free == {s \in Slots : task[s] = None}
InTask(i) == i \in watcher.todo \/ \E s \in Slots : task[s] # None /\ task[s].id = i

-----------------------------------------------------------------------------
Init ==
    /\ Registry!Init
    /\ ring = <<>> /\ lagged = FALSE
    /\ previous = None
    /\ watcher = Waiting
    /\ task = [s \in Slots |-> None]
    /\ truth = None
    /\ armed = [i \in Ids |-> TRUE]
    /\ streak = [i \in Ids |-> 0]

(* updates.send of the poller, once per cycle.  When the ring is full its   *)
(* oldest update is overwritten; the one behind it then follows a gap.      *)
Publish(v) ==
    LET new == [value |-> v, gap |-> FALSE]
        all == Append(ring, new)
    IN  /\ IF Len(ring) < Capacity
           THEN ring' = all /\ UNCHANGED lagged
           ELSE ring' = [Tail(all) EXCEPT ![1].gap = TRUE] /\ lagged' = TRUE
        /\ UNCHANGED <<keys, subs, previous, watcher, task, truth, armed, streak>>

(* recv answers Lagged: the baseline is forgotten. *)
RecvLaggedKeep ==
    /\ watcher.pc = "recv" /\ lagged
    /\ lagged' = FALSE
    /\ UNCHANGED <<keys, subs, ring, previous, watcher, task, truth, armed, streak>>

RecvLagged ==
    /\ watcher.pc = "recv" /\ lagged
    /\ lagged' = FALSE
    /\ previous' = None
    /\ UNCHANGED <<keys, subs, ring, watcher, task, truth, armed, streak>>

(* recv answers an update; prev is read before the database is asked.  The  *)
(* bound on tasks leaves a slot for every delivery this update may start.   *)
Recv ==
    /\ watcher.pc = "recv" /\ ~lagged /\ ring # <<>>
    /\ Cardinality(Free) >= Cardinality(Ids)
    /\ ring' = Tail(ring)
    /\ watcher' = [pc |-> "read", update |-> Head(ring), prev |-> previous, todo |-> {}]
    /\ truth' = IF Head(ring).gap THEN None ELSE truth
    /\ UNCHANGED <<keys, subs, lagged, previous, task, armed, streak>>

(* active(): the subscriptions are read, and only then the baseline moves. *)
ReadActive ==
    /\ watcher.pc = "read"
    /\ watcher' = [watcher EXCEPT !.pc = "eval", !.todo = {i \in Ids : Registry!Active(i)}]
    /\ previous' = watcher.update.value
    /\ armed' = [i \in Ids |-> armed[i] \/ ~Holds(i, watcher.update.value)]
    /\ UNCHANGED <<keys, subs, ring, lagged, task, truth, streak>>

(* active() fails: the update is dropped and the baseline does not move.    *)
ReadFails ==
    /\ "read" \in Outages
    /\ watcher.pc = "read"
    /\ watcher' = Waiting
    /\ UNCHANGED <<keys, subs, ring, lagged, previous, task, truth, armed, streak>>

(* One subscription of the list, in any order: fire if the threshold was    *)
(* crossed and a permit is free (try_acquire: no wait, saturation skips).   *)
Evaluate(i) ==
    /\ watcher.pc = "eval" /\ i \in watcher.todo
    /\ watcher' = [watcher EXCEPT !.todo = @ \ {i}]
    /\ IF ShouldFire(i, watcher.prev, watcher.update.value) /\ Cardinality(Sending) < Permits
       THEN /\ \E s \in Free :
                  task' = [task EXCEPT ![s] = [id |-> i, attempts |-> 0, state |-> "sending"]]
            /\ armed' = [armed EXCEPT ![i] = FALSE]
       ELSE UNCHANGED <<task, armed>>
    /\ UNCHANGED <<keys, subs, ring, lagged, previous, truth, streak>>

(* The list is exhausted: back to recv. *)
EvaluateDone ==
    /\ watcher.pc = "eval" /\ watcher.todo = {}
    /\ watcher' = Waiting
    /\ truth' = watcher.update.value
    /\ UNCHANGED <<keys, subs, ring, lagged, previous, task, armed, streak>>

-----------------------------------------------------------------------------
(* deliver: attempts until one is answered 2xx, MaxAttempts at most.  Each  *)
(* is ended by the client's timeouts.  The permit is released at the end.   *)
AttemptForever(s, ok) ==
    /\ s \in Sending
    /\ task' = [task EXCEPT ![s] =
                   [@ EXCEPT !.attempts = (@ + 1) % MaxAttempts,
                             !.state = IF ok THEN "delivered" ELSE "sending"]]
    /\ UNCHANGED <<keys, subs, ring, lagged, previous, watcher, truth, armed, streak>>

Attempt(s, ok) ==
    /\ s \in Sending
    /\ LET n == task[s].attempts + 1
       IN  task' = [task EXCEPT ![s] =
                      [@ EXCEPT !.attempts = n,
                                !.state = IF ok THEN "delivered"
                                          ELSE IF n < MaxAttempts THEN "sending" ELSE "failed"]]
    /\ UNCHANGED <<keys, subs, ring, lagged, previous, watcher, truth, armed, streak>>

(* The address guard refuses the URL (accepted by an older version of the   *)
(* server, say): a failure without any attempt.                             *)
Refuse(s) ==
    /\ s \in Sending /\ task[s].attempts = 0
    /\ task' = [task EXCEPT ![s].state = "failed"]
    /\ UNCHANGED <<keys, subs, ring, lagged, previous, watcher, truth, armed, streak>>

(* record_delivery and the end of the task.  When the database fails the    *)
(* outcome is lost (only logged).                                           *)
Record(s, lost) ==
    /\ task[s] # None /\ task[s].state # "sending"
    /\ LET i == task[s].id
           delivered == task[s].state = "delivered"
       IN  /\ IF lost THEN UNCHANGED table ELSE Registry!RecordDelivery(i, delivered)
           /\ streak' = [streak EXCEPT ![i] =
                IF delivered THEN 0 ELSE IF @ < MaxFailures THEN @ + 1 ELSE @]
    /\ lost => "record" \in Outages
    /\ task' = [task EXCEPT ![s] = None]
    /\ UNCHANGED <<ring, lagged, previous, watcher, truth, armed>>

-----------------------------------------------------------------------------
(* The other users of the registry.  A created subscription has an          *)
(* identifier that nobody refers to any more.                               *)
Others ==
    /\ \/ \E k \in Keys :
             \/ Registry!InsertKey(k) /\ UNCHANGED <<armed, streak>>
             \/ Registry!RevokeKey(k) /\ UNCHANGED <<armed, streak>>
             \/ \E i \in Ids : Registry!Delete(i, k) /\ UNCHANGED <<armed, streak>>
             \/ \E i \in Ids : /\ ~InTask(i)
                               /\ Registry!Create(i, k)
                               /\ armed' = [armed EXCEPT ![i] = TRUE]
                               /\ streak' = [streak EXCEPT ![i] = 0]
       \/ (Registry!PurgeDisabled \/ Registry!Day) /\ UNCHANGED <<armed, streak>>
    /\ UNCHANGED <<ring, lagged, previous, watcher, task, truth>>

(* The server stops or crashes and starts again: the channel, the baseline  *)
(* and the deliveries in flight are gone, the tables stay.                  *)
Restart ==
    /\ ring' = <<>> /\ lagged' = FALSE
    /\ previous' = None
    /\ watcher' = Waiting
    /\ task' = [s \in Slots |-> None]
    /\ truth' = None
    /\ UNCHANGED <<keys, subs, armed, streak>>

Loop == RecvLagged \/ Recv \/ ReadActive \/ ReadFails \/ (\E i \in Ids : Evaluate(i)) \/ EvaluateDone
Deliver(s) ==
    \/ \E ok \in BOOLEAN : Attempt(s, ok)
    \/ Refuse(s)
    \/ \E lost \in BOOLEAN : Record(s, lost)

Next ==
    \/ \E v \in Values : Publish(v)
    \/ Loop
    \/ \E s \in Slots : Deliver(s)
    \/ Others
    \/ Restart

Spec == Init /\ [][Next]_vars

(* The loop is scheduled; nothing is assumed of the endpoints.              *)
LoopFairSpec == Spec /\ WF_vars(Loop)

(* Attempts end by their timeouts, recordings by those of the pool.         *)
DeliveryFairness == \A s \in Slots : WF_vars(Deliver(s))

-----------------------------------------------------------------------------
TypeOK ==
    /\ Registry!TypeOK
    /\ ring \in Seq(Update) /\ Len(ring) <= Capacity
    /\ lagged \in BOOLEAN
    /\ previous \in Values \cup {None}
    /\ watcher \in [pc     : {"recv", "read", "eval"},
                    update : Update \cup {None},
                    prev   : Values \cup {None},
                    todo   : SUBSET Ids]
    /\ task \in [Slots -> Task \cup {None}]
    /\ truth \in Values \cup {None}
    /\ armed \in [Ids -> BOOLEAN]
    /\ streak \in [Ids -> 0 .. MaxFailures]

Starts(i) ==
    \E s \in Slots : task[s] = None /\ task'[s] # None /\ task'[s].id = i

(* Edge trigger: a subscription evaluated for an update is notified exactly *)
(* when that update crosses its threshold, judged against the value that    *)
(* really came before it (updates whose subscriptions could not be read are *)
(* still to be judged; after a lost update or a restart nothing is known    *)
(* and nothing is sent), unless all permits are taken.                      *)
NotifiesExactlyOnCrossings ==
    [][\A i \in Ids : (watcher.pc = "eval" /\ i \in watcher.todo /\ i \notin watcher'.todo
                       /\ watcher'.pc = "eval") =>
          (Starts(i) <=> /\ truth # None
                         /\ ~Holds(i, truth) /\ Holds(i, watcher.update.value)
                         /\ Cardinality(Sending) < Permits)]_vars

(* No spam: between two deliveries of a subscription the feed left its      *)
(* condition, even across restarts, lost updates and database failures.     *)
NoRepeat == [][\A i \in Ids : Starts(i) => armed[i]]_vars

(* The comment on lost outcomes: "no effect on deliveries, at worst a       *)
(* delayed deactivation".  So a subscription is only disabled when its last *)
(* MaxFailures deliveries all failed.                                       *)
NeverDisabledEarly ==
    [][\A i \in Ids : (Registry!Active(i) /\ Registry!Live(i)' /\ subs'[i].status = "disabled")
          => streak'[i] = MaxFailures]_vars

(* The loop never waits for an endpoint: it always returns to recv.  And    *)
(* every delivery ends, and its permit comes back, when its attempts do.    *)
NothingStalls ==
    /\ watcher.pc # "recv" ~> watcher.pc = "recv"
    /\ DeliveryFairness => \A s \in Slots : task[s] # None ~> task[s] = None
=============================================================================
