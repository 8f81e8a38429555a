-------------------------- MODULE WebhookWatcherProofs --------------------------
(***************************************************************************)
(* Proofs about WebhookWatcher for any subscriptions, thresholds, values   *)
(* and any size of the channel: the types, and the two promises about      *)
(* notifications, which need what links the baseline of the watcher to     *)
(* the feed across lost updates, failed reads and restarts.                *)
(***************************************************************************)
EXTENDS WebhookWatcher, TLAPS

-----------------------------------------------------------------------------
(* The operations of the registry on its types.  An active row has fewer    *)
(* failures than those that disable it, without which the counter would     *)
(* not stay in its bounds.                                                  *)
RegistryOK ==
    /\ Registry!TypeOK
    /\ \A i \in Ids : Registry!Active(i) => subs[i].failures < MaxFailures

LEMMA RecordedRow ==
    ASSUME NEW row \in Registry!Row, NEW delivered \in BOOLEAN,
           row.status = "active" => row.failures < MaxFailures
    PROVE  /\ Registry!Recorded(row, delivered) \in Registry!Row
           /\ Registry!Recorded(row, delivered).status = "active" =>
                Registry!Recorded(row, delivered).failures < MaxFailures
<1>1. CASE row.status = "disabled"
  BY <1>1 DEF Registry!Recorded
<1>2. CASE row.status = "active"
  <2> DEFINE n == IF delivered THEN 0 ELSE row.failures + 1
  <2>1. n \in 0 .. MaxFailures
    BY <1>2, WatcherAssumption DEF Registry!Row
  <2>2. Registry!Recorded(row, delivered) =
          [row EXCEPT !.failures = n, !.status = Registry!StatusAt(n)]
    BY <1>2 DEF Registry!Recorded
  <2> HIDE DEF n
  <2>3. Registry!StatusAt(n) \in {"active", "disabled"}
        /\ (Registry!StatusAt(n) = "active" => n < MaxFailures)
    BY <2>1, WatcherAssumption DEF Registry!StatusAt
  <2> QED  BY <2>1, <2>2, <2>3 DEF Registry!Row
<1> QED  BY <1>1, <1>2 DEF Registry!Row

LEMMA RegistryRows ==
    ASSUME RegistryOK, keys' \subseteq Keys, DOMAIN subs' = Ids, subs' = [i \in Ids |-> subs'[i]],
           \A i \in Ids : subs'[i] # subs[i] /\ subs'[i] # None =>
               /\ subs'[i] \in Registry!Row
               /\ subs'[i].status = "active" => subs'[i].failures < MaxFailures
    PROVE  RegistryOK'
BY DEF RegistryOK, Registry!TypeOK, Registry!Active, Registry!Live

LEMMA RegistryStep ==
    ASSUME RegistryOK,
           \/ UNCHANGED table
           \/ \E k \in Keys : Registry!InsertKey(k) \/ Registry!RevokeKey(k)
           \/ \E i \in Ids, k \in Keys : Registry!Create(i, k) \/ Registry!Delete(i, k)
           \/ \E i \in Ids, delivered \in BOOLEAN : Registry!RecordDelivery(i, delivered)
           \/ Registry!PurgeDisabled
           \/ Registry!Day
    PROVE  RegistryOK'
<1>0. keys \subseteq Keys /\ subs \in [Ids -> Registry!Row \cup {None}]
  BY DEF RegistryOK, Registry!TypeOK
<1>1. CASE UNCHANGED table
  BY <1>1 DEF table, RegistryOK, Registry!TypeOK, Registry!Active, Registry!Live
<1>2. ASSUME NEW k \in Keys, Registry!InsertKey(k) \/ Registry!RevokeKey(k) PROVE RegistryOK'
  BY <1>0, <1>2, RegistryRows DEF Registry!InsertKey, Registry!RevokeKey
<1>3. ASSUME NEW i \in Ids, NEW k \in Keys, Registry!Create(i, k) PROVE RegistryOK'
  <2>1. Registry!NewRow(k) \in Registry!Row /\ Registry!NewRow(k).failures < MaxFailures
    BY WatcherAssumption DEF Registry!NewRow, Registry!Row, Registry!Ages
  <2> QED  BY <1>0, <1>3, <2>1, RegistryRows DEF Registry!Create
<1>4. ASSUME NEW i \in Ids, NEW k \in Keys, Registry!Delete(i, k) PROVE RegistryOK'
  BY <1>0, <1>4, RegistryRows DEF Registry!Delete
<1>5. ASSUME NEW i \in Ids, NEW delivered \in BOOLEAN, Registry!RecordDelivery(i, delivered)
      PROVE  RegistryOK'
  <2>1. CASE ~Registry!Live(i)
    BY <1>1, <1>5, <2>1 DEF Registry!RecordDelivery, table
  <2>2. CASE Registry!Live(i)
    <3>1. /\ subs[i] \in Registry!Row
          /\ subs[i].status = "active" => subs[i].failures < MaxFailures
      BY <1>0, <2>2 DEF RegistryOK, Registry!Live, Registry!Active
    <3>2. subs' = [subs EXCEPT ![i] = Registry!Recorded(subs[i], delivered)] /\ keys' = keys
      BY <1>5, <2>2 DEF Registry!RecordDelivery
    <3> QED  BY <1>0, <3>1, <3>2, RecordedRow, RegistryRows
  <2> QED  BY <2>1, <2>2
<1>6. CASE Registry!PurgeDisabled
  BY <1>0, <1>6, RegistryRows DEF Registry!PurgeDisabled
<1>7. CASE Registry!Day
  <2>1. ASSUME NEW i \in Ids, subs[i] # None
        PROVE  /\ Registry!Aged(subs[i]) \in Registry!Row
               /\ Registry!Aged(subs[i]).status = subs[i].status
               /\ Registry!Aged(subs[i]).failures = subs[i].failures
    <3>1. subs[i] \in Registry!Row
      BY <1>0, <2>1
    <3> QED  BY <3>1, WatcherAssumption DEF Registry!Aged, Registry!Row, Registry!Ages
  <2>2. ASSUME NEW i \in Ids, subs[i] # None
        PROVE  subs'[i] = Registry!Aged(subs[i])
    BY <1>7, <2>2 DEF Registry!Day, Registry!Live
  <2>3. \A i \in Ids : subs[i] = None => subs'[i] = None
    BY <1>7 DEF Registry!Day, Registry!Live
  <2>4. keys' = keys /\ DOMAIN subs' = Ids /\ subs' = [i \in Ids |-> subs'[i]]
    BY <1>7 DEF Registry!Day
  <2>5. ASSUME NEW i \in Ids, subs[i] # None, subs[i].status = "active"
        PROVE  subs[i].failures < MaxFailures
    BY <2>5 DEF RegistryOK, Registry!Active, Registry!Live
  <2> QED  BY <1>0, <2>1, <2>2, <2>3, <2>4, <2>5, RegistryRows
<1> QED  BY <1>1, <1>2, <1>3, <1>4, <1>5, <1>6, <1>7

-----------------------------------------------------------------------------
(* Types of the loop and of the deliveries; while an update is judged the   *)
(* watcher holds it.                                                        *)
LoopOK ==
    /\ ring \in Seq(Update) /\ Len(ring) <= Capacity
    /\ lagged \in BOOLEAN
    /\ previous \in Values \cup {None}
    /\ watcher \in [pc     : {"recv", "read", "eval"},
                    update : Update \cup {None},
                    prev   : Values \cup {None},
                    todo   : SUBSET Ids]
    /\ watcher.pc # "recv" => watcher.update \in Update
    /\ truth \in Values \cup {None}
    /\ armed \in [Ids -> BOOLEAN]

DeliveriesOK ==
    /\ task \in [Slots -> Task \cup {None}]
    /\ \A s \in Sending : task[s].attempts < MaxAttempts
    /\ streak \in [Ids -> 0 .. MaxFailures]

LEMMA EmptyRing == <<>> \in Seq(Update) /\ Len(<<>>) <= Capacity
BY WatcherAssumption

LEMMA GapMarked ==
    ASSUME NEW u \in Update, NEW marked, marked = [u EXCEPT !.gap = TRUE]
    PROVE  marked \in Update /\ marked.gap
<1>1. marked \in Update
  BY DEF Update
<1>2. marked.gap
  BY DEF Update
<1> QED  BY <1>1, <1>2

(* What Publish leaves in a full ring. *)
LEMMA Overwritten ==
    ASSUME ring \in Seq(Update), Len(ring) >= Capacity, NEW v \in Values
    PROVE  LET all == Append(ring, [value |-> v, gap |-> FALSE])
               new == [Tail(all) EXCEPT ![1].gap = TRUE]
           IN  /\ new \in Seq(Update) /\ Len(new) = Len(ring) /\ Len(new) > 0
               /\ new[1].gap
               /\ (\A n \in 2 .. Len(ring) : ~ring[n].gap) => \A n \in 2 .. Len(new) : ~new[n].gap
<1> DEFINE e == [value |-> v, gap |-> FALSE]
           all == Append(ring, e)
           rest == Tail(all)
           new == [rest EXCEPT ![1].gap = TRUE]
<1>1. e \in Update /\ ~e.gap
  BY DEF Update
<1> HIDE DEF e
<1>2. /\ all \in Seq(Update) /\ Len(all) = Len(ring) + 1 /\ Len(ring) \in Nat /\ Len(ring) > 0
      /\ all[Len(ring) + 1] = e /\ \A n \in 1 .. Len(ring) : all[n] = ring[n]
  BY <1>1, WatcherAssumption
<1> HIDE DEF all
<1>3. /\ rest \in Seq(Update) /\ Len(rest) = Len(ring)
      /\ \A n \in 1 .. Len(ring) : rest[n] = all[n + 1]
  BY <1>2
<1> HIDE DEF rest
<1>4. rest[1] \in Update
  BY <1>2, <1>3
<1> DEFINE first == [rest[1] EXCEPT !.gap = TRUE]
<1>5. first \in Update /\ first.gap
  BY <1>4, GapMarked
<1>6. new = [rest EXCEPT ![1] = first]
  OBVIOUS
<1> HIDE DEF new, first
<1>7. /\ new \in Seq(Update) /\ Len(new) = Len(ring)
      /\ new[1] = first /\ \A n \in 2 .. Len(ring) : new[n] = rest[n]
  BY <1>2, <1>3, <1>5, <1>6
<1>8. ASSUME \A n \in 2 .. Len(ring) : ~ring[n].gap PROVE \A n \in 2 .. Len(new) : ~new[n].gap
  <2> TAKE n \in 2 .. Len(new)
  <2>1. new[n] = all[n + 1]
    BY <1>2, <1>3, <1>7
  <2>2. CASE n = Len(new)
    BY <1>1, <1>2, <1>7, <2>1, <2>2
  <2>3. CASE n # Len(new)
    <3>1. n + 1 \in 2 .. Len(ring) /\ n + 1 \in 1 .. Len(ring)
      BY <1>2, <1>7, <2>3
    <3> QED  BY <1>2, <1>8, <2>1, <3>1
  <2> QED  BY <2>2, <2>3
<1>9. new[1].gap /\ Len(new) > 0
  BY <1>2, <1>5, <1>7
<1> QED  BY <1>7, <1>8, <1>9 DEF new, rest, all, e

LEMMA TypeInit == Init => RegistryOK /\ LoopOK /\ DeliveriesOK
<1> SUFFICES ASSUME Init PROVE RegistryOK /\ LoopOK /\ DeliveriesOK
  OBVIOUS
<1>1. RegistryOK
  BY DEF Init, RegistryOK, Registry!Init, Registry!TypeOK, Registry!Active, Registry!Live
<1>2. LoopOK
  BY EmptyRing DEF Init, LoopOK, Waiting
<1>3. DeliveriesOK
  BY WatcherAssumption DEF Init, DeliveriesOK, Sending
<1> QED  BY <1>1, <1>2, <1>3

LEMMA RegistryNext == RegistryOK /\ DeliveriesOK /\ [Next]_vars => RegistryOK'
<1> SUFFICES ASSUME RegistryOK, DeliveriesOK, [Next]_vars PROVE RegistryOK'
  OBVIOUS
<1>1. ASSUME NEW s \in Slots, NEW lost \in BOOLEAN, Record(s, lost) PROVE RegistryOK'
  <2>1. task[s].id \in Ids /\ (task[s].state = "delivered") \in BOOLEAN
    BY <1>1 DEF Record, DeliveriesOK, Task
  <2>2. UNCHANGED table \/ Registry!RecordDelivery(task[s].id, task[s].state = "delivered")
    BY <1>1 DEF Record
  <2> QED  BY <2>1, <2>2, RegistryStep
<1>2. CASE Others
  BY <1>2, RegistryStep DEF Others
<1>3. CASE UNCHANGED vars \/ Restart \/ Loop \/ (\E v \in Values : Publish(v))
           \/ (\E s \in Slots : Refuse(s) \/ \E ok \in BOOLEAN : Attempt(s, ok))
  <2>1. UNCHANGED table
    BY <1>3 DEF vars, table, Restart, Loop, RecvLagged, Recv, ReadActive, ReadFails, Evaluate,
                EvaluateDone, Publish, Refuse, Attempt
  <2> QED  BY <2>1, RegistryStep
<1> QED  BY <1>1, <1>2, <1>3 DEF Next, Deliver

LEMMA LoopNext == LoopOK /\ [Next]_vars => LoopOK'
<1> SUFFICES ASSUME LoopOK, [Next]_vars PROVE LoopOK'
  OBVIOUS
<1>1. ASSUME NEW v \in Values, Publish(v) PROVE LoopOK'
  <2> DEFINE new == [value |-> v, gap |-> FALSE]
             all == Append(ring, new)
  <2>1. CASE Len(ring) < Capacity
    <3>1. new \in Update
      BY DEF Update
    <3>2. ring' = all /\ UNCHANGED <<lagged, previous, watcher, truth, armed>>
      BY <1>1, <2>1 DEF Publish
    <3>3. all \in Seq(Update) /\ Len(all) <= Capacity
      BY <2>1, <3>1, WatcherAssumption DEF LoopOK
    <3> QED  BY <3>2, <3>3 DEF LoopOK
  <2>2. CASE ~(Len(ring) < Capacity)
    <3>1. /\ ring' = [Tail(all) EXCEPT ![1].gap = TRUE] /\ lagged' = TRUE
          /\ UNCHANGED <<previous, watcher, truth, armed>>
      BY <1>1, <2>2 DEF Publish
    <3>2. Len(ring) >= Capacity
      BY <2>2, WatcherAssumption DEF LoopOK
    <3>3. ring' \in Seq(Update) /\ Len(ring') = Len(ring)
      BY <3>1, <3>2, Overwritten DEF LoopOK
    <3> QED  BY <3>1, <3>3 DEF LoopOK
  <2> QED  BY <2>1, <2>2
<1>2. CASE Recv
  <2>1. ring # <<>> /\ ring \in Seq(Update)
    BY <1>2 DEF Recv, LoopOK
  <2>2. Head(ring) \in Update /\ Tail(ring) \in Seq(Update) /\ Len(Tail(ring)) <= Capacity
    BY <2>1, WatcherAssumption DEF LoopOK
  <2>3. /\ ring' = Tail(ring) /\ UNCHANGED <<lagged, previous, armed>>
        /\ watcher' = [pc |-> "read", update |-> Head(ring), prev |-> previous, todo |-> {}]
        /\ truth' \in {truth, None}
    BY <1>2 DEF Recv
  <2> QED  BY <2>2, <2>3 DEF LoopOK
<1>3. CASE RecvLagged \/ ReadFails \/ EvaluateDone \/ Restart
  <2>1. ring' \in {ring, <<>>}
    BY <1>3 DEF RecvLagged, ReadFails, EvaluateDone, Restart
  <2>2. ring' \in Seq(Update) /\ Len(ring') <= Capacity
    BY <2>1, EmptyRing DEF LoopOK
  <2>3. Waiting.pc = "recv" /\ Waiting \in [pc : {"recv", "read", "eval"}, update : Update \cup {None},
                                            prev : Values \cup {None}, todo : SUBSET Ids]
    BY DEF Waiting
  <2>4. watcher' \in {watcher, Waiting} /\ armed' = armed /\ lagged' \in BOOLEAN
    BY <1>3 DEF RecvLagged, ReadFails, EvaluateDone, Restart, LoopOK
  <2>5. previous' \in {previous, None} /\ truth' \in Values \cup {None}
    BY <1>3 DEF RecvLagged, ReadFails, EvaluateDone, Restart, LoopOK, Update
  <2> HIDE DEF Waiting
  <2> QED  BY <2>2, <2>3, <2>4, <2>5 DEF LoopOK
<1>4. CASE ReadActive
  <2>1. watcher.update.value \in Values
    BY <1>4 DEF ReadActive, LoopOK, Update
  <2>2. \A i \in Ids : (armed[i] \/ ~Holds(i, watcher.update.value)) \in BOOLEAN
    OBVIOUS
  <2>3. UNCHANGED <<ring, lagged, truth>> /\ previous' = watcher.update.value
        /\ watcher.pc = "read"
        /\ watcher' = [watcher EXCEPT !.pc = "eval", !.todo = {i \in Ids : Registry!Active(i)}]
    BY <1>4 DEF ReadActive
  <2>4. armed' \in [Ids -> BOOLEAN]
    BY <1>4, <2>2 DEF ReadActive
  <2> QED  BY <2>1, <2>3, <2>4 DEF LoopOK
<1>5. ASSUME NEW i \in Ids, Evaluate(i) PROVE LoopOK'
  BY <1>5 DEF Evaluate, LoopOK
<1>6. CASE Others
  <2>1. armed' = armed \/ \E i \in Ids : armed' = [armed EXCEPT ![i] = TRUE]
    BY <1>6 DEF Others
  <2> QED  BY <1>6, <2>1 DEF Others, LoopOK
<1>7. CASE UNCHANGED vars \/ \E s \in Slots : Deliver(s)
  BY <1>7 DEF vars, Deliver, Attempt, Refuse, Record, LoopOK
<1> QED  BY <1>1, <1>2, <1>3, <1>4, <1>5, <1>6, <1>7 DEF Next, Loop

(* A slot takes a new delivery, a new state of its delivery, or nothing.    *)
LEMMA SlotChange ==
    ASSUME DeliveriesOK, NEW s \in Slots, NEW next \in Task \cup {None},
           task' = [task EXCEPT ![s] = next], streak' \in [Ids -> 0 .. MaxFailures],
           next # None /\ next.state = "sending" => next.attempts < MaxAttempts
    PROVE  DeliveriesOK'
BY DEF DeliveriesOK, Sending

LEMMA DeliveriesNext == DeliveriesOK /\ [Next]_vars => DeliveriesOK'
<1> SUFFICES ASSUME DeliveriesOK, [Next]_vars PROVE DeliveriesOK'
  OBVIOUS
<1>0. streak \in [Ids -> 0 .. MaxFailures]
  BY DEF DeliveriesOK
<1>1. ASSUME NEW i \in Ids, Evaluate(i) PROVE DeliveriesOK'
  <2> DEFINE new == [id |-> i, attempts |-> 0, state |-> "sending"]
  <2>1. new \in Task /\ new.attempts < MaxAttempts
    BY WatcherAssumption DEF Task
  <2> HIDE DEF new
  <2>2. streak' = streak /\ (task' = task \/ \E s \in Slots : task' = [task EXCEPT ![s] = new])
    BY <1>1 DEF Evaluate, Free, new
  <2>3. CASE task' = task
    BY <2>2, <2>3 DEF DeliveriesOK, Sending
  <2> QED  BY <1>0, <2>1, <2>2, <2>3, SlotChange
<1>2. ASSUME NEW s \in Slots, NEW ok \in BOOLEAN, Attempt(s, ok) PROVE DeliveriesOK'
  <2> DEFINE n == task[s].attempts + 1
             how == IF ok THEN "delivered" ELSE IF n < MaxAttempts THEN "sending" ELSE "failed"
  <2>1. task[s] \in Task /\ task[s].state = "sending"
    BY <1>2 DEF Attempt, Sending, DeliveriesOK
  <2>2. n \in 0 .. MaxAttempts /\ task[s].attempts < MaxAttempts /\ task[s].attempts \in Nat
    BY <1>2, <2>1, WatcherAssumption DEF Attempt, DeliveriesOK, Task
  <2>3. how \in {"sending", "delivered", "failed"} /\ (how = "sending" => n < MaxAttempts)
    OBVIOUS
  <2>4. /\ task' = [task EXCEPT ![s] = [task[s] EXCEPT !.attempts = n, !.state = how]]
        /\ streak' = streak
    BY <1>2 DEF Attempt
  <2> HIDE DEF n, how
  <2> DEFINE next == [task[s] EXCEPT !.attempts = n, !.state = how]
  <2>5. next \in Task /\ next.attempts = n /\ next.state = how
    BY <2>1, <2>2, <2>3 DEF Task
  <2> HIDE DEF next
  <2>6. task' = [task EXCEPT ![s] = next]
    BY <2>4 DEF next
  <2> QED  BY <1>0, <2>3, <2>2, <2>4, <2>5, <2>6, SlotChange
<1>3. ASSUME NEW s \in Slots, Refuse(s) PROVE DeliveriesOK'
  <2> DEFINE next == [task[s] EXCEPT !.state = "failed"]
  <2>1. task[s] \in Task
    BY <1>3 DEF Refuse, Sending, DeliveriesOK
  <2>2. next \in Task /\ next.state = "failed"
    BY <2>1 DEF Task
  <2>3. task' = [task EXCEPT ![s] = next] /\ streak' = streak
    BY <1>3 DEF Refuse
  <2> HIDE DEF next
  <2> QED  BY <1>0, <2>2, <2>3, SlotChange
<1>4. ASSUME NEW s \in Slots, NEW lost \in BOOLEAN, Record(s, lost) PROVE DeliveriesOK'
  <2>1. task[s].id \in Ids
    BY <1>4 DEF Record, DeliveriesOK, Task
  <2>2. task' = [task EXCEPT ![s] = None] /\ streak' \in [Ids -> 0 .. MaxFailures]
    BY <1>0, <1>4, <2>1, WatcherAssumption DEF Record
  <2> QED  BY <2>2, SlotChange
<1>5. CASE Others
  <2>1. task' = task /\ (streak' = streak \/ \E i \in Ids : streak' = [streak EXCEPT ![i] = 0])
    BY <1>5 DEF Others
  <2> QED  BY <1>0, <2>1, WatcherAssumption DEF DeliveriesOK, Sending
<1>6. CASE Restart
  BY <1>6 DEF Restart, DeliveriesOK, Sending
<1>7. CASE UNCHANGED vars \/ RecvLagged \/ Recv \/ ReadActive \/ ReadFails \/ EvaluateDone
           \/ \E v \in Values : Publish(v)
  <2>1. task' = task /\ streak' = streak
    BY <1>7 DEF vars, RecvLagged, Recv, ReadActive, ReadFails, EvaluateDone, Publish
  <2> QED  BY <2>1 DEF DeliveriesOK, Sending
<1> QED  BY <1>1, <1>2, <1>3, <1>4, <1>5, <1>6, <1>7 DEF Next, Loop, Deliver

-----------------------------------------------------------------------------
(* The channel and the baseline.  A gap is only ever just before the oldest *)
(* unread update, and the receiver is told of it, or has been, before it    *)
(* reads that update; so whenever the loop is ready to receive the next     *)
(* update, its baseline is the value that really came before, or nothing    *)
(* when that one was lost.                                                   *)
GapAhead == ring # <<>> /\ ring[1].gap

Feed ==
    /\ \A n \in 2 .. Len(ring) : ~ring[n].gap
    /\ lagged => GapAhead
    /\ watcher.pc # "recv" /\ GapAhead => lagged
    /\ watcher.pc = "recv" /\ ~lagged => previous = IF GapAhead THEN None ELSE truth
    /\ watcher.pc = "read" => watcher.prev = previous /\ previous = truth
    /\ watcher.pc = "eval" => watcher.prev = truth /\ previous = watcher.update.value

(* What a baseline below or above a threshold implies: the feed was seen to *)
(* leave the condition since the last delivery.  The value a judgement      *)
(* starts from counts for the subscriptions still to be judged.             *)
SeenToLeave(i, value) == value # None /\ ~Holds(i, value) => armed[i]

Baseline ==
    \A i \in Ids :
        /\ SeenToLeave(i, previous)
        /\ watcher.pc = "read" => SeenToLeave(i, watcher.prev)
        /\ watcher.pc = "eval" /\ i \in watcher.todo => SeenToLeave(i, watcher.prev)

LEMMA FeedInit == Init => Feed /\ Baseline
<1> SUFFICES ASSUME Init PROVE Feed /\ Baseline
  OBVIOUS
<1>1. ring = <<>> /\ ~lagged /\ previous = None /\ truth = None /\ watcher = Waiting
  BY DEF Init
<1>2. Feed
  BY <1>1 DEF Feed, GapAhead, Waiting
<1>3. Baseline
  BY <1>1 DEF Baseline, SeenToLeave, Waiting
<1> QED  BY <1>2, <1>3

(* A step that leaves the channel and the loop alone. *)
LEMMA FeedSame ==
    ASSUME Feed, UNCHANGED <<ring, lagged, previous, watcher, truth>>
    PROVE  Feed'
BY DEF Feed, GapAhead

LEMMA FeedPublish == ASSUME LoopOK, Feed, NEW v \in Values, Publish(v) PROVE Feed'
<1> DEFINE new == [value |-> v, gap |-> FALSE]
           all == Append(ring, new)
<1>1. CASE Len(ring) < Capacity
  <2>1. new \in Update /\ ~new.gap
    BY DEF Update
  <2> HIDE DEF new
  <2>2. ring' = all /\ UNCHANGED <<lagged, previous, watcher, truth>>
    BY <1>1 DEF Publish, new
  <2>3. /\ Len(ring') = Len(ring) + 1 /\ Len(ring) \in Nat /\ ring' # <<>>
        /\ ring'[Len(ring) + 1] = new /\ \A n \in 1 .. Len(ring) : ring'[n] = ring[n]
    BY <2>1, <2>2 DEF LoopOK
  <2>4. ASSUME NEW n \in 2 .. Len(ring') PROVE ~ring'[n].gap
    <3>1. n = Len(ring) + 1 \/ (n \in 2 .. Len(ring) /\ n \in 1 .. Len(ring))
      BY <2>3
    <3> QED  BY <2>1, <2>3, <3>1 DEF Feed
  <2>5. GapAhead' <=> GapAhead
    <3>1. CASE ring = <<>>
      <4>1. Len(ring) = 0
        BY <3>1
      <4> QED  BY <2>1, <2>3, <3>1, <4>1 DEF GapAhead
    <3>2. CASE ring # <<>>
      <4>1. 1 \in 1 .. Len(ring)
        BY <3>2 DEF LoopOK
      <4> QED  BY <2>3, <3>2, <4>1 DEF GapAhead
    <3> QED  BY <3>1, <3>2
  <2> QED  BY <2>2, <2>4, <2>5 DEF Feed
<1>2. CASE ~(Len(ring) < Capacity)
  <2>1. ring \in Seq(Update) /\ Len(ring) >= Capacity /\ \A n \in 2 .. Len(ring) : ~ring[n].gap
    BY <1>2, WatcherAssumption DEF LoopOK, Feed
  <2>2. /\ ring' = [Tail(all) EXCEPT ![1].gap = TRUE] /\ lagged' = TRUE
        /\ UNCHANGED <<previous, watcher, truth>>
    BY <1>2 DEF Publish
  <2>3. /\ ring' \in Seq(Update) /\ Len(ring') > 0 /\ ring'[1].gap
        /\ \A n \in 2 .. Len(ring') : ~ring'[n].gap
    BY <2>1, <2>2, Overwritten
  <2>4. GapAhead'
    BY <2>3 DEF GapAhead
  <2> QED  BY <2>2, <2>3, <2>4 DEF Feed
<1> QED  BY <1>1, <1>2

LEMMA FeedRecv == ASSUME LoopOK, Feed, Recv PROVE Feed'
<1>1. ring # <<>> /\ ring \in Seq(Update) /\ watcher.pc = "recv" /\ ~lagged
  BY DEF Recv, LoopOK
<1>2. /\ Head(ring) = ring[1] /\ Len(Tail(ring)) = Len(ring) - 1 /\ Len(ring) \in Nat
      /\ \A n \in 1 .. Len(Tail(ring)) : Tail(ring)[n] = ring[n + 1]
  BY <1>1
<1>3. /\ ring' = Tail(ring) /\ lagged' = lagged /\ previous' = previous
      /\ watcher' = [pc |-> "read", update |-> Head(ring), prev |-> previous, todo |-> {}]
      /\ truth' = IF Head(ring).gap THEN None ELSE truth
  BY DEF Recv
<1>4. \A n \in 1 .. Len(ring') : ~ring'[n].gap
  <2> TAKE n \in 1 .. Len(ring')
  <2>1. n + 1 \in 2 .. Len(ring) /\ ring'[n] = ring[n + 1]
    BY <1>2, <1>3
  <2> QED  BY <2>1 DEF Feed
<1>5. ~GapAhead'
  <2>1. ring' \in Seq(Update)
    BY <1>1, <1>3
  <2>2. ring' # <<>> => 1 \in 1 .. Len(ring')
    BY <2>1
  <2> QED  BY <1>4, <2>2 DEF GapAhead
<1>6. previous = truth'
  BY <1>1, <1>2, <1>3 DEF Feed, GapAhead
<1>7. \A n \in 2 .. Len(ring') : ~ring'[n].gap
  BY <1>2, <1>3, <1>4
<1>8. watcher'.pc = "read" /\ watcher'.prev = previous'
  BY <1>3
<1> QED  BY <1>1, <1>3, <1>5, <1>6, <1>7, <1>8 DEF Feed

LEMMA FeedNext == LoopOK /\ Feed /\ [Next]_vars => Feed'
<1> SUFFICES ASSUME LoopOK, Feed, [Next]_vars PROVE Feed'
  OBVIOUS
<1>1. CASE Restart
  <2>1. ring' = <<>> /\ ~lagged' /\ previous' = None /\ truth' = None /\ watcher'.pc = "recv"
    BY <1>1 DEF Restart, Waiting
  <2>2. ~GapAhead' /\ \A n \in 2 .. Len(ring') : FALSE
    BY <2>1 DEF GapAhead
  <2> QED  BY <2>1, <2>2 DEF Feed
<1>2. CASE RecvLagged \/ ReadActive \/ ReadFails \/ EvaluateDone
  <2>1. ring' = ring /\ (GapAhead' <=> GapAhead)
    BY <1>2 DEF RecvLagged, ReadActive, ReadFails, EvaluateDone, GapAhead
  <2>2. CASE RecvLagged
    BY <2>1, <2>2 DEF RecvLagged, Feed
  <2>3. CASE ReadActive
    BY <2>1, <2>3 DEF ReadActive, Feed, LoopOK
  <2>4. CASE ReadFails
    BY <2>1, <2>4 DEF ReadFails, Feed, Waiting
  <2>5. CASE EvaluateDone
    BY <2>1, <2>5 DEF EvaluateDone, Feed, Waiting
  <2> QED  BY <1>2, <2>2, <2>3, <2>4, <2>5
<1>3. ASSUME NEW i \in Ids, Evaluate(i) PROVE Feed'
  <2>1. ring' = ring /\ (GapAhead' <=> GapAhead)
    BY <1>3 DEF Evaluate, GapAhead
  <2> QED  BY <1>3, <2>1 DEF Evaluate, Feed, LoopOK
<1>4. CASE UNCHANGED vars \/ Others \/ \E s \in Slots : Deliver(s)
  BY <1>4, FeedSame DEF vars, Others, Deliver, Attempt, Refuse, Record
<1> QED  BY <1>1, <1>2, <1>3, <1>4, FeedPublish, FeedRecv DEF Next, Loop

LEMMA BaselineNext == LoopOK /\ Feed /\ Baseline /\ [Next]_vars => Baseline'
<1> SUFFICES ASSUME LoopOK, Feed, Baseline, [Next]_vars, NEW i \in Ids
             PROVE  /\ SeenToLeave(i, previous)'
                    /\ watcher'.pc = "read" => SeenToLeave(i, watcher.prev)'
                    /\ watcher'.pc = "eval" /\ i \in watcher'.todo => SeenToLeave(i, watcher.prev)'
  BY DEF Baseline
<1>0. /\ SeenToLeave(i, previous)
      /\ watcher.pc = "read" => SeenToLeave(i, watcher.prev)
      /\ watcher.pc = "eval" /\ i \in watcher.todo => SeenToLeave(i, watcher.prev)
  BY DEF Baseline
<1>1. CASE UNCHANGED <<previous, watcher>> /\ (armed[i] => armed'[i])
  BY <1>0, <1>1 DEF SeenToLeave, Holds
<1>2. CASE Recv \/ RecvLagged \/ ReadFails \/ EvaluateDone \/ Restart
  BY <1>0, <1>2 DEF Recv, RecvLagged, ReadFails, EvaluateDone, Restart, SeenToLeave, Holds, Waiting
<1>3. CASE ReadActive
  <2>1. /\ previous' = watcher.update.value /\ watcher'.prev = watcher.prev /\ watcher'.pc = "eval"
        /\ watcher.pc = "read"
    BY <1>3 DEF ReadActive, LoopOK
  <2>2. armed'[i] <=> armed[i] \/ ~Holds(i, watcher.update.value)
    BY <1>3 DEF ReadActive
  <2> QED  BY <1>0, <2>1, <2>2 DEF SeenToLeave, Holds
<1>4. ASSUME NEW j \in Ids, Evaluate(j)
      PROVE  /\ SeenToLeave(i, previous)'
             /\ watcher'.pc = "read" => SeenToLeave(i, watcher.prev)'
             /\ watcher'.pc = "eval" /\ i \in watcher'.todo => SeenToLeave(i, watcher.prev)'
  <2>1. /\ previous' = previous /\ watcher'.prev = watcher.prev /\ watcher'.pc = watcher.pc
        /\ watcher.pc = "eval" /\ watcher'.todo = watcher.todo \ {j}
        /\ previous = watcher.update.value
    BY <1>4 DEF Evaluate, LoopOK, Feed
  <2>2. CASE i # j
    <3>1. armed'[i] = armed[i]
      BY <1>4, <2>2 DEF Evaluate, LoopOK
    <3> QED  BY <1>0, <2>1, <3>1 DEF SeenToLeave, Holds
  <2>3. CASE i = j
    <3>1. armed' = armed \/ Holds(i, watcher.update.value)
      BY <1>4, <2>3 DEF Evaluate, ShouldFire
    <3> QED  BY <1>0, <2>1, <2>3, <3>1 DEF SeenToLeave, Holds
  <2> QED  BY <2>2, <2>3
<1>5. CASE Others
  <2>1. armed' = armed \/ \E j \in Ids : armed' = [armed EXCEPT ![j] = TRUE]
    BY <1>5 DEF Others
  <2>2. armed[i] => armed'[i]
    BY <2>1 DEF LoopOK
  <2> QED  BY <1>1, <1>5, <2>2 DEF Others
<1>6. CASE UNCHANGED vars \/ (\E v \in Values : Publish(v)) \/ (\E s \in Slots : Deliver(s))
  BY <1>1, <1>6 DEF vars, Publish, Deliver, Attempt, Refuse, Record
<1> QED  BY <1>2, <1>3, <1>4, <1>5, <1>6 DEF Next, Loop

-----------------------------------------------------------------------------
(* The theorems. *)
WInv == RegistryOK /\ LoopOK /\ DeliveriesOK /\ Feed /\ Baseline

LEMMA WInvariant == Spec => []WInv
<1>1. Init => WInv
  BY TypeInit, FeedInit DEF WInv
<1>2. WInv /\ [Next]_vars => WInv'
  BY RegistryNext, LoopNext, DeliveriesNext, FeedNext, BaselineNext DEF WInv
<1> QED  BY <1>1, <1>2, PTL DEF Spec

(* The state of the watcher, its channel and its deliveries keep their      *)
(* shapes, and the failures of a row their bound.                           *)
THEOREM TypeCorrect == Spec => []TypeOK
<1>1. WInv => TypeOK
  BY DEF WInv, RegistryOK, LoopOK, DeliveriesOK, TypeOK
<1> QED  BY <1>1, WInvariant, PTL

(* Only the evaluation of a subscription that crosses its threshold starts  *)
(* a delivery, and then of that subscription only.                          *)
LEMMA OnlyCrossingsStart ==
    ASSUME WInv, [Next]_vars, NEW i \in Ids, Starts(i)
    PROVE  /\ Evaluate(i) /\ Cardinality(Sending) < Permits
           /\ ShouldFire(i, watcher.prev, watcher.update.value)
<1>0. task \in [Slots -> Task \cup {None}]
  BY DEF WInv, DeliveriesOK
<1>1. PICK s \in Slots : task[s] = None /\ task'[s] # None /\ task'[s].id = i
  BY DEF Starts
<1>2. ASSUME NEW j \in Ids, Evaluate(j)
      PROVE  /\ i = j /\ Cardinality(Sending) < Permits
             /\ ShouldFire(i, watcher.prev, watcher.update.value)
  <2>1. /\ ShouldFire(j, watcher.prev, watcher.update.value) /\ Cardinality(Sending) < Permits
        /\ \E t \in Free : task' = [task EXCEPT ![t] = [id |-> j, attempts |-> 0, state |-> "sending"]]
    BY <1>1, <1>2 DEF Evaluate
  <2>2. PICK t \in Slots : task' = [task EXCEPT ![t] = [id |-> j, attempts |-> 0, state |-> "sending"]]
    BY <2>1 DEF Free
  <2>3. s = t /\ i = j
    BY <1>0, <1>1, <2>2
  <2> QED  BY <2>1, <2>3
<1>3. ASSUME NEW t \in Slots, Deliver(t) PROVE FALSE
  <2>1. task[t] # None /\ \A u \in Slots \ {t} : task'[u] = task[u]
    BY <1>0, <1>3 DEF Deliver, Attempt, Refuse, Record, Sending
  <2> QED  BY <1>1, <2>1
<1>4. CASE UNCHANGED vars \/ RecvLagged \/ Recv \/ ReadActive \/ ReadFails \/ EvaluateDone
           \/ Others \/ \E v \in Values : Publish(v)
  BY <1>1, <1>4 DEF vars, RecvLagged, Recv, ReadActive, ReadFails, EvaluateDone, Others, Publish
<1>5. CASE Restart
  BY <1>1, <1>5 DEF Restart
<1> QED  BY <1>2, <1>3, <1>4, <1>5 DEF Next, Loop

(* Between two deliveries of a subscription its condition was seen not to   *)
(* hold, whatever restarts, lost updates and failed reads come between.     *)
THEOREM NeverRepeats == Spec => NoRepeat
<1>1. ASSUME WInv, [Next]_vars, NEW i \in Ids, Starts(i) PROVE armed[i]
  <2>1. Evaluate(i) /\ ShouldFire(i, watcher.prev, watcher.update.value)
    BY <1>1, OnlyCrossingsStart
  <2>2. watcher.pc = "eval" /\ i \in watcher.todo
    BY <2>1 DEF Evaluate
  <2>3. SeenToLeave(i, watcher.prev)
    BY <1>1, <2>2 DEF WInv, Baseline
  <2> QED  BY <2>1, <2>3 DEF ShouldFire, SeenToLeave
<1>2. WInv /\ [Next]_vars => [\A i \in Ids : Starts(i) => armed[i]]_vars
  BY <1>1
<1> QED  BY <1>2, WInvariant, PTL DEF Spec, NoRepeat

(* A subscription that is judged is notified exactly when the feed itself   *)
(* crossed its threshold, permits permitting.                                *)
THEOREM NotifiedOnCrossings == Spec => NotifiesExactlyOnCrossings
<1> DEFINE Judged(i) == watcher.pc = "eval" /\ i \in watcher.todo /\ i \notin watcher'.todo
                        /\ watcher'.pc = "eval"
           Crossed(i) == /\ truth # None
                         /\ ~Holds(i, truth) /\ Holds(i, watcher.update.value)
                         /\ Cardinality(Sending) < Permits
<1>1. ASSUME WInv, [Next]_vars, NEW i \in Ids, Judged(i) PROVE Starts(i) <=> Crossed(i)
  <2>1. watcher.prev = truth
    BY <1>1 DEF WInv, Feed
  <2>2. Evaluate(i)
    <3>1. ASSUME NEW j \in Ids, Evaluate(j) PROVE i = j
      BY <1>1, <3>1 DEF Evaluate, WInv, LoopOK
    <3>2. CASE UNCHANGED watcher
      BY <1>1, <3>2
    <3>3. CASE Recv \/ ReadActive \/ ReadFails \/ EvaluateDone \/ Restart
      BY <1>1, <3>3 DEF Recv, ReadActive, ReadFails, EvaluateDone, Restart, Waiting
    <3>4. CASE UNCHANGED vars \/ RecvLagged \/ Others \/ (\E v \in Values : Publish(v))
               \/ \E s \in Slots : Deliver(s)
      BY <3>2, <3>4 DEF vars, RecvLagged, Others, Publish, Deliver, Attempt, Refuse, Record
    <3> QED  BY <1>1, <3>1, <3>3, <3>4 DEF Next, Loop
  <2>3. ASSUME Starts(i) PROVE Crossed(i)
    BY <1>1, <2>1, <2>3, OnlyCrossingsStart DEF ShouldFire
  <2>4. ASSUME Crossed(i) PROVE Starts(i)
    <3> DEFINE new == [id |-> i, attempts |-> 0, state |-> "sending"]
    <3>1. new \in Task /\ new.id = i
      BY WatcherAssumption DEF Task
    <3> HIDE DEF new
    <3>2. \E s \in Free : task' = [task EXCEPT ![s] = new]
      BY <2>1, <2>2, <2>4 DEF Evaluate, ShouldFire, new
    <3>3. PICK s \in Slots : task[s] = None /\ task' = [task EXCEPT ![s] = new]
      BY <3>2 DEF Free
    <3> QED  BY <1>1, <3>1, <3>3, WatcherAssumption DEF Starts, WInv, DeliveriesOK
  <2> QED  BY <2>3, <2>4
<1>2. WInv /\ [Next]_vars =>
        [\A i \in Ids : Judged(i) => (Starts(i) <=> Crossed(i))]_vars
  BY <1>1
<1> QED  BY <1>2, WInvariant, PTL DEF Spec, NotifiesExactlyOnCrossings
=============================================================================
