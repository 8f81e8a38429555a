---------------------------- MODULE MeasurementBatch ----------------------------
(***************************************************************************)
(* How a batch of source measurements becomes one INSERT ... ON CONFLICT:  *)
(* IngestRecent and BackfillHistory add the derived acv-ademe rows, and    *)
(* upsert_many removes the duplicates PostgreSQL would refuse.             *)
(*                                                                         *)
(* One answer of the source after another is fetched, then ingested; the   *)
(* property compares what one statement stores with what the same          *)
(* measurements would leave if each were upserted by itself.               *)
(***************************************************************************)
EXTENDS Measurements, Sequences, SequencesExt

CONSTANTS
    Points,    \* instants of one region
    MaxBatch   \* bound: length of the batch the source answers

VARIABLES
    raw,       \* measurements answered by the source, in its order
    sent,      \* what the last statement was given
    stored     \* stored[k]: the row of key k, or None

vars == <<raw, sent, stored>>

Register == INSTANCE MeasurementRegister

Methods == {"rte-direct", "acv-ademe"}
Keys == Points \X Methods

(* A measurement in a batch: its key (instant and method) and its row. *)
Entry(p, m, row) == [key |-> <<p, m>>, row |-> row]
Source == {Entry(p, "rte-direct", row) : p \in Points, row \in Row}
SameKey(a, b) == a.key = b.key

-----------------------------------------------------------------------------
(* The derived measurement is pushed just before the one it comes from. *)
Enriched(batch) ==
    FlattenSeq([n \in DOMAIN batch |->
        LET e == batch[n]
            acv == Derived(e.row)
        IN  IF acv = None THEN <<e>> ELSE <<Entry(e.key[1], "acv-ademe", acv), e>>])

(* dedup_by_key, scanning the batch: best[k] is the index kept so far.  A   *)
(* kept entry stays only if its vintage is strictly better.                 *)
KeptScanStrict(batch) ==
    LET scan(best, n) ==
            {k \in best : ~SameKey(batch[k], batch[n])} \cup
            LET same == {k \in best : SameKey(batch[k], batch[n])}
            IN  IF \E k \in same : batch[k].row.vintage >= batch[n].row.vintage
                THEN same ELSE {n}
    IN  FoldLeft(scan, {}, [n \in DOMAIN batch |-> n])

KeptScan(batch) ==
    LET scan(best, n) ==
            {k \in best : ~SameKey(batch[k], batch[n])} \cup
            LET same == {k \in best : SameKey(batch[k], batch[n])}
            IN  IF \E k \in same : batch[k].row.vintage > batch[n].row.vintage
                THEN same ELSE {n}
    IN  FoldLeft(scan, {}, [n \in DOMAIN batch |-> n])

(* The kept entries, at the positions they had in the batch. *)
DedupByKey(batch) == Restrict(batch, KeptScan(batch))

(* One entry upserted, and a whole batch in one statement: the entry of a   *)
(* key, if there is one, meets the row stored before the statement.         *)
UpsertOne(rows, e) == [rows EXCEPT ![e.key] = Upserted(@, e.row)]

RowOf(batch, k) ==
    LET mine == {e \in ToSet(batch) : e.key = k}
    IN  IF mine = {} THEN None ELSE (CHOOSE e \in mine : TRUE).row

UpsertMany(rows, batch) == [k \in Keys |-> Upserted(rows[k], RowOf(batch, k))]

-----------------------------------------------------------------------------
Init == raw = <<>> /\ sent = <<>> /\ stored = [k \in Keys |-> None]

(* The source answers. *)
Fetch ==
    /\ raw = <<>>
    /\ raw' \in BoundedSeq(Source, MaxBatch)
    /\ sent' = <<>> /\ UNCHANGED stored

(* IngestRecent::execute, up to the end of the transaction. *)
Ingest ==
    /\ raw # <<>>
    /\ sent' = DedupByKey(Enriched(raw))
    /\ stored' = UpsertMany(stored, sent')
    /\ raw' = <<>>

Next == Fetch \/ Ingest

Spec == Init /\ [][Next]_vars

-----------------------------------------------------------------------------
(* What the store may assume of a batch at one instant (the Batch of        *)
(* MeasurementRegister): a derived row comes with a direct one at least as   *)
(* good, and is its derivation whenever the direct one has a mix.            *)
BatchPaired == Register!Paired([k \in Keys |-> RowOf(sent, k)])

(* One statement stores what the measurements would leave if each, with its *)
(* derived row, were upserted in the order of the source: dropping          *)
(* duplicates loses nothing and picks the same winner as the upsert rule.   *)
(* No key is sent twice, however the source repeats itself, for PostgreSQL  *)
(* would refuse the statement; and the batch is what the store assumes.      *)
OneStatement == [][
    raw # <<>> =>
        /\ stored' = FoldLeft(UpsertOne, stored, Enriched(raw))
        /\ \A a, b \in DOMAIN sent' : SameKey(sent'[a], sent'[b]) => a = b
        /\ BatchPaired']_vars
=============================================================================
