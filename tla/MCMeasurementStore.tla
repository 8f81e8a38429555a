--------------------------- MODULE MCMeasurementStore ---------------------------
(***************************************************************************)
(* Small instances of what the tables are given: a behaviour is one of two *)
(* writers on the two rows of an instant, one of the batches they are made *)
(* from, or one of a table beside the measurements; which is chosen at the *)
(* start.                                                                  *)
(***************************************************************************)
EXTENDS MeasurementStore

CONSTANTS MaxBatch, Amounts, Runs, Valids, MaxReach, Visits, Visitors, Days

ASSUME InstanceAssumption == MaxBatch \in Nat /\ Runs \subseteq Nat

VARIABLES subject, raw, batch, rows, table, sent, load, weather, served, visited, memo, visit, told

batchVars == <<raw, batch, rows>>
sideVars == <<table, sent, load, weather, served, visited, memo, visit, told>>
allVars == <<subject, vars, batchVars, sideVars>>

Batches == INSTANCE MeasurementBatch WITH raw <- raw, sent <- batch, stored <- rows
Side == INSTANCE SideTables WITH table <- table, sent <- sent

StoreInit ==
    /\ subject \in {"writers", "batches", "side tables"}
    /\ Init /\ Batches!Init /\ Side!Init
    /\ subject # "side tables" => table = "loads"

OfWriters == subject = "writers" /\ Next /\ UNCHANGED <<subject, batchVars, sideVars>>
OfBatches == subject = "batches" /\ Batches!Next /\ UNCHANGED <<subject, vars, sideVars>>
OfSide == subject = "side tables" /\ Side!Next /\ UNCHANGED <<subject, vars, batchVars>>

StoreSpec == StoreInit /\ [][OfWriters \/ OfBatches \/ OfSide]_allVars

(* One statement stores what the measurements of the source would leave one *)
(* by one, and no key is sent twice: OneStatement of MeasurementBatch.       *)
OneStatement == Batches!OneStatement

(* No field of a load once known is lost, whatever batches bring, and the   *)
(* weather served never goes back to an older run: NothingForgotten of       *)
(* SideTables.                                                                *)
NothingForgotten == Side!NothingForgotten

(* A visitor just counted is in the count he is told: VisitCounted of       *)
(* SideTables.                                                                *)
VisitCounted == Side!VisitCounted
=============================================================================
