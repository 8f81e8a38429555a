----------------------------- MODULE MCStoreAndQuota -----------------------------
(***************************************************************************)
(* One instance for TLC of the tables of the store and of the quotas: a   *)
(* behaviour is one of the tables of the store or one of the quotas of the *)
(* callers; which is chosen at the start, and the others stand still.      *)
(***************************************************************************)
EXTENDS MCMeasurementStore, MCApiQuota

VARIABLE part

StoreOrQuotaInit ==
    /\ part \in {"store", "quota"}
    /\ StoreInit /\ QuotaInit
    /\ part = "quota" => subject = "writers"

OfStore ==
    /\ part = "store"
    /\ OfWriters \/ OfBatches \/ OfSide
    /\ UNCHANGED <<part, quotaVars>>

OfQuota == part = "quota" /\ QuotaNext /\ UNCHANGED <<part, allVars>>

StoreOrQuotaSpec ==
    StoreOrQuotaInit /\ [][OfStore \/ OfQuota]_<<part, allVars, quotaVars>>
=============================================================================
