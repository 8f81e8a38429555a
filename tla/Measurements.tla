------------------------------ MODULE Measurements ------------------------------
(***************************************************************************)
(* A stored measurement and the rule by which a new one replaces it        *)
(* (ADR-0006: the vintage of a row never goes down).                       *)
(***************************************************************************)
EXTENDS Naturals

CONSTANTS
    Readings,  \* what the source may say of one instant: intensity and mix
    WithMix,   \* the readings from which an acv-ademe intensity is defined
    None       \* absence of a row

Tr == 0
Consolidated == 1
Definitive == 2

(* vintage_rank: real time, consolidated, definitive *)
Vintages == {Tr, Consolidated, Definitive}

(* A row of the table measurement: the source reading its intensity and mix *)
(* come from, and the vintage of that reading.                              *)
Row == [vintage : Vintages, reading : Readings]

(* ON CONFLICT ... WHERE EXCLUDED.vintage_rank >= measurement.vintage_rank  *)
AcceptsAny(old, new) == TRUE

Accepts(old, new) == old = None \/ new.vintage >= old.vintage

(* The row after the upsert of one row; None brings nothing. *)
Upserted(old, new) == IF new # None /\ Accepts(old, new) THEN new ELSE old

(* derive_acv_ademe: same instant and vintage, from the mix; None without.  *)
Derived(row) == IF row # None /\ row.reading \in WithMix THEN row ELSE None
=============================================================================
