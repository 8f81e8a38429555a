-------------------------- MODULE MeasurementRegister ---------------------------
(***************************************************************************)
(* What upsert_many promises of the national measurements (port            *)
(* IntensityRepository): a batch of rows is stored in one step, each row   *)
(* only over a vintage that is not better.  MeasurementStore shows that    *)
(* the transactions of the Postgres adapter implement this.                *)
(***************************************************************************)
EXTENDS Measurements

CONSTANT Points  \* instants of the national series

VARIABLE stored  \* stored[k]: the row of key k, or None

Methods == {"rte-direct", "acv-ademe"}
Keys == Points \X Methods

(* The two rows of an instant, in the table or in a batch. *)
Rte(rows, p) == rows[<<p, "rte-direct">>]
Acv(rows, p) == rows[<<p, "acv-ademe">>]

(* A batch as it is sent (shown of the source answers by MeasurementBatch): *)
(* a derived row comes with a direct row at least as good, and is its       *)
(* derivation whenever the direct row has a mix.                            *)
Paired(rows) ==
    \A p \in Points :
        /\ Acv(rows, p) # None =>
              Rte(rows, p) # None /\ Acv(rows, p).vintage <= Rte(rows, p).vintage
        /\ Derived(Rte(rows, p)) # None => Acv(rows, p) = Derived(Rte(rows, p))

Batch == {b \in [Keys -> Row \cup {None}] : Paired(b)}

Init == stored = [k \in Keys |-> None]

Ingest(b) == stored' = [k \in Keys |-> Upserted(stored[k], b[k])]

Next == \E b \in Batch : Ingest(b)

Spec == Init /\ [][Next]_stored
=============================================================================
