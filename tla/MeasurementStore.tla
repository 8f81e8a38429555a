---------------------------- MODULE MeasurementStore ----------------------------
(***************************************************************************)
(* upsert_many on the national series: the transactions of the poller, of  *)
(* the daily self-heal and of a backfill command, row by row.              *)
(*                                                                         *)
(* PostgreSQL is external: an upsert locks the row of its key, decides on  *)
(* the committed row (READ COMMITTED), and the lock is held to the end of  *)
(* the transaction, also when the row is left as it was.  Two transactions *)
(* that lock in opposite orders wait for each other until one is aborted.  *)
(***************************************************************************)
EXTENDS Naturals, FiniteSets

CONSTANTS
    Points, Readings, WithMix, None,
    Writers    \* tasks and commands that call upsert_many

VARIABLES
    stored,    \* the committed table
    tx         \* tx[w]: the batch of w, the keys locked so far and their rows

vars == <<stored, tx>>

Register == INSTANCE MeasurementRegister
    WITH Points <- Points, Readings <- Readings, WithMix <- WithMix, None <- None, stored <- stored

Keys == Register!Keys

ASSUME MeasurementAssumption ==
    /\ WithMix \subseteq Readings
    /\ None \notin Register!Row

Tx(pc, batch, locked, rows) == [pc |-> pc, batch |-> batch, locked |-> locked, rows |-> rows]
NoRows == [k \in Keys |-> None]
Idle == Tx("idle", NoRows, {}, NoRows)

LockedByOther(w, k) == \E v \in Writers \ {w} : k \in tx[v].locked

-----------------------------------------------------------------------------
Init == Register!Init /\ tx = [w \in Writers |-> Idle]

(* The source has answered and the batch is ready: BEGIN. *)
Begin(w, b) ==
    /\ tx[w].pc = "idle"
    /\ tx' = [tx EXCEPT ![w] = Tx("open", b, {}, NoRows)]
    /\ UNCHANGED stored

(* One row of an INSERT ... ON CONFLICT.  The order of the rows is that of  *)
(* the source, which is not the same for all datasets: any order here.      *)
UpsertRowUnlocked(w, k) ==
    /\ tx[w].pc = "open" /\ k \notin tx[w].locked /\ tx[w].batch[k] # None
    /\ tx' = [tx EXCEPT ![w] =
                Tx("open", tx[w].batch, tx[w].locked \cup {k},
                   [tx[w].rows EXCEPT ![k] = Register!Upserted(stored[k], tx[w].batch[k])])]
    /\ UNCHANGED stored

UpsertRow(w, k) ==
    /\ tx[w].pc = "open" /\ k \notin tx[w].locked /\ tx[w].batch[k] # None
    /\ ~LockedByOther(w, k)
    /\ tx' = [tx EXCEPT ![w] =
                Tx("open", tx[w].batch, tx[w].locked \cup {k},
                   [tx[w].rows EXCEPT ![k] = Register!Upserted(stored[k], tx[w].batch[k])])]
    /\ UNCHANGED stored

CommitPartly(w) ==
    /\ tx[w].pc = "open"
    /\ stored' = [k \in Keys |-> IF k \in tx[w].locked THEN tx[w].rows[k] ELSE stored[k]]
    /\ tx' = [tx EXCEPT ![w] = Idle]

Commit(w) ==
    /\ tx[w].pc = "open"
    /\ tx[w].locked = {k \in Keys : tx[w].batch[k] # None}
    /\ stored' = [k \in Keys |-> IF k \in tx[w].locked THEN tx[w].rows[k] ELSE stored[k]]
    /\ tx' = [tx EXCEPT ![w] = Idle]

(* A statement fails, the task or the command dies, or PostgreSQL picks the *)
(* transaction as the victim of a deadlock: ROLLBACK.                       *)
Abort(w) ==
    /\ tx[w].pc = "open"
    /\ tx' = [tx EXCEPT ![w] = Idle]
    /\ UNCHANGED stored

Next ==
    \E w \in Writers :
        \/ \E b \in Register!Batch : Begin(w, b)
        \/ \E k \in Keys : UpsertRow(w, k)
        \/ Commit(w)
        \/ Abort(w)

Spec == Init /\ [][Next]_vars

-----------------------------------------------------------------------------
TxState ==
    [pc     : {"idle", "open"},
     batch  : Register!Batch,
     locked : SUBSET Keys,
     rows   : [Keys -> Register!Row \cup {None}]]

(* Shape of the table and of the open transactions. *)
TypeOK ==
    /\ stored \in [Keys -> Register!Row \cup {None}]
    /\ tx \in [Writers -> TxState]

(* The derived series never contradicts the direct one: a stored national   *)
(* reading with a mix has exactly its derived acv-ademe row, and no derived *)
(* row has a better vintage than its direct row, whatever writers overlap,  *)
(* fail or send older vintages.                                             *)
AcvMatchesRte == Register!Paired(stored)

(* ADR-0006: no writer ever lowers the vintage of a row, nor removes it.    *)
VintageNeverDown ==
    [][\A k \in Keys : stored[k] # None =>
          stored'[k] # None /\ stored'[k].vintage >= stored[k].vintage]_vars

(* The transactions implement the one-step upsert of a whole batch. *)
ImplementsRegister == Register!Spec

(* The inductive invariant: a locked key has one owner, and the row that    *)
(* owner has prepared is still the upsert of the committed row.             *)
LocksExclude ==
    \A w, v \in Writers : w # v => tx[w].locked \cap tx[v].locked = {}

PreparedCurrent ==
    \A w \in Writers, k \in Keys : k \in tx[w].locked =>
        tx[w].batch[k] # None /\ tx[w].rows[k] = Register!Upserted(stored[k], tx[w].batch[k])

IInv == TypeOK /\ LocksExclude /\ PreparedCurrent /\ AcvMatchesRte
=============================================================================
