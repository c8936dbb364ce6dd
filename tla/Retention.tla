----------------------------- MODULE Retention -----------------------------
(***************************************************************************)
(* Row ids of the `logs` table and what the retention statements of the    *)
(* SQL drivers delete.  SQLite (AUTOINCREMENT) and Postgres (BIGSERIAL)    *)
(* hand out ids 1, 2, 3, ... in insertion order and never reuse one, so a  *)
(* set of ids is a set of rows ordered from oldest to newest.              *)
(***************************************************************************)
EXTENDS Integers, FiniteSets

CONSTANT MaxRows   \* telemetry.store.retention_max_rows; 0 switches row retention off

(* SELECT COALESCE(MAX(id), 0) FROM logs                                   *)
MaxId(ids) == IF ids = {} THEN 0 ELSE CHOOSE i \in ids : \A j \in ids : j <= i

(* Prune: DELETE FROM logs WHERE id <= MAX(id) - maxRows.  The boundary is *)
(* computed from the ids, not from a count of the rows.                    *)
PrunedIds(ids, maxRows) == {i \in ids : i <= MaxId(ids) - maxRows}
=============================================================================
