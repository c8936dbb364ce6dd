------------------------------ MODULE LogStore ------------------------------
(***************************************************************************)
(* What ext.Store promises of the records it keeps, without rows or ids: a *)
(* list, oldest first, of which saving adds an element, row retention      *)
(* keeps the newest, and age retention and erasure remove exactly the      *)
(* records they name.  The in-memory driver (examples/memstore) is this    *)
(* list; the drivers of internal/store implement it.                       *)
(***************************************************************************)
EXTENDS Integers, Sequences, FiniteSets, SequencesExt

CONSTANTS
    Recs,       \* what a record holds beside its time
    Times,      \* times of records
    Tag,        \* Tag[rec]: its value of the label a purge names
    Values,     \* the values of that label
    RowLimits   \* the maxRows row retention is called with

VARIABLE recs   \* the records, oldest first: [ts, rec]

Init == recs = <<>>

(* A record goes behind all the others, or among them if one is newer.     *)
(* memstore appends.                                                       *)
Save(r) ==
    \E i \in 1..Len(recs) + 1 :
        /\ i <= Len(recs) => \E j \in i..Len(recs) : recs[j].ts > r.ts
        /\ recs' = InsertAt(recs, i, r)

(* The newest maxRows stay, and nothing goes under the cap.                *)
Prune(maxRows) ==
    /\ maxRows > 0 /\ Len(recs) > maxRows
    /\ recs' = SubSeq(recs, Len(recs) - maxRows + 1, Len(recs))

(* The elements of s at the positions I, in their order.                   *)
Only(s, I) ==
    [k \in 1..Cardinality(I) |-> s[CHOOSE i \in I : Cardinality({j \in I : j < i}) = k - 1]]

PruneBefore(cutoff) == recs' = Only(recs, {i \in DOMAIN recs : recs[i].ts >= cutoff})

(* before = 0, the zero time, sets no bound.                               *)
Purge(value, before) ==
    recs' = Only(recs, {i \in DOMAIN recs :
                           ~(Tag[recs[i].rec] = value /\ (before # 0 => recs[i].ts < before))})

Next ==
    \/ \E t \in Times, d \in Recs : Save([ts |-> t, rec |-> d])
    \/ \E n \in RowLimits : Prune(n)
    \/ \E t \in Times : PruneBefore(t)
    \/ \E v \in Values, t \in Times \cup {0} : Purge(v, t)

Spec == Init /\ [][Next]_recs
=============================================================================
