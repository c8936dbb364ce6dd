-------------------------------- MODULE Rows --------------------------------
(***************************************************************************)
(* Rows of the tables logs and spans.  A row of logs is [id, no, ts, rec]: *)
(* no is the order of saving into its table (no column of it), ts the      *)
(* record's time in milliseconds, rec the rest of ext.Record.  A row of    *)
(* spans is [id, no, ts, span].                                            *)
(***************************************************************************)
EXTENDS Integers, Sequences, FiniteSets

CONSTANTS
    NoMap,   \* a nil map
    Fold     \* Fold[w]: the word in lower case

(* ORDER BY id; rows of one id in the order of saving.                     *)
Before(r, s) == r.id < s.id \/ (r.id = s.id /\ r.no < s.no)

Rank(R, r) == Cardinality({s \in R : Before(s, r)})

Ascending(R) == [i \in 1..Cardinality(R) |-> CHOOSE r \in R : Rank(R, r) = i - 1]

(* The value of label k, "" when there is none.                            *)
Label(labels, k) ==
    IF labels = NoMap THEN "" ELSE IF k \in DOMAIN labels THEN labels[k] ELSE ""
=============================================================================
