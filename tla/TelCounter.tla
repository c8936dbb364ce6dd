----------------------------- MODULE TelCounter -----------------------------
(***************************************************************************)
(* telcap.Counter: how many lines or spans a key has had, in bounded       *)
(* memory.  Two generations of at most MaxTracked keys; when the current   *)
(* one is full it becomes the previous one and the oldest is forgotten.    *)
(***************************************************************************)
EXTENDS Integers, FiniteSets

CONSTANT MaxTracked     \* keys per generation of the counter

ASSUME CounterAssumption == MaxTracked \in Nat \ {0}

EmptyCounter == [cur |-> [k \in {} |-> 0], prev |-> [k \in {} |-> 0]]

Remembered(c, key) ==
    IF key \in DOMAIN c.cur THEN c.cur[key]
    ELSE IF key \in DOMAIN c.prev THEN c.prev[key] ELSE 0

(* Mutant: one line too many.                                              *)
AllowsOneMore(c, key, max) == max <= 0 \/ Remembered(c, key) <= max

Allows(c, key, max) == max <= 0 \/ Remembered(c, key) < max

(* The counter after a call of Allow.                                      *)
Count(c, key, max) ==
    IF max <= 0 \/ ~Allows(c, key, max) THEN c
    ELSE LET full == key \notin DOMAIN c.cur /\ Cardinality(DOMAIN c.cur) >= MaxTracked
             kept == IF full THEN {} ELSE DOMAIN c.cur
         IN  [prev |-> IF full THEN c.cur ELSE c.prev,
              cur |-> [k \in kept \cup {key} |->
                          IF k = key THEN Remembered(c, key) + 1 ELSE c.cur[k]]]
=============================================================================
