------------------------ MODULE AppLogPipeline_proofs -----------------------
(***************************************************************************)
(* The log pipeline for any scripts, sources, policies and bounds: what    *)
(* is stored is governed and capped per span, the SDK's own counters are   *)
(* honest, and every line that the agent has taken in is accounted for.    *)
(* Three invariants, each resting on the one before: IInv (types, the      *)
(* store and the counter), SinkInv (who holds a line given to the SDK),    *)
(* Ledger (where the lines inside the agent are).                          *)
(***************************************************************************)
EXTENDS AppLogPipeline, FiniteSetTheorems, SequenceTheorems, WellFoundedInduction, TLAPS
-----------------------------------------------------------------------------
(* Windows of a sequence                                                   *)

(* The members of s at the places i to j, and the places of k among them.  *)
Within(s, i, j) == {s[n] : n \in i..j}
Places(s, i, j, k) == {m \in i..j : s[m] = k}

(* Both are finite.                                                        *)
LEMMA WindowFinite ==
    ASSUME NEW s, NEW i \in Int, NEW j \in Int, NEW k
    PROVE  IsFiniteSet(Within(s, i, j)) /\ IsFiniteSet(Places(s, i, j, k))
<1>1. IsFiniteSet(i..j) BY FS_Interval
<1>2. IsFiniteSet(Places(s, i, j, k))
    <2>1. Places(s, i, j, k) \subseteq i..j BY DEF Places
    <2>2. QED BY <1>1, <2>1, FS_Subset
<1>3. IsFiniteSet(Within(s, i, j))
    <2>1. PICK f : f = [n \in i..j |-> s[n]] OBVIOUS
    <2>2. Within(s, i, j) = {f[n] : n \in i..j} BY <2>1 DEF Within
    <2>3. f \in Surjection(i..j, {f[n] : n \in i..j}) BY <2>1 DEF Surjection
    <2>4. QED BY <1>1, <2>2, <2>3, FS_Surjection
<1>4. QED BY <1>2, <1>3

(* Sequence t is s with x behind it.                                       *)
Longer(s, t, x) ==
    /\ Len(s) \in Nat /\ Len(t) = Len(s) + 1
    /\ t[Len(s) + 1] = x /\ \A m \in 1..Len(s) : t[m] = s[m]

(* Appending makes it so.                                                  *)
LEMMA LongerFacts ==
    ASSUME NEW S, NEW s \in Seq(S), NEW x \in S, NEW t, t = Append(s, x)
    PROVE  Longer(s, t, x)
BY DEF Longer

(* A window at the end of the longer sequence.                             *)
LEMMA WindowGrows ==
    ASSUME NEW s, NEW t, NEW x, Longer(s, t, x), NEW n, n = Len(s),
           NEW i \in 1..(n + 1)
    PROVE  /\ Within(t, i, n + 1) = Within(s, i, n) \cup {x}
           /\ Cardinality(Within(s, i, n)) <= Cardinality(Within(t, i, n + 1))
           /\ \A k : k # x => Places(t, i, n + 1, k) = Places(s, i, n, k)
           /\ Cardinality(Places(t, i, n + 1, x)) = Cardinality(Places(s, i, n, x)) + 1
<1>1. /\ n \in Nat /\ t[n + 1] = x /\ \A m \in 1..n : t[m] = s[m]
    BY DEF Longer
<1>2. i..(n + 1) = i..n \cup {n + 1} /\ n + 1 \notin i..n /\ i..n \subseteq 1..n BY <1>1
<1>3. Within(t, i, n + 1) = Within(s, i, n) \cup {x}
    <2>1. \A m \in i..n : t[m] = s[m] BY <1>1, <1>2
    <2>2. QED BY <1>1, <1>2, <2>1 DEF Within
<1>4. Cardinality(Within(s, i, n)) <= Cardinality(Within(t, i, n + 1))
    <2>0. i \in Int /\ n + 1 \in Int BY <1>1
    <2>1. IsFiniteSet(Within(t, i, n + 1)) BY <2>0, WindowFinite
    <2>2. QED BY <1>3, <2>1, FS_Subset
<1>5. \A k : k # x => Places(t, i, n + 1, k) = Places(s, i, n, k)
    BY <1>1, <1>2 DEF Places
<1>6. Places(t, i, n + 1, x) = Places(s, i, n, x) \cup {n + 1}
    BY <1>1, <1>2 DEF Places
<1>7. n + 1 \notin Places(s, i, n, x) BY <1>2 DEF Places
<1>8. IsFiniteSet(Places(s, i, n, x)) BY <1>1, WindowFinite
<1>9. Cardinality(Places(t, i, n + 1, x)) = Cardinality(Places(s, i, n, x)) + 1
    BY <1>6, <1>7, <1>8, FS_AddElement
<1>10. QED BY <1>3, <1>4, <1>5, <1>9
-----------------------------------------------------------------------------
(* The counter                                                             *)

(* No key of the two generations has had more than cap, if there is a cap. *)
CounterOK(c, cap) ==
    /\ IsFiniteSet(DOMAIN c.cur) /\ Cardinality(DOMAIN c.cur) <= MaxTracked
    /\ Cardinality(DOMAIN c.prev) <= MaxTracked
    /\ \A k \in DOMAIN c.cur : c.cur[k] \in Nat /\ (cap > 0 => c.cur[k] <= cap)
    /\ \A k \in DOMAIN c.prev : c.prev[k] \in Nat /\ (cap > 0 => c.prev[k] <= cap)

(* The counter knows the keys of s: the current generation has those from  *)
(* some place on, and of a window at the end with at most MaxTracked keys  *)
(* none is forgotten.                                                      *)
Knows(c, s) ==
    /\ \E b \in 1..(Len(s) + 1) : DOMAIN c.cur = Within(s, b, Len(s))
    /\ \A i \in 1..Len(s) : Cardinality(Within(s, i, Len(s))) <= MaxTracked =>
          \A k \in Within(s, i, Len(s)) :
              Cardinality(Places(s, i, Len(s), k)) <= Remembered(c, k)

(* No key has more than cap places in a window of at most MaxTracked keys. *)
Capped(s, cap) ==
    \A i, j \in 1..Len(s) :
        i <= j /\ Cardinality(Within(s, i, j)) <= MaxTracked =>
            \A k \in Within(s, i, j) : Cardinality(Places(s, i, j, k)) <= cap

(* What a call that counts leaves in the two generations.                  *)
LEMMA CountFacts ==
    ASSUME NEW c, NEW key, NEW max \in Nat \ {0}, Allows(c, key, max),
           NEW d, d = Count(c, key, max)
    PROVE  /\ d.cur[key] = Remembered(c, key) + 1
           /\ \/ /\ key \notin DOMAIN c.cur /\ Cardinality(DOMAIN c.cur) >= MaxTracked
                 /\ d.prev = c.cur /\ DOMAIN d.cur = {key}
              \/ /\ key \in DOMAIN c.cur \/ ~(Cardinality(DOMAIN c.cur) >= MaxTracked)
                 /\ d.prev = c.prev /\ DOMAIN d.cur = DOMAIN c.cur \cup {key}
                 /\ \A k \in DOMAIN c.cur \ {key} : d.cur[k] = c.cur[k]
<1>1. PICK full : full = (key \notin DOMAIN c.cur /\ Cardinality(DOMAIN c.cur) >= MaxTracked)
    OBVIOUS
<1>2. ~(max <= 0) OBVIOUS
<1>3. CASE full = TRUE
    <2>1. PICK f : f = [k \in {} \cup {key} |->
                           IF k = key THEN Remembered(c, key) + 1 ELSE c.cur[k]]
        OBVIOUS
    <2>2. d = [prev |-> c.cur, cur |-> f] BY <1>1, <1>2, <1>3, <2>1 DEF Count
    <2>3. DOMAIN f = {key} /\ f[key] = Remembered(c, key) + 1 BY <2>1
    <2>4. key \notin DOMAIN c.cur /\ Cardinality(DOMAIN c.cur) >= MaxTracked
        BY <1>1, <1>3, Zenon
    <2>5. d.prev = c.cur /\ d.cur = f BY <2>2
    <2>6. QED BY <2>3, <2>4, <2>5
<1>4. CASE full = FALSE
    <2>1. PICK f : f = [k \in DOMAIN c.cur \cup {key} |->
                           IF k = key THEN Remembered(c, key) + 1 ELSE c.cur[k]]
        OBVIOUS
    <2>2. d = [prev |-> c.prev, cur |-> f] BY <1>1, <1>2, <1>4, <2>1 DEF Count
    <2>3. /\ DOMAIN f = DOMAIN c.cur \cup {key} /\ f[key] = Remembered(c, key) + 1
          /\ \A k \in DOMAIN c.cur \ {key} : f[k] = c.cur[k]
        BY <2>1
    <2>4. key \in DOMAIN c.cur \/ ~(Cardinality(DOMAIN c.cur) >= MaxTracked)
        BY <1>1, <1>4, Zenon
    <2>5. d.prev = c.prev /\ d.cur = f BY <2>2
    <2>6. QED BY <2>3, <2>4, <2>5
<1>5. QED BY <1>1, <1>3, <1>4

(* A key that was remembered has a number of lines.                        *)
LEMMA RememberedNat ==
    ASSUME NEW c, NEW cap, CounterOK(c, cap), NEW k
    PROVE  Remembered(c, k) \in Nat
<1>1. CASE k \in DOMAIN c.cur BY <1>1 DEF CounterOK, Remembered
<1>2. CASE k \notin DOMAIN c.cur /\ k \in DOMAIN c.prev BY <1>2 DEF CounterOK, Remembered
<1>3. CASE k \notin DOMAIN c.cur /\ k \notin DOMAIN c.prev BY <1>3 DEF Remembered
<1>4. QED BY <1>1, <1>2, <1>3

(* A counted key has had no more than cap, and its own generation has room.*)
LEMMA CountOK ==
    ASSUME NEW c, NEW key, NEW cap \in Nat, NEW max \in Nat \ {0}, cap > 0 => max <= cap,
           CounterOK(c, cap), Allows(c, key, max), NEW d, d = Count(c, key, max)
    PROVE  CounterOK(d, cap) /\ Remembered(d, key) = Remembered(c, key) + 1
<1>1. /\ d.cur[key] = Remembered(c, key) + 1
      /\ \/ /\ d.prev = c.cur /\ DOMAIN d.cur = {key}
         \/ /\ key \in DOMAIN c.cur \/ ~(Cardinality(DOMAIN c.cur) >= MaxTracked)
            /\ d.prev = c.prev /\ DOMAIN d.cur = DOMAIN c.cur \cup {key}
            /\ \A k \in DOMAIN c.cur \ {key} : d.cur[k] = c.cur[k]
    BY CountFacts
<1>2. PICK r : r = Remembered(c, key) OBVIOUS
<1>3. r \in Nat BY <1>2, RememberedNat
<1>4. r < max BY <1>2 DEF Allows
<1>5. r + 1 \in Nat /\ (cap > 0 => r + 1 <= cap) BY <1>3, <1>4
<1>6. key \in DOMAIN d.cur /\ d.cur[key] = r + 1 BY <1>1, <1>2
<1>7. Remembered(d, key) = r + 1 BY <1>6 DEF Remembered
<1>8. MaxTracked \in Nat \ {0} BY CounterAssumption
<1>9. CASE d.prev = c.cur /\ DOMAIN d.cur = {key}
    <2>1. IsFiniteSet({key}) /\ Cardinality({key}) = 1 BY FS_Singleton
    <2>2. Cardinality(DOMAIN d.cur) <= MaxTracked BY <1>8, <1>9, <2>1
    <2>3. \A k \in DOMAIN d.cur : d.cur[k] \in Nat /\ (cap > 0 => d.cur[k] <= cap)
        BY <1>5, <1>6, <1>9
    <2>4. QED BY <1>2, <1>7, <1>9, <2>1, <2>2, <2>3 DEF CounterOK
<1>10. CASE /\ key \in DOMAIN c.cur \/ ~(Cardinality(DOMAIN c.cur) >= MaxTracked)
            /\ d.prev = c.prev /\ DOMAIN d.cur = DOMAIN c.cur \cup {key}
            /\ \A k \in DOMAIN c.cur \ {key} : d.cur[k] = c.cur[k]
    <2>1. IsFiniteSet(DOMAIN d.cur) /\ Cardinality(DOMAIN d.cur) <= MaxTracked
        <3>1. CASE key \in DOMAIN c.cur
            <4>1. DOMAIN d.cur = DOMAIN c.cur BY <1>10, <3>1
            <4>2. QED BY <4>1 DEF CounterOK
        <3>2. CASE key \notin DOMAIN c.cur
            <4>1. PICK K : K = DOMAIN c.cur OBVIOUS
            <4>2. IsFiniteSet(K) /\ ~(Cardinality(K) >= MaxTracked) /\ key \notin K
                BY <1>10, <3>2, <4>1 DEF CounterOK
            <4>3. IsFiniteSet(K \cup {key}) /\ Cardinality(K \cup {key}) = Cardinality(K) + 1
                BY <4>2, FS_AddElement
            <4>4. Cardinality(K) \in Nat BY <4>2, FS_CardinalityType
            <4>5. Cardinality(K \cup {key}) <= MaxTracked BY <1>8, <4>2, <4>3, <4>4
            <4>6. QED BY <1>10, <4>1, <4>3, <4>5
        <3>3. QED BY <3>1, <3>2
    <2>2. \A k \in DOMAIN d.cur : d.cur[k] \in Nat /\ (cap > 0 => d.cur[k] <= cap)
        BY <1>5, <1>6, <1>10 DEF CounterOK
    <2>3. /\ Cardinality(DOMAIN d.prev) <= MaxTracked
          /\ \A k \in DOMAIN d.prev : d.prev[k] \in Nat /\ (cap > 0 => d.prev[k] <= cap)
        BY <1>10 DEF CounterOK
    <2>4. QED BY <1>2, <1>7, <2>1, <2>2, <2>3 DEF CounterOK
<1>11. QED BY <1>1, <1>9, <1>10

(* The counter stays in step if it counts the new key and remembers what   *)
(* it did of the others, as far as a small window goes.                    *)
LEMMA KeepsKnows ==
    ASSUME NEW c, NEW d, NEW key, NEW s, NEW t, Longer(s, t, key), Knows(c, s),
           NEW n, n = Len(s), Remembered(c, key) \in Nat,
           Remembered(d, key) = Remembered(c, key) + 1,
           \E e \in 1..(n + 1 + 1) : DOMAIN d.cur = Within(t, e, n + 1),
           \A i \in 1..(n + 1) : Cardinality(Within(t, i, n + 1)) <= MaxTracked =>
               \A k \in Within(t, i, n + 1) \ {key} : Remembered(d, k) = Remembered(c, k)
    PROVE  Knows(d, t)
<1>1. n \in Nat /\ Len(t) = n + 1 BY DEF Longer
<1>2. ASSUME NEW i \in 1..(n + 1), Cardinality(Within(t, i, n + 1)) <= MaxTracked,
             NEW k \in Within(t, i, n + 1)
      PROVE  Cardinality(Places(t, i, n + 1, k)) <= Remembered(d, k)
    <2>1. i \in Int /\ n \in Int /\ n + 1 \in Int BY <1>1
    <2>2. /\ Within(t, i, n + 1) = Within(s, i, n) \cup {key}
          /\ Cardinality(Within(s, i, n)) <= Cardinality(Within(t, i, n + 1))
          /\ k # key => Places(t, i, n + 1, k) = Places(s, i, n, k)
          /\ Cardinality(Places(t, i, n + 1, key)) = Cardinality(Places(s, i, n, key)) + 1
        BY WindowGrows
    <2>3. IsFiniteSet(Within(s, i, n)) /\ IsFiniteSet(Within(t, i, n + 1))
        BY <2>1, WindowFinite
    <2>4. Cardinality(Within(s, i, n)) <= MaxTracked
        <3>1. /\ Cardinality(Within(s, i, n)) \in Nat
              /\ Cardinality(Within(t, i, n + 1)) \in Nat
            BY <2>3, FS_CardinalityType
        <3>2. QED BY <1>2, <2>2, <3>1, CounterAssumption
    <2>5. ASSUME NEW x \in Within(s, i, n)
          PROVE  Cardinality(Places(s, i, n, x)) <= Remembered(c, x)
        <3>1. i \in 1..n
            <4>1. PICK m \in i..n : s[m] = x BY <2>5 DEF Within
            <4>2. QED BY <1>1, <4>1
        <3>2. QED BY <2>4, <3>1 DEF Knows
    <2>6. CASE k # key
        <3>1. k \in Within(s, i, n) BY <1>2, <2>2, <2>6
        <3>2. Remembered(d, k) = Remembered(c, k) BY <1>2, <2>6
        <3>3. QED BY <2>2, <2>5, <2>6, <3>1, <3>2
    <2>7. CASE k = key
        <3>1. PICK p, r : p = Cardinality(Places(s, i, n, key)) /\ r = Remembered(c, key)
            OBVIOUS
        <3>2. p \in Nat /\ r \in Nat
            BY <2>1, <3>1, WindowFinite, FS_CardinalityType
        <3>3. p <= r
            <4>1. CASE key \in Within(s, i, n) BY <2>5, <3>1, <4>1
            <4>2. CASE key \notin Within(s, i, n)
                <5>1. Places(s, i, n, key) = {} BY <4>2 DEF Places, Within
                <5>2. p = 0 BY <3>1, <5>1, FS_EmptySet
                <5>3. QED BY <3>2, <5>2
            <4>3. QED BY <4>1, <4>2
        <3>4. p + 1 <= r + 1 BY <3>2, <3>3
        <3>5. QED BY <2>2, <2>7, <3>1, <3>4
    <2>8. QED BY <2>6, <2>7
<1>3. QED BY <1>1, <1>2 DEF Knows

(* Counting a key keeps the counter in step with the sequence of the keys  *)
(* it counted: a generation is only forgotten when MaxTracked other keys   *)
(* have been counted since.                                                *)
LEMMA CountKnows ==
    ASSUME NEW c, NEW key, NEW cap \in Nat, NEW max \in Nat \ {0}, cap > 0 => max <= cap,
           CounterOK(c, cap), Allows(c, key, max), NEW d, d = Count(c, key, max),
           NEW s, NEW t, Longer(s, t, key), Knows(c, s)
    PROVE  Knows(d, t)
<1>1. PICK n : n = Len(s) OBVIOUS
<1>2. n \in Nat /\ Len(t) = n + 1 BY <1>1 DEF Longer
<1>3. PICK b \in 1..(n + 1) : DOMAIN c.cur = Within(s, b, n) BY <1>1 DEF Knows
<1>4. PICK full : full = (key \notin DOMAIN c.cur /\ Cardinality(DOMAIN c.cur) >= MaxTracked)
    OBVIOUS
<1>7. Remembered(c, key) \in Nat /\ Remembered(d, key) = Remembered(c, key) + 1
    BY RememberedNat, CountOK
<1>5. CASE full = TRUE
    <2>0. /\ key \notin DOMAIN c.cur /\ Cardinality(DOMAIN c.cur) >= MaxTracked
          /\ d.prev = c.cur /\ DOMAIN d.cur = {key}
        <3>1. key \notin DOMAIN c.cur /\ Cardinality(DOMAIN c.cur) >= MaxTracked
            BY <1>4, <1>5, Zenon
        <3>2. QED BY <3>1, CountFacts
    <2>1. n + 1 \in 1..(n + 1 + 1) /\ n + 1 \in 1..(n + 1) BY <1>2
    <2>2. Within(t, n + 1, n + 1) = {key}
        <3>1. (n + 1)..(n + 1) = {n + 1} BY <1>2
        <3>2. t[n + 1] = key BY <1>1 DEF Longer
        <3>3. QED BY <3>1, <3>2 DEF Within
    <2>3. \E e \in 1..(n + 1 + 1) : DOMAIN d.cur = Within(t, e, n + 1) BY <2>0, <2>1, <2>2
    <2>4. ASSUME NEW i \in 1..(n + 1), Cardinality(Within(t, i, n + 1)) <= MaxTracked,
                 NEW k \in Within(t, i, n + 1), k # key
          PROVE  k \in DOMAIN c.cur
        <3>1. SUFFICES ASSUME k \notin DOMAIN c.cur PROVE FALSE OBVIOUS
        <3>2. Within(t, i, n + 1) = Within(s, i, n) \cup {key} BY <1>1, WindowGrows
        <3>3. k \in Within(s, i, n) BY <2>4, <3>2
        <3>4. PICK m \in i..n : s[m] = k BY <3>3 DEF Within
        <3>5. m < b
            <4>1. m \notin b..n BY <1>3, <3>1, <3>4 DEF Within
            <4>2. QED BY <1>2, <4>1
        <3>6. \A j \in b..n : j \in i..n BY <1>2, <3>5
        <3>7. DOMAIN c.cur \subseteq Within(s, i, n) BY <1>3, <3>6 DEF Within
        <3>8. PICK K, W : K = DOMAIN c.cur /\ W = Within(t, i, n + 1) OBVIOUS
        <3>9. IsFiniteSet(K) /\ IsFiniteSet(W)
            <4>1. i \in Int /\ n + 1 \in Int BY <1>2
            <4>2. QED BY <3>8, <4>1, WindowFinite DEF CounterOK
        <3>10. /\ K \cup {k} \subseteq W /\ k \notin K
            BY <2>4, <3>1, <3>2, <3>7, <3>8
        <3>11. Cardinality(K \cup {k}) = Cardinality(K) + 1 /\ IsFiniteSet(K \cup {k})
            BY <3>9, <3>10, FS_AddElement
        <3>12. Cardinality(K \cup {k}) <= Cardinality(W) BY <3>9, <3>10, FS_Subset
        <3>13. Cardinality(K) \in Nat /\ Cardinality(W) \in Nat
            BY <3>9, FS_CardinalityType
        <3>14. Cardinality(K) >= MaxTracked /\ Cardinality(W) <= MaxTracked
            BY <2>0, <2>4, <3>8
        <3>15. QED BY <3>11, <3>12, <3>13, <3>14, CounterAssumption
    <2>5. \A k \in DOMAIN c.cur : k # key /\ Remembered(d, k) = Remembered(c, k)
        BY <2>0 DEF Remembered
    <2>6. ASSUME NEW i \in 1..(n + 1), Cardinality(Within(t, i, n + 1)) <= MaxTracked,
                 NEW k \in Within(t, i, n + 1), k # key
          PROVE  Remembered(d, k) = Remembered(c, k)
        BY <2>4, <2>5, <2>6
    <2>7. \A i \in 1..(n + 1) : Cardinality(Within(t, i, n + 1)) <= MaxTracked =>
              \A k \in Within(t, i, n + 1) \ {key} : Remembered(d, k) = Remembered(c, k)
        BY <2>6
    <2>8. /\ Longer(s, t, key) /\ Knows(c, s) /\ n = Len(s) /\ Remembered(c, key) \in Nat
          /\ Remembered(d, key) = Remembered(c, key) + 1
        BY <1>1, <1>7
    <2>9. QED BY <2>3, <2>7, <2>8, KeepsKnows
<1>6. CASE full = FALSE
    <2>1. /\ d.prev = c.prev /\ DOMAIN d.cur = DOMAIN c.cur \cup {key}
          /\ \A k \in DOMAIN c.cur \ {key} : d.cur[k] = c.cur[k]
        <3>1. ~(key \notin DOMAIN c.cur /\ Cardinality(DOMAIN c.cur) >= MaxTracked)
            BY <1>4, <1>6, Zenon
        <3>2. QED BY <3>1, CountFacts
    <2>2. Within(t, b, n + 1) = Within(s, b, n) \cup {key} BY <1>1, WindowGrows
    <2>3. b \in 1..(n + 1 + 1) BY <1>2
    <2>4. \E e \in 1..(n + 1 + 1) : DOMAIN d.cur = Within(t, e, n + 1)
        BY <1>3, <2>1, <2>2, <2>3
    <2>5. ASSUME NEW k, k # key PROVE Remembered(d, k) = Remembered(c, k)
        BY <2>1, <2>5 DEF Remembered
    <2>6. QED BY <1>1, <1>7, <2>4, <2>5, KeepsKnows
<1>8. QED BY <1>4, <1>5, <1>6

(* So no window ever has more of a key than the cap.                       *)
LEMMA CountCapped ==
    ASSUME NEW d, NEW key, NEW cap \in Nat \ {0}, CounterOK(d, cap),
           NEW s, NEW t, Longer(s, t, key), Knows(d, t), Capped(s, cap)
    PROVE  Capped(t, cap)
<1>1. PICK n : n = Len(s) OBVIOUS
<1>2. n \in Nat /\ Len(t) = n + 1 /\ \A m \in 1..n : t[m] = s[m] BY <1>1 DEF Longer
<1>3. \A k : Remembered(d, k) <= cap
    <2>1. SUFFICES ASSUME NEW k PROVE Remembered(d, k) <= cap OBVIOUS
    <2>2. CASE k \in DOMAIN d.cur BY <2>2 DEF CounterOK, Remembered
    <2>3. CASE k \notin DOMAIN d.cur /\ k \in DOMAIN d.prev
        BY <2>3 DEF CounterOK, Remembered
    <2>4. CASE k \notin DOMAIN d.cur /\ k \notin DOMAIN d.prev BY <2>4 DEF Remembered
    <2>5. QED BY <2>2, <2>3, <2>4
<1>4. ASSUME NEW i \in 1..(n + 1), NEW j \in 1..(n + 1), i <= j,
             Cardinality(Within(t, i, j)) <= MaxTracked, NEW k \in Within(t, i, j)
      PROVE  Cardinality(Places(t, i, j, k)) <= cap
    <2>1. CASE j = n + 1
        <3>1. Cardinality(Places(t, i, j, k)) <= Remembered(d, k)
            BY <1>2, <1>4, <2>1 DEF Knows
        <3>2. Cardinality(Places(t, i, j, k)) \in Nat
            BY <1>2, WindowFinite, FS_CardinalityType
        <3>3. Remembered(d, k) \in Nat /\ Remembered(d, k) <= cap BY <1>3, RememberedNat
        <3>4. QED BY <3>1, <3>2, <3>3
    <2>2. CASE j # n + 1
        <3>1. i \in 1..n /\ j \in 1..n BY <1>2, <1>4, <2>2
        <3>2. \A m \in i..j : t[m] = s[m] BY <1>2, <3>1
        <3>3. Within(t, i, j) = Within(s, i, j) /\ Places(t, i, j, k) = Places(s, i, j, k)
            BY <3>2 DEF Within, Places
        <3>4. QED BY <1>1, <1>4, <3>1, <3>3 DEF Capped
    <2>3. QED BY <2>1, <2>2
<1>5. QED BY <1>2, <1>4 DEF Capped
-----------------------------------------------------------------------------
(* The policy of a route                                                   *)

(* A rule can only lower the cap that is set for all routes.               *)
LEMMA ResolvedCap ==
    ASSUME NEW route
    PROVE  /\ Resolve(route).maxLines \in Nat
           /\ Global.maxLines > 0 =>
                  Resolve(route).maxLines > 0 /\ Resolve(route).maxLines <= Global.maxLines
<1>1. PICK caps : caps = {n \in {Global.maxLines} \cup
                                 {r.maxLines : r \in {r \in Rules :
                                                  route # None /\ route \in r.routes}} : n > 0}
    OBVIOUS
<1>2. Resolve(route).maxLines = IF caps = {} THEN 0 ELSE Min(caps) BY <1>1 DEF Resolve
<1>3. caps \subseteq Nat /\ \A n \in caps : n > 0 BY <1>1, GovernorAssumption
<1>4. caps # {} => Min(caps) \in caps /\ \A n \in caps : Min(caps) <= n
    <2>1. SUFFICES ASSUME caps # {} PROVE \E m \in caps : \A n \in caps : m <= n
        BY DEF Min
    <2>2. PICK R : R = {w \in Nat \X Nat : w[1] < w[2]} OBVIOUS
    <2>3. IsWellFoundedOn(R, Nat) BY <2>2, NatLessThanWellFounded DEF OpToRel
    <2>4. PICK m \in caps : \A n \in caps : ~(<<n, m>> \in R) BY <1>3, <2>1, <2>3, WFMin
    <2>5. ASSUME NEW n \in caps PROVE m <= n
        <3>1. m \in Nat /\ n \in Nat /\ ~(<<n, m>> \in R) BY <1>3, <2>4
        <3>2. ~(n < m) BY <2>2, <3>1
        <3>3. QED BY <3>1, <3>2
    <2>6. QED BY <2>5
<1>5. Global.maxLines > 0 => Global.maxLines \in caps BY <1>1
<1>6. CASE caps = {} BY <1>2, <1>5, <1>6
<1>7. CASE caps # {} BY <1>2, <1>3, <1>4, <1>5, <1>7
<1>8. QED BY <1>6, <1>7
-----------------------------------------------------------------------------
(* Lines                                                                   *)

Lines == UNION {Range(script) : script \in Scripts}
Scrubbed == {Scrub(l) : l \in Lines}

(* Nothing that the policy of its route covers is left in a line.          *)
Clean(l) == \A k \in l.leaks : ~Covered(k, Resolve(l.route))

(* What scrub takes out is gone, and the rest of the line is untouched.    *)
LEMMA ScrubFacts ==
    ASSUME NEW l \in Lines
    PROVE  Clean(Scrub(l)) /\ Scrub(l).id = l.id
<1>1. l = [f \in LineFields |-> l[f]] BY PipelineAssumption DEF Lines
<1>2. PICK e, rest : e = Resolve(l.route) /\ rest = {k \in l.leaks : ~Covered(k, e)} OBVIOUS
<1>3. Scrub(l) = [l EXCEPT !.leaks = rest] BY <1>2 DEF Scrub
<1>4. DOMAIN l = LineFields BY <1>1
<1>5. {"id", "route", "leaks"} \subseteq DOMAIN l BY <1>4 DEF LineFields
<1>6. /\ Scrub(l).leaks = rest /\ Scrub(l).route = l.route /\ Scrub(l).id = l.id
    BY <1>3, <1>5
<1>7. \A k \in Scrub(l).leaks : ~Covered(k, Resolve(Scrub(l).route)) BY <1>2, <1>6
<1>8. QED BY <1>6, <1>7 DEF Clean

(* The members of a sequence.                                              *)
LEMMA RangeFacts ==
    ASSUME NEW S, NEW s \in Seq(S)
    PROVE  /\ Range(s) \subseteq S
           /\ \A t \in Seq(S) : Range(s \o t) = Range(s) \cup Range(t)
           /\ s # <<>> => Head(s) \in S /\ Tail(s) \in Seq(S)
<1>1. Range(s) \subseteq S BY DEF Range
<1>2. ASSUME NEW t \in Seq(S) PROVE Range(s \o t) = Range(s) \cup Range(t)
    <2>1. /\ s \o t \in Seq(S) /\ DOMAIN (s \o t) = 1..(Len(s) + Len(t))
          /\ DOMAIN s = 1..Len(s) /\ DOMAIN t = 1..Len(t) /\ Len(s) \in Nat /\ Len(t) \in Nat
        OBVIOUS
    <2>2. \A i \in 1..Len(s) : (s \o t)[i] = s[i] /\ i \in 1..(Len(s) + Len(t)) BY <2>1
    <2>3. \A i \in 1..Len(t) :
              (s \o t)[Len(s) + i] = t[i] /\ Len(s) + i \in 1..(Len(s) + Len(t))
        BY <2>1
    <2>4. \A i \in 1..(Len(s) + Len(t)) :
              i \in 1..Len(s) \/ \E j \in 1..Len(t) : i = Len(s) + j
        <3>1. SUFFICES ASSUME NEW i \in 1..(Len(s) + Len(t)), i \notin 1..Len(s)
                       PROVE  \E j \in 1..Len(t) : i = Len(s) + j
            OBVIOUS
        <3>2. i - Len(s) \in 1..Len(t) /\ i = Len(s) + (i - Len(s)) BY <2>1, <3>1
        <3>3. QED BY <3>2
    <2>5. Range(s) \cup Range(t) \subseteq Range(s \o t) BY <2>1, <2>2, <2>3 DEF Range
    <2>6. Range(s \o t) \subseteq Range(s) \cup Range(t)
        <3>1. SUFFICES ASSUME NEW i \in 1..(Len(s) + Len(t))
                       PROVE  (s \o t)[i] \in Range(s) \cup Range(t)
            BY <2>1 DEF Range
        <3>2. CASE i \in 1..Len(s) BY <2>1, <2>2, <3>2 DEF Range
        <3>3. CASE \E j \in 1..Len(t) : i = Len(s) + j
            <4>1. PICK j \in 1..Len(t) : i = Len(s) + j BY <3>3
            <4>2. (s \o t)[i] = t[j] BY <2>3, <4>1
            <4>3. QED BY <2>1, <4>2 DEF Range
        <3>4. QED BY <2>4, <3>2, <3>3
    <2>7. QED BY <2>5, <2>6
<1>3. s # <<>> => Head(s) \in S /\ Tail(s) \in Seq(S) OBVIOUS
<1>4. QED BY <1>1, <1>2, <1>3

(* A script is a sequence of lines.                                        *)
LEMMA ScriptLines ==
    ASSUME NEW script \in Scripts
    PROVE  script \in Seq(Lines)
<1>1. script \in Seq(Range(script)) BY PipelineAssumption
<1>2. Range(script) \subseteq Lines BY DEF Lines
<1>3. PICK R : R = Range(script) OBVIOUS
<1>4. PICK n \in Nat : script \in [1..n -> R] BY <1>1, <1>3, SeqDef
<1>5. script \in [1..n -> Lines] BY <1>2, <1>3, <1>4
<1>6. QED BY <1>5, SeqDef
-----------------------------------------------------------------------------
(* The states of the pipeline                                              *)

LineIds == {l.id : l \in Lines}
Post == [at : {"admit", "count", "accepted", "refused", "broken"}, ids : SUBSET LineIds,
         todo : Seq(Lines), keep : Seq(Scrubbed), drop : SUBSET LineIds]

Sink == [queue : Seq(Lines), closed : BOOLEAN, run : {"select", "post", "wait", "exited"},
         batch : Seq(Lines), last : BOOLEAN, sent : Nat, failed : Nat, dropped : Nat,
         silent : Nat]
Coll == [queue : Seq(Scrubbed), run : {"select", "save", "keep", "exited"},
         batch : Seq(Scrubbed), last : BOOLEAN, cancelled : BOOLEAN, due : SUBSET LineIds]

Types ==
    /\ app \in [todo : Seq(Lines), written : SUBSET Lines]
    /\ sdk \in Sink
    /\ posts \in Seq(Post)
    /\ source \in [Sources -> Seq(Lines)]
    /\ DOMAIN reader = Sources
    /\ \A s \in Sources : reader[s].at = "queue" => reader[s].line \in Scrubbed
    /\ child \in [at : {"none", "running", "exited"}, unread : Seq(Lines)]
    /\ child.at = "running" => "child" \in Sources
    /\ col \in Coll
    /\ spent \in Seq({l.span : l \in Lines})
    /\ store \in Seq(Scrubbed)

(* What is past its save is in the store, and only that is fanned out.     *)
Exports ==
    /\ exported \subseteq Range(store)
    /\ \A p \in DOMAIN posts : posts[p].at \in {"count", "accepted", "broken"} =>
                                  Range(posts[p].keep) \subseteq Range(store)
    /\ col.run = "keep" => Range(col.batch) \subseteq Range(store)

(* The counter is in step with the spans it allowed.                       *)
Counting ==
    /\ CounterOK(counter, Global.maxLines)
    /\ Knows(counter, spent)
    /\ Global.maxLines > 0 => Capped(spent, Global.maxLines)

IInv == Types /\ Exports /\ Counting
-----------------------------------------------------------------------------
(* The first state                                                         *)

(* The invariant holds of it.                                              *)
LEMMA InitInv ==
    Init => IInv
<1>1. SUFFICES ASSUME Init PROVE IInv OBVIOUS
<1>2. Types
    <2>1. PICK script \in Scripts : app = [todo |-> script, written |-> {}] BY <1>1 DEF Init
    <2>2. script \in Seq(Lines) BY ScriptLines
    <2>3. app \in [todo : Seq(Lines), written : SUBSET Lines] BY <2>1, <2>2
    <2>4. sdk \in Sink
        BY <1>1 DEF Init, Sink
    <2>5. /\ posts \in Seq(Post) /\ store \in Seq(Scrubbed) /\ spent \in Seq({l.span : l \in Lines})
          /\ source \in [Sources -> Seq(Lines)]
        BY <1>1 DEF Init
    <2>6. /\ DOMAIN reader = Sources
          /\ \A s \in Sources : reader[s].at = "queue" => reader[s].line \in Scrubbed
        BY <1>1 DEF Init
    <2>7. /\ child \in [at : {"none", "running", "exited"}, unread : Seq(Lines)]
          /\ child.at = "running" => "child" \in Sources
        BY <1>1 DEF Init
    <2>8. col \in Coll
        BY <1>1 DEF Init, Coll
    <2>9. QED BY <2>3, <2>4, <2>5, <2>6, <2>7, <2>8 DEF Types
<1>3. Exports
    <2>1. exported = {} /\ DOMAIN posts = {} /\ col.run = "select" BY <1>1 DEF Init
    <2>2. QED BY <2>1 DEF Exports
<1>4. Counting
    <2>1. counter = EmptyCounter /\ spent = <<>> BY <1>1 DEF Init
    <2>2. /\ DOMAIN counter.cur = {} /\ DOMAIN counter.prev = {} BY <2>1 DEF EmptyCounter
    <2>3. CounterOK(counter, Global.maxLines)
        BY <2>2, FS_EmptySet, CounterAssumption DEF CounterOK
    <2>4. Len(spent) = 0 /\ 1..0 = {} BY <2>1
    <2>5. Within(spent, 1, 0) = {} BY <2>4 DEF Within
    <2>6. Knows(counter, spent) BY <2>2, <2>4, <2>5 DEF Knows
    <2>7. Capped(spent, Global.maxLines) BY <2>4 DEF Capped
    <2>8. QED BY <2>3, <2>6, <2>7 DEF Counting
<1>5. QED BY <1>2, <1>3, <1>4 DEF IInv
-----------------------------------------------------------------------------
(* Types                                                                   *)

(* The sink and the application.                                           *)
LEMMA SinkTypes ==
    ASSUME Types,
           \/ app.todo # <<>> /\ Handle(Head(app.todo))
           \/ CloseSink
           \/ \E stop \in BOOLEAN : SinkWakes(stop)
           \/ AnswerArrives \/ AnswerLost
    PROVE  Types'
<1>0. /\ app.todo \in Seq(Lines) /\ sdk \in Sink
      /\ sdk.queue \in Seq(Lines) /\ sdk.batch \in Seq(Lines) /\ <<>> \in Seq(Lines)
      /\ Len(sdk.batch) \in Nat
    <2>1. app.todo \in Seq(Lines) /\ sdk \in Sink BY DEF Types
    <2>2. sdk.queue \in Seq(Lines) /\ sdk.batch \in Seq(Lines) BY <2>1 DEF Sink
    <2>3. QED BY <2>1, <2>2
<1>1. UNCHANGED agentVars
    BY DEF Handle, CloseSink, SinkWakes, AnswerArrives, AnswerLost
<1>2. app' \in [todo : Seq(Lines), written : SUBSET Lines]
    <2>1. CASE app.todo # <<>> /\ Handle(Head(app.todo))
        <3>1. Head(app.todo) \in Lines /\ Tail(app.todo) \in Seq(Lines)
            BY <1>0, <2>1, RangeFacts
        <3>2. QED BY <2>1, <3>1 DEF Types, Handle, Logged
    <2>2. CASE UNCHANGED app BY <2>2 DEF Types
    <2>3. QED BY <2>1, <2>2 DEF CloseSink, SinkWakes, AnswerArrives, AnswerLost
<1>3. sdk' \in Sink
    <2>1. CASE app.todo # <<>> /\ Handle(Head(app.todo))
        <3>1. PICK l : l = Head(app.todo) OBVIOUS
        <3>2. Append(sdk.queue, l) \in Seq(Lines) BY <1>0, <2>1, <3>1, RangeFacts
        <3>3. \/ sdk' = [sdk EXCEPT !.silent = sdk.silent + 1]
              \/ sdk' = [sdk EXCEPT !.dropped = sdk.dropped + 1]
              \/ sdk' = [sdk EXCEPT !.queue = Append(sdk.queue, l)]
            BY <1>0, <2>1, <3>1 DEF Handle, Sink
        <3>4. PICK n, m, q : n = sdk.silent + 1 /\ m = sdk.dropped + 1
                             /\ q = Append(sdk.queue, l)
            OBVIOUS
        <3>9. n \in Nat /\ m \in Nat /\ q \in Seq(Lines) BY <1>0, <3>2, <3>4 DEF Sink
        <3>5. CASE sdk' = [sdk EXCEPT !.silent = n] BY <1>0, <3>5, <3>9 DEF Sink
        <3>6. CASE sdk' = [sdk EXCEPT !.dropped = m] BY <1>0, <3>6, <3>9 DEF Sink
        <3>7. CASE sdk' = [sdk EXCEPT !.queue = q] BY <1>0, <3>7, <3>9 DEF Sink
        <3>8. QED BY <3>3, <3>4, <3>5, <3>6, <3>7
    <2>2. CASE CloseSink BY <1>0, <2>2 DEF Sink, CloseSink
    <2>3. ASSUME NEW stop \in BOOLEAN, SinkWakes(stop) PROVE sdk' \in Sink
        <3>1. PICK run \in {"post", "exited"} :
                  sdk' = [sdk EXCEPT !.queue = <<>>, !.batch = sdk.queue, !.last = stop,
                                     !.run = run]
            BY <2>3 DEF SinkWakes
        <3>2. QED BY <1>0, <3>1 DEF Sink
    <2>4. ASSUME NEW field \in {"sent", "failed"}, Settle(field) PROVE sdk' \in Sink
        <3>1. PICK run \in {"exited", "select"} :
                  sdk' = [sdk EXCEPT ![field] = sdk[field] + Len(sdk.batch), !.batch = <<>>,
                                     !.run = run]
            BY <2>4 DEF Settle
        <3>2. sdk[field] + Len(sdk.batch) \in Nat BY <1>0 DEF Sink
        <3>3. PICK n \in Nat : n = sdk[field] + Len(sdk.batch) BY <3>2
        <3>4. CASE field = "sent" BY <1>0, <3>1, <3>3, <3>4 DEF Sink
        <3>5. CASE field = "failed" BY <1>0, <3>1, <3>3, <3>5 DEF Sink
        <3>6. QED BY <3>4, <3>5
    <2>6. QED BY <2>1, <2>2, <2>3, <2>4 DEF AnswerArrives, AnswerLost
<1>4. QED BY <1>1, <1>2, <1>3 DEF Types, agentVars

(* The posts.                                                              *)
LEMMA PostTypes ==
    ASSUME Types,
           \/ PostArrives
           \/ \E p \in DOMAIN posts : AdmitLine(p) \/ SavePost(p) \/ SavePostFails(p)
                                      \/ AcceptPost(p) \/ FanOutPanics(p)
    PROVE  Types'
<1>1. /\ UNCHANGED <<app, source, reader, child, col>>
    BY DEF PostArrives, AdmitLine, SavePost, SavePostFails, AcceptPost, FanOutPanics, PostVars
<1>2. sdk' \in Sink
    <2>1. CASE PostArrives
        <3>1. sdk \in Sink /\ sdk' = [sdk EXCEPT !.run = "wait"] BY <2>1 DEF Types, PostArrives
        <3>2. QED BY <3>1 DEF Sink
    <2>2. CASE UNCHANGED sdk BY <2>2 DEF Types
    <2>3. QED BY <2>1, <2>2
        DEF AdmitLine, SavePost, SavePostFails, AcceptPost, FanOutPanics, PostVars
<1>3. posts' \in Seq(Post)
    <2>0. posts \in Seq(Post) /\ \A p \in DOMAIN posts : posts[p] \in Post BY DEF Types
    <2>1. CASE PostArrives
        <3>1. sdk.batch \in Seq(Lines) BY DEF Types, Sink
        <3>2. Ids(sdk.batch) \subseteq LineIds
            <4>1. Range(sdk.batch) \subseteq Lines BY <3>1, RangeFacts
            <4>2. QED BY <4>1 DEF Ids, LineIds
        <3>3. NewPost("refused", <<>>) \in Post /\ NewPost("admit", sdk.batch) \in Post
            BY <3>1, <3>2 DEF NewPost, Post
        <3>4. QED BY <2>0, <2>1, <3>3 DEF PostArrives
    <2>2. ASSUME NEW p \in DOMAIN posts, AdmitLine(p) PROVE posts' \in Seq(Post)
        <3>1. PICK l : l = Head(posts[p].todo) OBVIOUS
        <3>2. posts[p].todo # <<>> /\ posts[p].todo \in Seq(Lines)
            BY <2>0, <2>2 DEF AdmitLine, Post
        <3>3. l \in Lines /\ Tail(posts[p].todo) \in Seq(Lines) BY <3>1, <3>2, RangeFacts
        <3>4. l.id \in LineIds /\ Scrub(l) \in Scrubbed BY <3>3 DEF LineIds, Scrubbed
        <3>5. PICK keep : keep = IF Admit(l, counter) = Kept THEN Append(posts[p].keep, Scrub(l))
                                 ELSE posts[p].keep
            OBVIOUS
        <3>6. PICK drop : drop = IF Admit(l, counter) = Kept THEN posts[p].drop
                                 ELSE posts[p].drop \cup {l.id}
            OBVIOUS
        <3>7. keep \in Seq(Scrubbed) /\ drop \in SUBSET LineIds
            BY <2>0, <3>4, <3>5, <3>6 DEF Post
        <3>8. posts' = [posts EXCEPT ![p] = [posts[p] EXCEPT !.todo = Tail(posts[p].todo),
                                                             !.keep = keep, !.drop = drop]]
            BY <2>0, <2>2, <3>1, <3>5, <3>6 DEF AdmitLine, Post
        <3>9. [posts[p] EXCEPT !.todo = Tail(posts[p].todo), !.keep = keep, !.drop = drop] \in Post
            BY <2>0, <3>3, <3>7 DEF Post
        <3>10. QED BY <2>0, <3>8, <3>9
    <2>3. ASSUME NEW p \in DOMAIN posts,
                 SavePost(p) \/ SavePostFails(p) \/ AcceptPost(p) \/ FanOutPanics(p)
          PROVE  posts' \in Seq(Post)
        <3>1. \E at \in {"count", "accepted", "broken"} : posts' = [posts EXCEPT ![p].at = at]
              \/ posts' = [posts EXCEPT ![p].at = "refused", ![p].keep = <<>>]
            BY <2>3 DEF SavePost, SavePostFails, AcceptPost, FanOutPanics
        <3>2. \A at \in {"count", "accepted", "broken"} : [posts[p] EXCEPT !.at = at] \in Post
            BY <2>0 DEF Post
        <3>3. [posts[p] EXCEPT !.at = "refused", !.keep = <<>>] \in Post
            <4>1. posts[p] \in Post /\ <<>> \in Seq(Scrubbed) BY <2>0
            <4>2. QED BY <4>1 DEF Post
        <3>4. QED BY <2>0, <3>1, <3>2, <3>3
    <2>4. QED BY <2>1, <2>2, <2>3
<1>4. store' \in Seq(Scrubbed)
    <2>1. ASSUME NEW p \in DOMAIN posts, SavePost(p) PROVE store' \in Seq(Scrubbed)
        <3>1. posts[p] \in Post /\ store \in Seq(Scrubbed) BY DEF Types
        <3>2. posts[p].keep \in Seq(Scrubbed) BY <3>1 DEF Post
        <3>3. store' = store \o posts[p].keep BY <2>1 DEF SavePost
        <3>4. QED BY <3>1, <3>2, <3>3
    <2>2. CASE UNCHANGED store BY <2>2 DEF Types
    <2>3. QED BY <2>1, <2>2
        DEF PostArrives, AdmitLine, SavePostFails, AcceptPost, FanOutPanics
<1>5. spent' \in Seq({l.span : l \in Lines})
    <2>1. ASSUME NEW p \in DOMAIN posts, AdmitLine(p)
          PROVE  spent' \in Seq({l.span : l \in Lines})
        <3>1. PICK l : l = Head(posts[p].todo) OBVIOUS
        <3>2. posts[p] \in Post /\ spent \in Seq({m.span : m \in Lines}) BY DEF Types
        <3>3. posts[p].todo # <<>> /\ posts[p].todo \in Seq(Lines)
            BY <2>1, <3>2 DEF AdmitLine, Post
        <3>4. l \in Lines BY <3>1, <3>3, RangeFacts
        <3>5. spent' = spent \/ spent' = Append(spent, l.span) BY <2>1, <3>1 DEF AdmitLine
        <3>6. l.span \in {m.span : m \in Lines} BY <3>4
        <3>7. QED BY <3>2, <3>5, <3>6
    <2>2. CASE UNCHANGED spent BY <2>2 DEF Types
    <2>3. QED BY <2>1, <2>2
        DEF PostArrives, SavePost, SavePostFails, AcceptPost, FanOutPanics
<1>6. QED BY <1>1, <1>2, <1>3, <1>4, <1>5 DEF Types
(* The sources, the collector and the end of the agent.                    *)
LEMMA CollectorTypes ==
    ASSUME Types,
           \/ app.todo # <<>> /\ Write(Head(app.todo))
           \/ ChildExits
           \/ \E s \in Sources : Submit(s) \/ QueueLine(s)
           \/ \E stop \in BOOLEAN : FlusherWakes(stop)
           \/ SaveBatch \/ KeepBatch \/ SaveBatchFails
           \/ StopAgent \/ AdminDown \/ CollectorClosed \/ Stopped
    PROVE  Types'
<1>0. /\ app \in [todo : Seq(Lines), written : SUBSET Lines]
      /\ col \in Coll /\ source \in [Sources -> Seq(Lines)] /\ <<>> \in Seq(Scrubbed)
      /\ store \in Seq(Scrubbed) /\ spent \in Seq({m.span : m \in Lines})
    BY DEF Types
<1>1. UNCHANGED <<sdk, posts>>
    BY DEF Write, ChildExits, Submit, QueueLine, FlusherWakes, SaveBatch, KeepBatch,
           SaveBatchFails, StopAgent, AdminDown, CollectorClosed, Stopped, ColVars, AgentVars
<1>2. /\ app' \in [todo : Seq(Lines), written : SUBSET Lines]
      /\ source' \in [Sources -> Seq(Lines)]
      /\ child' \in [at : {"none", "running", "exited"}, unread : Seq(Lines)]
      /\ child'.at = "running" => "child" \in Sources
    <2>1. CASE app.todo # <<>> /\ Write(Head(app.todo))
        <3>1. PICK l : l = Head(app.todo) OBVIOUS
        <3>2. l \in Lines /\ Tail(app.todo) \in Seq(Lines) BY <1>0, <2>1, <3>1, RangeFacts
        <3>3. /\ app' = [todo |-> Tail(app.todo), written |-> app.written \cup {l}]
              /\ l.way \in Sources /\ UNCHANGED child
              /\ source' = [source EXCEPT ![l.way] = Append(source[l.way], l)]
            BY <1>0, <2>1, <3>1 DEF Write, Logged
        <3>4. app' \in [todo : Seq(Lines), written : SUBSET Lines] BY <1>0, <3>2, <3>3
        <3>5. source' \in [Sources -> Seq(Lines)] BY <1>0, <3>2, <3>3
        <3>6. QED BY <3>3, <3>4, <3>5 DEF Types
    <2>2. CASE ChildExits
        <3>1. PICK q : q = source["child"] OBVIOUS
        <3>2. PICK n \in 0..Len(q) :
                  /\ source' = [source EXCEPT !["child"] = SubSeq(q, 1, n)]
                  /\ child' = [at |-> "exited", unread |-> SubSeq(q, n + 1, Len(q))]
            BY <1>0, <2>2, <3>1 DEF ChildExits
        <3>3. "child" \in Sources BY <2>2 DEF ChildExits, Types
        <3>4. q \in Seq(Lines) BY <1>0, <3>1, <3>3
        <3>5. SubSeq(q, 1, n) \in Seq(Lines) /\ SubSeq(q, n + 1, Len(q)) \in Seq(Lines)
            BY <3>2, <3>4
        <3>6. source' \in [Sources -> Seq(Lines)] BY <1>0, <3>2, <3>5
        <3>7. child' \in [at : {"none", "running", "exited"}, unread : Seq(Lines)]
              /\ child'.at # "running"
            BY <3>2, <3>5
        <3>8. UNCHANGED app BY <2>2 DEF ChildExits
        <3>9. QED BY <1>0, <3>6, <3>7, <3>8
    <2>3. ASSUME NEW s \in Sources, Submit(s)
          PROVE  source' \in [Sources -> Seq(Lines)] /\ UNCHANGED <<app, child>>
        <3>1. source[s] # <<>> /\ source' = [source EXCEPT ![s] = Tail(source[s])]
            BY <1>0, <2>3 DEF Submit
        <3>2. Tail(source[s]) \in Seq(Lines) BY <1>0, <3>1, RangeFacts
        <3>3. QED BY <1>0, <2>3, <3>1, <3>2 DEF Submit
    <2>4. CASE UNCHANGED <<app, source, child>> BY <2>4 DEF Types
    <2>5. QED BY <2>1, <2>2, <2>3, <2>4
        DEF Types, QueueLine, FlusherWakes, SaveBatch, KeepBatch, SaveBatchFails, StopAgent,
            AdminDown, CollectorClosed, Stopped, AgentVars
<1>3. /\ DOMAIN reader' = Sources
      /\ \A s \in Sources : reader'[s].at = "queue" => reader'[s].line \in Scrubbed
    <2>1. ASSUME NEW s \in Sources, Submit(s) \/ QueueLine(s)
          PROVE  \/ UNCHANGED reader
                 \/ \E l \in Scrubbed :
                        reader' = [reader EXCEPT ![s] = [at |-> "queue", line |-> l]]
                 \/ reader' = [reader EXCEPT ![s] = [at |-> "read", line |-> None]]
        <3>1. CASE Submit(s)
            <4>1. PICK l : l = Head(source[s]) OBVIOUS
            <4>2. source[s] # <<>> BY <3>1 DEF Submit
            <4>3. l \in Lines BY <1>0, <4>1, <4>2, RangeFacts
            <4>4. Scrub(l) \in Scrubbed BY <4>3 DEF Scrubbed
            <4>5. \/ UNCHANGED reader
                  \/ reader' = [reader EXCEPT ![s] = [at |-> "queue", line |-> Scrub(l)]]
                BY <3>1, <4>1 DEF Submit
            <4>6. QED BY <4>4, <4>5
        <3>2. CASE QueueLine(s) BY <3>2 DEF QueueLine
        <3>3. QED BY <2>1, <3>1, <3>2
    <2>2. ASSUME NEW s \in Sources, NEW l \in Scrubbed,
                 reader' = [reader EXCEPT ![s] = [at |-> "queue", line |-> l]]
          PROVE  /\ DOMAIN reader' = Sources
                 /\ \A r \in Sources : reader'[r].at = "queue" => reader'[r].line \in Scrubbed
        BY <2>2 DEF Types
    <2>3. ASSUME NEW s \in Sources,
                 reader' = [reader EXCEPT ![s] = [at |-> "read", line |-> None]]
          PROVE  /\ DOMAIN reader' = Sources
                 /\ \A r \in Sources : reader'[r].at = "queue" => reader'[r].line \in Scrubbed
        BY <2>3 DEF Types
    <2>4. CASE UNCHANGED reader BY <2>4 DEF Types
    <2>5. CASE \E s \in Sources : Submit(s) \/ QueueLine(s) BY <2>1, <2>2, <2>3, <2>4, <2>5
    <2>6. QED BY <2>4, <2>5
        DEF Write, ChildExits, FlusherWakes, SaveBatch, KeepBatch, SaveBatchFails, StopAgent,
            AdminDown, CollectorClosed, Stopped, AgentVars
<1>4. col' \in Coll
    <2>1. ASSUME NEW s \in Sources, QueueLine(s) PROVE col' \in Coll
        <3>1. reader[s].line \in Scrubbed BY <2>1 DEF Types, QueueLine
        <3>2. PICK q : q = Append(col.queue, reader[s].line) OBVIOUS
        <3>3. q \in Seq(Scrubbed) BY <1>0, <3>1, <3>2 DEF Coll
        <3>4. UNCHANGED col \/ col' = [col EXCEPT !.queue = q]
            BY <1>0, <2>1, <3>2 DEF QueueLine, Coll
        <3>5. QED BY <1>0, <3>3, <3>4 DEF Coll
    <2>2. ASSUME NEW stop \in BOOLEAN, FlusherWakes(stop) PROVE col' \in Coll
        <3>1. PICK run \in {"save", "exited", "select"} :
                  col' = [col EXCEPT !.queue = <<>>, !.batch = col.queue, !.last = stop,
                                     !.run = run]
            BY <2>2 DEF FlusherWakes
        <3>2. QED BY <1>0, <3>1 DEF Coll
    <2>3. CASE SaveBatch BY <1>0, <2>3 DEF SaveBatch, Coll
    <2>4. CASE col' = AfterFlush
        <3>1. PICK run \in {"exited", "select"} : col' = [col EXCEPT !.batch = <<>>, !.run = run]
            BY <2>4 DEF AfterFlush
        <3>2. QED BY <1>0, <3>1 DEF Coll
    <2>5. CASE AdminDown
        <3>1. \A l \in Scrubbed : l.id \in LineIds BY ScrubFacts DEF Scrubbed, LineIds
        <3>2. col.queue \in Seq(Scrubbed) /\ col.batch \in Seq(Scrubbed) BY <1>0 DEF Coll
        <3>3. Range(col.queue) \subseteq Scrubbed /\ Range(col.batch) \subseteq Scrubbed
            BY <3>2, RangeFacts
        <3>4. PICK due : due = Ids(col.queue) \cup Ids(col.batch) OBVIOUS
        <3>5. due \subseteq LineIds BY <3>1, <3>3, <3>4 DEF Ids
        <3>6. col' = [col EXCEPT !.cancelled = TRUE, !.due = due] BY <2>5, <3>4 DEF AdminDown
        <3>7. QED BY <1>0, <3>5, <3>6 DEF Coll
    <2>6. CASE UNCHANGED col BY <1>0, <2>6
    <2>7. QED BY <2>1, <2>2, <2>3, <2>4, <2>5, <2>6
        DEF Write, ChildExits, Submit, KeepBatch, SaveBatchFails, StopAgent, CollectorClosed,
            Stopped
<1>5. spent' \in Seq({m.span : m \in Lines})
    <2>1. ASSUME NEW s \in Sources, Submit(s) PROVE spent' \in Seq({m.span : m \in Lines})
        <3>1. PICK l : l = Head(source[s]) OBVIOUS
        <3>2. source[s] # <<>> BY <2>1 DEF Submit
        <3>3. l \in Lines BY <1>0, <3>1, <3>2, RangeFacts
        <3>4. spent' = spent \/ spent' = Append(spent, l.span) BY <2>1, <3>1 DEF Submit
        <3>5. l.span \in {m.span : m \in Lines} BY <3>3
        <3>6. spent \in Seq({m.span : m \in Lines}) BY <1>0
        <3>7. QED BY <3>4, <3>5, <3>6
    <2>2. CASE UNCHANGED spent BY <1>0, <2>2
    <2>3. QED BY <2>1, <2>2
        DEF Write, ChildExits, QueueLine, FlusherWakes, SaveBatch, KeepBatch, SaveBatchFails,
            StopAgent, AdminDown, CollectorClosed, Stopped, AgentVars
<1>6. store' \in Seq(Scrubbed)
    <2>1. CASE SaveBatch
        <3>1. col.batch \in Seq(Scrubbed) /\ store' = store \o col.batch
            BY <1>0, <2>1 DEF Coll, SaveBatch
        <3>2. QED BY <1>0, <3>1
    <2>2. CASE UNCHANGED store BY <1>0, <2>2
    <2>3. QED BY <2>1, <2>2
        DEF Write, ChildExits, Submit, QueueLine, FlusherWakes, KeepBatch, SaveBatchFails,
            StopAgent, AdminDown, CollectorClosed, Stopped, AgentVars
<1>7. QED BY <1>1, <1>2, <1>3, <1>4, <1>5, <1>6 DEF Types

(* Every step.                                                             *)
LEMMA TypesStep ==
    Types /\ [Next]_vars => Types'
<1>1. SUFFICES ASSUME Types, [Next]_vars PROVE Types' OBVIOUS
<1>2. CASE UNCHANGED vars BY <1>1, <1>2 DEF Types, vars
<1>3. CASE Next BY <1>1, <1>3, SinkTypes, PostTypes, CollectorTypes DEF Next
<1>4. QED BY <1>1, <1>2, <1>3
-----------------------------------------------------------------------------
(* What leaves the agent                                                   *)

(* A save puts a batch into the store before anything fans it out.         *)
LEMMA ExportsStep ==
    Types /\ Exports /\ [Next]_vars => Exports'
<1>1. SUFFICES ASSUME Types, Exports, [Next]_vars PROVE Exports' OBVIOUS
<1>0. /\ posts \in Seq(Post) /\ store \in Seq(Scrubbed) /\ col \in Coll
      /\ col.batch \in Seq(Scrubbed)
      /\ \A p \in DOMAIN posts : posts[p].keep \in Seq(Scrubbed)
    <2>1. posts \in Seq(Post) /\ store \in Seq(Scrubbed) /\ col \in Coll BY <1>1 DEF Types
    <2>2. col.batch \in Seq(Scrubbed) BY <2>1 DEF Coll
    <2>3. \A p \in DOMAIN posts : posts[p] \in Post BY <2>1
    <2>4. QED BY <2>1, <2>2, <2>3 DEF Post
<1>2. CASE UNCHANGED <<posts, col, store, exported>> BY <1>1, <1>2 DEF Exports
<1>3. CASE PostArrives
    <2>1. PICK q : posts' = Append(posts, q) /\ q.at \in {"refused", "admit"}
        BY <1>3 DEF PostArrives, NewPost
    <2>2. UNCHANGED <<col, store, exported>> BY <1>3 DEF PostArrives
    <2>3. ASSUME NEW p \in DOMAIN posts', posts'[p].at \in {"count", "accepted", "broken"}
          PROVE  Range(posts'[p].keep) \subseteq Range(store)
        <3>1. p \in DOMAIN posts /\ posts'[p] = posts[p] BY <1>0, <2>1, <2>3
        <3>2. QED BY <1>1, <2>3, <3>1 DEF Exports
    <2>4. QED BY <1>1, <2>2, <2>3 DEF Exports
<1>4. ASSUME NEW p \in DOMAIN posts, AdmitLine(p) PROVE Exports'
    <2>1. /\ DOMAIN posts' = DOMAIN posts /\ posts'[p].at = "admit"
          /\ \A q \in DOMAIN posts : q # p => posts'[q] = posts[q]
        <3>1. posts[p] \in Post BY <1>0
        <3>2. QED BY <1>0, <1>4, <3>1 DEF AdmitLine, Post
    <2>2. UNCHANGED <<col, store, exported>> BY <1>4 DEF AdmitLine, PostVars
    <2>3. QED BY <1>1, <2>1, <2>2 DEF Exports
<1>5. ASSUME NEW p \in DOMAIN posts, SavePost(p) PROVE Exports'
    <2>1. /\ DOMAIN posts' = DOMAIN posts /\ posts'[p].keep = posts[p].keep
          /\ \A q \in DOMAIN posts : q # p => posts'[q] = posts[q]
        <3>1. posts[p] \in Post BY <1>0
        <3>2. QED BY <1>0, <1>5, <3>1 DEF SavePost, Post
    <2>2. UNCHANGED <<col, exported>> BY <1>5 DEF SavePost, PostVars
    <2>3. Range(store') = Range(store) \cup Range(posts[p].keep)
        <3>1. store' = store \o posts[p].keep BY <1>5 DEF SavePost
        <3>2. QED BY <1>0, <3>1, RangeFacts
    <2>4. ASSUME NEW q \in DOMAIN posts, posts'[q].at \in {"count", "accepted", "broken"}
          PROVE  Range(posts'[q].keep) \subseteq Range(store')
        <3>1. CASE q = p BY <2>1, <2>3, <3>1
        <3>2. CASE q # p BY <1>1, <2>1, <2>3, <2>4, <3>2 DEF Exports
        <3>3. QED BY <3>1, <3>2
    <2>5. QED BY <1>1, <2>1, <2>2, <2>3, <2>4 DEF Exports
<1>6. ASSUME NEW p \in DOMAIN posts, SavePostFails(p) PROVE Exports'
    <2>1. /\ DOMAIN posts' = DOMAIN posts /\ posts'[p].at = "refused"
          /\ \A q \in DOMAIN posts : q # p => posts'[q] = posts[q]
        <3>1. posts[p] \in Post BY <1>0
        <3>2. QED BY <1>0, <1>6, <3>1 DEF SavePostFails, Post
    <2>2. UNCHANGED <<col, store, exported>> BY <1>6 DEF SavePostFails, PostVars
    <2>3. QED BY <1>1, <2>1, <2>2 DEF Exports
<1>7. ASSUME NEW p \in DOMAIN posts, AcceptPost(p) \/ FanOutPanics(p) PROVE Exports'
    <2>1. /\ DOMAIN posts' = DOMAIN posts /\ posts'[p].keep = posts[p].keep
          /\ \A q \in DOMAIN posts : q # p => posts'[q] = posts[q]
        <3>1. posts[p] \in Post BY <1>0
        <3>2. QED BY <1>0, <1>7, <3>1 DEF AcceptPost, FanOutPanics, Post
    <2>2. UNCHANGED <<col, store>> BY <1>7 DEF AcceptPost, FanOutPanics, PostVars
    <2>3. Range(posts[p].keep) \subseteq Range(store)
        BY <1>1, <1>7 DEF Exports, AcceptPost, FanOutPanics
    <2>4. exported' \subseteq Range(store)
        BY <1>1, <1>7, <2>3 DEF Exports, AcceptPost, FanOutPanics
    <2>5. ASSUME NEW q \in DOMAIN posts, posts'[q].at \in {"count", "accepted", "broken"}
          PROVE  Range(posts'[q].keep) \subseteq Range(store)
        <3>1. CASE q = p BY <2>1, <2>3, <3>1
        <3>2. CASE q # p BY <1>1, <2>1, <2>5, <3>2 DEF Exports
        <3>3. QED BY <3>1, <3>2
    <2>6. QED BY <1>1, <2>1, <2>2, <2>4, <2>5 DEF Exports
<1>8. ASSUME UNCHANGED <<posts, store, exported>>,
             col'.run # "keep" \/ (col'.run = col.run /\ col'.batch = col.batch)
      PROVE  Exports'
    BY <1>1, <1>8 DEF Exports
<1>9. CASE SaveBatch
    <2>1. col'.batch = col.batch /\ UNCHANGED <<posts, exported>>
        BY <1>0, <1>9 DEF SaveBatch, ColVars, Coll
    <2>2. Range(store') = Range(store) \cup Range(col.batch)
        <3>1. store' = store \o col.batch BY <1>9 DEF SaveBatch
        <3>2. QED BY <1>0, <3>1, RangeFacts
    <2>3. QED BY <1>1, <2>1, <2>2 DEF Exports
<1>10. CASE KeepBatch
    <2>1. col'.run # "keep" /\ UNCHANGED <<posts, store>>
        BY <1>0, <1>10 DEF KeepBatch, AfterFlush, ColVars, Coll
    <2>2. exported' = exported \cup Range(col.batch) /\ Range(col.batch) \subseteq Range(store)
        BY <1>1, <1>10 DEF KeepBatch, Exports
    <2>3. QED BY <1>1, <2>1, <2>2 DEF Exports
<1>11. ASSUME NEW stop \in BOOLEAN, FlusherWakes(stop) PROVE Exports'
    <2>1. col'.run # "keep" BY <1>0, <1>11 DEF FlusherWakes, Coll
    <2>2. UNCHANGED <<posts, store, exported>> BY <1>11 DEF FlusherWakes, ColVars
    <2>3. QED BY <1>1, <2>1, <2>2 DEF Exports
<1>12. CASE SaveBatchFails
    <2>1. col'.run # "keep" BY <1>0, <1>12 DEF SaveBatchFails, AfterFlush, Coll
    <2>2. UNCHANGED <<posts, store, exported>> BY <1>12 DEF SaveBatchFails, ColVars
    <2>3. QED BY <1>1, <2>1, <2>2 DEF Exports
<1>13. ASSUME NEW s \in Sources, QueueLine(s) PROVE Exports'
    <2>1. col'.run = col.run /\ col'.batch = col.batch BY <1>0, <1>13 DEF QueueLine, Coll
    <2>2. QED BY <1>8, <1>13, <2>1 DEF QueueLine, ColVars
<1>14. CASE AdminDown
    <2>1. col'.run = col.run /\ col'.batch = col.batch BY <1>0, <1>14 DEF AdminDown, Coll
    <2>2. QED BY <1>8, <1>14, <2>1 DEF AdminDown, AgentVars
<1>15. CASE UNCHANGED vars BY <1>2, <1>15 DEF vars
<1>16. CASE \/ app.todo # <<>> /\ (Handle(Head(app.todo)) \/ Write(Head(app.todo)))
            \/ CloseSink \/ \E stop \in BOOLEAN : SinkWakes(stop)
            \/ AnswerArrives \/ AnswerLost \/ ChildExits
            \/ \E s \in Sources : Submit(s)
    BY <1>2, <1>16
        DEF Handle, Write, CloseSink, SinkWakes, AnswerArrives, AnswerLost, ChildExits, Submit,
            agentVars, ColVars
<1>17. CASE \E p \in DOMAIN posts : AdmitLine(p) \/ SavePost(p) \/ SavePostFails(p)
                                    \/ AcceptPost(p) \/ FanOutPanics(p)
    BY <1>4, <1>5, <1>6, <1>7, <1>17
<1>18. CASE \/ \E stop \in BOOLEAN : FlusherWakes(stop)
            \/ \E s \in Sources : QueueLine(s)
    BY <1>11, <1>13, <1>18
<1>19. CASE PostArrives \/ SaveBatch \/ KeepBatch \/ SaveBatchFails \/ AdminDown
    BY <1>3, <1>9, <1>10, <1>12, <1>14, <1>19
<1>20. Next \/ UNCHANGED vars BY <1>1
<1>21. ASSUME Next PROVE Exports'
    <2>1. CASE \/ app.todo # <<>> /\ (Handle(Head(app.todo)) \/ Write(Head(app.todo)))
               \/ CloseSink
               \/ \E stop \in BOOLEAN : SinkWakes(stop) \/ FlusherWakes(stop)
        BY <1>16, <1>18, <2>1
    <2>2. CASE \/ PostArrives \/ AnswerArrives \/ AnswerLost
               \/ \E p \in DOMAIN posts : AdmitLine(p) \/ SavePost(p) \/ SavePostFails(p)
                                          \/ AcceptPost(p) \/ FanOutPanics(p)
        BY <1>16, <1>17, <1>19, <2>2
    <2>3. CASE ChildExits \/ \E s \in Sources : Submit(s) \/ QueueLine(s)
        BY <1>16, <1>18, <2>3
    <2>4. CASE SaveBatch \/ KeepBatch \/ SaveBatchFails \/ AdminDown BY <1>19, <2>4
    <2>5. CASE StopAgent \/ CollectorClosed \/ Stopped
        BY <1>2, <2>5 DEF StopAgent, CollectorClosed, Stopped, AgentVars
    <2>6. QED BY <1>21, <2>1, <2>2, <2>3, <2>4, <2>5 DEF Next
<1>22. QED BY <1>15, <1>20, <1>21
-----------------------------------------------------------------------------
(* What the counter has allowed                                            *)

(* A line that reaches the counter, whichever way it came.                 *)
LEMMA LineCounted ==
    ASSUME Types, Counting, NEW l \in Lines, counter' = AfterAdmit(l, counter),
           spent' = IF counter' # counter THEN Append(spent, l.span) ELSE spent
    PROVE  Counting'
<1>1. PICK c, d, s, t, cap : /\ c = counter /\ d = counter' /\ s = spent /\ t = spent'
                             /\ cap = Global.maxLines
    OBVIOUS
<1>2. cap \in Nat BY <1>1, GovernorAssumption
<1>3. CounterOK(c, cap) /\ Knows(c, s) /\ (cap > 0 => Capped(s, cap))
    BY <1>1 DEF Counting
<1>4. CASE d = c
    <2>1. t = s BY <1>1, <1>4
    <2>2. QED BY <1>1, <1>3, <1>4, <2>1 DEF Counting
<1>5. CASE d # c
    <2>1. PICK key, max : key = l.span /\ max = Resolve(l.route).maxLines OBVIOUS
    <2>2. max \in Nat /\ (cap > 0 => max > 0 /\ max <= cap) BY <1>1, <2>1, ResolvedCap
    <2>3. d = Count(c, key, max) BY <1>1, <1>5, <2>1 DEF AfterAdmit
    <2>4. ~(max <= 0 \/ ~Allows(c, key, max)) BY <1>5, <2>3 DEF Count
    <2>5. max \in Nat \ {0} /\ Allows(c, key, max) BY <2>2, <2>4
    <2>6. t = Append(s, key) BY <1>1, <1>5, <2>1
    <2>7. Longer(s, t, key)
        <3>1. PICK S : S = {m.span : m \in Lines} OBVIOUS
        <3>2. s \in Seq(S) /\ key \in S BY <1>1, <2>1, <3>1 DEF Types
        <3>3. QED BY <2>6, <3>2, LongerFacts
    <2>8. cap > 0 => max <= cap BY <2>2
    <2>9. CounterOK(d, cap) BY <1>2, <1>3, <2>3, <2>5, <2>8, CountOK
    <2>10. Knows(d, t) BY <1>2, <1>3, <2>3, <2>5, <2>7, <2>8, CountKnows
    <2>11. ASSUME cap > 0 PROVE Capped(t, cap)
        <3>1. cap \in Nat \ {0} /\ Capped(s, cap) BY <1>2, <1>3, <2>11
        <3>2. QED BY <2>7, <2>9, <2>10, <3>1, CountCapped
    <2>12. QED BY <1>1, <2>9, <2>10, <2>11 DEF Counting
<1>6. QED BY <1>4, <1>5

(* Every step: only AdmitLine and Submit reach the counter.                *)
LEMMA CountingStep ==
    Types /\ Counting /\ [Next]_vars => Counting'
<1>1. SUFFICES ASSUME Types, Counting, [Next]_vars PROVE Counting' OBVIOUS
<1>2. CASE UNCHANGED <<counter, spent>> BY <1>1, <1>2 DEF Counting
<1>3. ASSUME NEW p \in DOMAIN posts, AdmitLine(p) PROVE Counting'
    <2>1. posts[p] \in Post BY <1>1 DEF Types
    <2>2. posts[p].todo \in Seq(Lines) /\ posts[p].todo # <<>>
        BY <1>3, <2>1 DEF Post, AdmitLine
    <2>3. PICK l : l = Head(posts[p].todo) OBVIOUS
    <2>4. l \in Lines BY <2>2, <2>3, RangeFacts
    <2>5. /\ counter' = AfterAdmit(l, counter)
          /\ spent' = IF counter' # counter THEN Append(spent, l.span) ELSE spent
        BY <1>3, <2>3 DEF AdmitLine
    <2>6. QED BY <1>1, <2>4, <2>5, LineCounted
<1>4. ASSUME NEW s \in Sources, Submit(s) PROVE Counting'
    <2>1. source[s] \in Seq(Lines) /\ source[s] # <<>> BY <1>1, <1>4 DEF Types, Submit
    <2>2. PICK l : l = Head(source[s]) OBVIOUS
    <2>3. l \in Lines BY <2>1, <2>2, RangeFacts
    <2>4. /\ counter' = AfterAdmit(l, counter)
          /\ spent' = IF counter' # counter THEN Append(spent, l.span) ELSE spent
        BY <1>4, <2>2 DEF Submit
    <2>5. QED BY <1>1, <2>3, <2>4, LineCounted
<1>5. CASE UNCHANGED vars BY <1>2, <1>5 DEF vars
<1>6. CASE \/ app.todo # <<>> /\ (Handle(Head(app.todo)) \/ Write(Head(app.todo)))
           \/ CloseSink
           \/ \E stop \in BOOLEAN : SinkWakes(stop) \/ FlusherWakes(stop)
           \/ PostArrives \/ AnswerArrives \/ AnswerLost
           \/ \E p \in DOMAIN posts : SavePost(p) \/ SavePostFails(p)
                                      \/ AcceptPost(p) \/ FanOutPanics(p)
           \/ ChildExits
           \/ \E s \in Sources : QueueLine(s)
           \/ SaveBatch \/ KeepBatch \/ SaveBatchFails
           \/ StopAgent \/ AdminDown \/ CollectorClosed \/ Stopped
    <2>1. UNCHANGED <<counter, spent>>
        BY <1>6
        DEF Handle, Write, CloseSink, SinkWakes, FlusherWakes, PostArrives, AnswerArrives,
            AnswerLost, SavePost, SavePostFails, AcceptPost, FanOutPanics, ChildExits,
            QueueLine, SaveBatch, KeepBatch, SaveBatchFails, StopAgent, AdminDown,
            CollectorClosed, Stopped, agentVars, AgentVars
    <2>2. QED BY <1>2, <2>1
<1>7. QED BY <1>1, <1>3, <1>4, <1>5, <1>6 DEF Next
-----------------------------------------------------------------------------
(* The theorems                                                            *)

(* The invariant of the first theorem, by induction over the steps.        *)
LEMMA InvHolds ==
    Spec => []IInv
<1>1. Init => IInv BY InitInv
<1>2. IInv /\ [Next]_vars => IInv' BY TypesStep, ExportsStep, CountingStep DEF IInv
<1>3. QED BY <1>1, <1>2, PTL DEF Spec

(* Nothing that a line's policy covers is at rest or leaves the agent, an  *)
(* exporter sees only what is stored, and no window of admissions that     *)
(* touches at most MaxTracked spans has more of one than the global cap    *)
(* (applog.go scrub and resolve, telcap.go Allow).                         *)
THEOREM LogsGoverned ==
    Spec => []GovernedAndCapped
<1>1. ASSUME IInv PROVE GovernedAndCapped
    <2>1. ASSUME NEW l \in Range(store)
          PROVE  \A k \in l.leaks : ~Covered(k, Resolve(l.route))
        <3>1. store \in Seq(Scrubbed) BY <1>1 DEF IInv, Types
        <3>2. l \in Scrubbed BY <3>1, RangeFacts
        <3>3. PICK m \in Lines : l = Scrub(m) BY <3>2 DEF Scrubbed
        <3>4. Clean(l) BY <3>3, ScrubFacts
        <3>5. QED BY <3>4 DEF Clean
    <2>2. exported \subseteq Range(store) BY <1>1 DEF IInv, Exports
    <2>3. ASSUME Global.maxLines > 0, NEW i \in DOMAIN spent, NEW j \in DOMAIN spent,
                 i <= j, Cardinality({spent[n] : n \in i..j}) <= MaxTracked, NEW n \in i..j
          PROVE  Cardinality({m \in i..j : spent[m] = spent[n]}) <= Global.maxLines
        <3>1. Capped(spent, Global.maxLines) BY <1>1, <2>3 DEF IInv, Counting
        <3>2. i \in 1..Len(spent) /\ j \in 1..Len(spent) BY <1>1, <2>3 DEF IInv, Types
        <3>3. Within(spent, i, j) = {spent[k] : k \in i..j} BY DEF Within
        <3>4. PICK k : k = spent[n] OBVIOUS
        <3>5. k \in Within(spent, i, j) BY <2>3, <3>4 DEF Within
        <3>6. Cardinality(Places(spent, i, j, k)) <= Global.maxLines
            BY <2>3, <3>1, <3>2, <3>3, <3>5 DEF Capped
        <3>7. Places(spent, i, j, k) = {m \in i..j : spent[m] = spent[n]} BY <3>4 DEF Places
        <3>8. QED BY <3>6, <3>7
    <2>4. QED BY <2>1, <2>2, <2>3 DEF GovernedAndCapped
<1>2. QED BY <1>1, InvHolds, PTL
-----------------------------------------------------------------------------
(* Sequences of lines that carry each id once                              *)

Distinct(s) == \A i, j \in DOMAIN s : s[i].id = s[j].id => i = j

(* The ids of two sequences, one behind the other.                         *)
LEMMA IdsCat ==
    ASSUME NEW S, NEW s \in Seq(S), NEW t \in Seq(S)
    PROVE  /\ Ids(s \o t) = Ids(s) \cup Ids(t)
           /\ Distinct(s \o t) <=> Distinct(s) /\ Distinct(t) /\ Ids(s) \cap Ids(t) = {}
<1>1. PICK m, n, u : m = Len(s) /\ n = Len(t) /\ u = s \o t OBVIOUS
<1>2. /\ m \in Nat /\ n \in Nat /\ u \in Seq(S)
      /\ DOMAIN s = 1..m /\ DOMAIN t = 1..n /\ DOMAIN u = 1..(m + n)
    BY <1>1
<1>3. Ids(u) = Ids(s) \cup Ids(t)
    <2>1. Range(u) = Range(s) \cup Range(t) BY <1>1, RangeFacts
    <2>2. QED BY <2>1 DEF Ids
<1>4. /\ \A i \in 1..m : u[i] = s[i] /\ i \in 1..(m + n)
      /\ \A i \in 1..n : u[m + i] = t[i] /\ m + i \in 1..(m + n)
    BY <1>1, <1>2
<1>5. ASSUME NEW i \in 1..(m + n), i \notin 1..m
      PROVE  i - m \in 1..n /\ i = m + (i - m) /\ u[i] = t[i - m]
    <2>1. i - m \in 1..n /\ i = m + (i - m) BY <1>2, <1>5
    <2>2. QED BY <1>4, <2>1
<1>6. ASSUME Distinct(u) PROVE Distinct(s) /\ Distinct(t) /\ Ids(s) \cap Ids(t) = {}
    <2>1. ASSUME NEW i \in 1..m, NEW j \in 1..m, s[i].id = s[j].id PROVE i = j
        BY <1>2, <1>4, <1>6, <2>1 DEF Distinct
    <2>2. ASSUME NEW i \in 1..n, NEW j \in 1..n, t[i].id = t[j].id PROVE i = j
        <3>1. m + i = m + j BY ZenonT(30), <1>2, <1>4, <1>6, <2>2 DEF Distinct
        <3>2. QED BY <1>2, <3>1
    <2>3. ASSUME NEW x \in Ids(s), x \in Ids(t) PROVE FALSE
        <3>1. PICK i \in 1..m : s[i].id = x BY <1>2, <2>3 DEF Ids, Range
        <3>2. PICK j \in 1..n : t[j].id = x BY <1>2, <2>3 DEF Ids, Range
        <3>3. PICK k : k = m + j OBVIOUS
        <3>4. u[i].id = u[k].id /\ i \in 1..(m + n) /\ k \in 1..(m + n)
            BY <1>4, <3>1, <3>2, <3>3
        <3>5. i = k BY <1>2, <1>6, <3>4 DEF Distinct
        <3>6. QED BY <1>2, <3>3, <3>5
    <2>4. QED BY <1>2, <2>1, <2>2, <2>3 DEF Distinct
<1>7. ASSUME Distinct(s), Distinct(t), Ids(s) \cap Ids(t) = {} PROVE Distinct(u)
    <2>1. SUFFICES ASSUME NEW i \in 1..(m + n), NEW j \in 1..(m + n), u[i].id = u[j].id
                   PROVE  i = j
        BY <1>2 DEF Distinct
    <2>2. CASE i \in 1..m /\ j \in 1..m
        BY <1>2, <1>4, <1>7, <2>1, <2>2 DEF Distinct
    <2>3. CASE i \in 1..m /\ j \notin 1..m
        <3>1. s[i].id = t[j - m].id /\ j - m \in 1..n BY <1>4, <1>5, <2>1, <2>3
        <3>2. s[i].id \in Ids(s) /\ t[j - m].id \in Ids(t)
            BY <1>2, <2>3, <3>1 DEF Ids, Range
        <3>3. QED BY <1>7, <3>1, <3>2
    <2>4. CASE i \notin 1..m /\ j \in 1..m
        <3>1. s[j].id = t[i - m].id /\ i - m \in 1..n BY <1>4, <1>5, <2>1, <2>4
        <3>2. s[j].id \in Ids(s) /\ t[i - m].id \in Ids(t)
            BY <1>2, <2>4, <3>1 DEF Ids, Range
        <3>3. QED BY <1>7, <3>1, <3>2
    <2>5. CASE i \notin 1..m /\ j \notin 1..m
        <3>1. t[i - m].id = t[j - m].id /\ i - m \in 1..n /\ j - m \in 1..n
            BY <1>5, <2>1, <2>5
        <3>2. i - m = j - m BY <1>2, <1>7, <3>1 DEF Distinct
        <3>3. QED BY <1>2, <1>5, <2>5, <3>2
    <2>6. QED BY <2>2, <2>3, <2>4, <2>5
<1>8. QED BY <1>1, <1>3, <1>6, <1>7

(* No line, and one line.                                                  *)
LEMMA IdsFew ==
    /\ Ids(<<>>) = {} /\ Distinct(<<>>) /\ Range(<<>>) = {}
    /\ \A l : Ids(<<l>>) = {l.id} /\ Distinct(<<l>>) /\ Range(<<l>>) = {l}
<1>1. Range(<<>>) = {} /\ \A l : Range(<<l>>) = {l} BY DEF Range
<1>2. Distinct(<<>>) /\ \A l : Distinct(<<l>>) BY DEF Distinct
<1>3. QED BY <1>1, <1>2 DEF Ids

(* A line behind the others.                                               *)
LEMMA IdsAppend ==
    ASSUME NEW S, NEW s \in Seq(S), NEW l \in S
    PROVE  /\ Ids(Append(s, l)) = Ids(s) \cup {l.id}
           /\ Range(Append(s, l)) = Range(s) \cup {l}
           /\ Distinct(s) /\ l.id \notin Ids(s) => Distinct(Append(s, l))
<1>1. PICK t : t = <<l>> OBVIOUS
<1>2. t \in Seq(S) /\ Append(s, l) = s \o t BY <1>1, AppendIsConcat
<1>3. Ids(t) = {l.id} /\ Distinct(t) /\ Range(t) = {l} BY <1>1, IdsFew
<1>4. /\ Ids(s \o t) = Ids(s) \cup Ids(t)
      /\ Distinct(s) /\ Distinct(t) /\ Ids(s) \cap Ids(t) = {} => Distinct(s \o t)
    BY <1>2, IdsCat
<1>5. Range(s \o t) = Range(s) \cup Range(t) BY <1>2, RangeFacts
<1>6. QED BY <1>2, <1>3, <1>4, <1>5

(* The first line and the others.                                          *)
LEMMA IdsTail ==
    ASSUME NEW S, NEW s \in Seq(S), s # <<>>
    PROVE  /\ Ids(s) = {Head(s).id} \cup Ids(Tail(s))
           /\ Range(s) = {Head(s)} \cup Range(Tail(s))
           /\ Distinct(s) => Distinct(Tail(s)) /\ Head(s).id \notin Ids(Tail(s))
           /\ Len(Tail(s)) = Len(s) - 1
<1>1. PICK l, h, t : l = Head(s) /\ h = <<l>> /\ t = Tail(s) OBVIOUS
<1>2. l \in S /\ h \in Seq(S) /\ t \in Seq(S) BY <1>1
<1>3. Len(s) \in Nat \ {0} /\ Len(t) = Len(s) - 1 BY <1>1
<1>4. s = h \o t
    <2>1. Len(h \o t) = Len(s) /\ h \o t \in Seq(S) BY <1>1, <1>2, <1>3
    <2>2. \A i \in 1..Len(s) : s[i] = (h \o t)[i] BY <1>1, <1>2, <1>3
    <2>3. QED BY <2>1, <2>2, SeqEqual
<1>5. Ids(h) = {l.id} /\ Range(h) = {l} BY <1>1, IdsFew
<1>6. /\ Ids(h \o t) = Ids(h) \cup Ids(t)
      /\ Distinct(h \o t) => Distinct(t) /\ Ids(h) \cap Ids(t) = {}
    BY <1>2, IdsCat
<1>7. Range(h \o t) = Range(h) \cup Range(t) BY <1>2, RangeFacts
<1>8. /\ Ids(s) = {l.id} \cup Ids(t) /\ Range(s) = {l} \cup Range(t)
      /\ Distinct(s) => Distinct(t) /\ l.id \notin Ids(t)
    BY <1>4, <1>5, <1>6, <1>7
<1>9. QED BY <1>1, <1>3, <1>8

(* A sequence cut in two.                                                  *)
Upto(s, n) == SubSeq(s, 1, n)
Beyond(s, n) == SubSeq(s, n + 1, Len(s))

(* The two parts have the ids of the whole, each id in one of them.        *)
LEMMA IdsCut ==
    ASSUME NEW S, NEW s \in Seq(S), NEW n \in 0..Len(s)
    PROVE  /\ Upto(s, n) \in Seq(S) /\ Beyond(s, n) \in Seq(S)
           /\ Ids(s) = Ids(Upto(s, n)) \cup Ids(Beyond(s, n))
           /\ Range(s) = Range(Upto(s, n)) \cup Range(Beyond(s, n))
           /\ Distinct(s) => /\ Distinct(Upto(s, n)) /\ Distinct(Beyond(s, n))
                             /\ Ids(Upto(s, n)) \cap Ids(Beyond(s, n)) = {}
<1>1. PICK a, b : a = Upto(s, n) /\ b = Beyond(s, n) OBVIOUS
<1>2. a \in Seq(S) /\ b \in Seq(S) BY <1>1 DEF Upto, Beyond
<1>3. s = a \o b
    <2>1. 1 \in 1..(Len(s) + 1) /\ n \in (1 - 1)..Len(s) /\ Len(s) \in n..Len(s) OBVIOUS
    <2>2. SubSeq(s, 1, n) \o SubSeq(s, n + 1, Len(s)) = SubSeq(s, 1, Len(s))
        BY <2>1, ConcatAdjacentSubSeq
    <2>3. QED BY <1>1, <2>2, SubSeqFull DEF Upto, Beyond
<1>4. Range(a \o b) = Range(a) \cup Range(b) BY <1>2, RangeFacts
<1>5. /\ Ids(a \o b) = Ids(a) \cup Ids(b)
      /\ Distinct(a \o b) => Distinct(a) /\ Distinct(b) /\ Ids(a) \cap Ids(b) = {}
    BY <1>2, IdsCat
<1>6. QED BY <1>1, <1>2, <1>3, <1>4, <1>5

(* As many ids as lines.                                                   *)
LEMMA IdsCount ==
    ASSUME NEW S, NEW s \in Seq(S), Distinct(s)
    PROVE  IsFiniteSet(Ids(s)) /\ Cardinality(Ids(s)) = Len(s)
<1>1. PICK n : n = Len(s) OBVIOUS
<1>2. n \in Nat /\ DOMAIN s = 1..n BY <1>1
<1>3. PICK f : f = [i \in 1..n |-> s[i].id] OBVIOUS
<1>4. Ids(s) = {f[i] : i \in 1..n} BY <1>2, <1>3 DEF Ids, Range
<1>5. f \in Surjection(1..n, Ids(s)) BY <1>3, <1>4 DEF Surjection
<1>6. f \in Injection(1..n, Ids(s))
    <2>1. f \in [1..n -> Ids(s)] BY <1>3, <1>4
    <2>2. \A i, j \in 1..n : f[i] = f[j] => i = j BY <1>2, <1>3 DEF Distinct
    <2>3. QED BY <2>1, <2>2 DEF Injection, IsInjective
<1>7. IsFiniteSet(1..n) /\ Cardinality(1..n) = n BY <1>2, FS_Interval
<1>8. QED BY <1>1, <1>5, <1>6, <1>7, FS_Surjection

(* Two finite sets that share nothing.                                     *)
LEMMA DisjointUnion ==
    ASSUME NEW A, NEW B, IsFiniteSet(A), IsFiniteSet(B), A \cap B = {}
    PROVE  /\ IsFiniteSet(A \cup B) /\ Cardinality(A \cup B) = Cardinality(A) + Cardinality(B)
           /\ Cardinality(A) \in Nat /\ Cardinality(B) \in Nat
<1>1. Cardinality(A) \in Nat /\ Cardinality(B) \in Nat BY FS_CardinalityType
<1>2. /\ IsFiniteSet(A \cup B)
      /\ Cardinality(A \cup B) = Cardinality(A) + Cardinality(B) - Cardinality(A \cap B)
    BY FS_Union
<1>3. Cardinality(A \cap B) = 0 BY FS_EmptySet
<1>4. Cardinality(A \cup B) = Cardinality(A) + Cardinality(B) - 0 BY <1>2, <1>3
<1>5. QED BY <1>1, <1>2, <1>4

(* Scrubbing keeps the ids.                                                *)
LEMMA ScrubbedId ==
    ASSUME NEW l \in Scrubbed
    PROVE  l.id \in LineIds
BY ScrubFacts DEF Scrubbed, LineIds
-----------------------------------------------------------------------------
(* Who holds a line that the application gave to the SDK                   *)

SdkLines == {l \in app.written : l.way = "sdk"}
SdkIds == {l.id : l \in SdkLines}

(* The application writes each line once.                                  *)
Fresh ==
    /\ IsFiniteSet(app.written)
    /\ Distinct(app.todo)
    /\ \A l, m \in app.written : l.id = m.id => l = m
    /\ \A l \in app.written : l.id \notin Ids(app.todo)

(* A post has each line of its batch once: still to admit, kept or         *)
(* dropped.  One that was refused has dropped some of them at most.        *)
PostOK(q) ==
    /\ Distinct(q.todo) /\ Distinct(q.keep)
    /\ Ids(q.todo) \cap Ids(q.keep) = {}
    /\ q.drop \cap (Ids(q.todo) \cup Ids(q.keep)) = {}
    /\ q.at = "refused" => q.keep = <<>> /\ q.drop \subseteq q.ids
    /\ q.at # "refused" => q.ids = Ids(q.todo) \cup Ids(q.keep) \cup q.drop
    /\ q.at # "admit" => q.todo = <<>>

(* A line is in the sink's queue, in its batch, or in one post; the batch  *)
(* that waits for an answer is that of the last post.                      *)
Batches ==
    /\ Distinct(sdk.queue) /\ Distinct(sdk.batch)
    /\ Ids(sdk.queue) \cup Ids(sdk.batch) \subseteq SdkIds
    /\ Ids(sdk.queue) \cap Ids(sdk.batch) = {}
    /\ sdk.run \in {"select", "exited"} => sdk.batch = <<>>
    /\ \A p \in DOMAIN posts : posts[p].ids \subseteq SdkIds \ Ids(sdk.queue) /\ PostOK(posts[p])
    /\ \A p, q \in DOMAIN posts : p # q => posts[p].ids \cap posts[q].ids = {}
    /\ sdk.run = "post" => \A p \in DOMAIN posts : posts[p].ids \cap Ids(sdk.batch) = {}
    /\ sdk.run = "wait" => Len(posts) # 0 /\ posts[Len(posts)].ids = Ids(sdk.batch)

(* The lines of the first state, and of one in which a line was written.   *)
LEMMA FreshInit ==
    Init => Fresh
<1>1. SUFFICES ASSUME Init PROVE Fresh OBVIOUS
<1>2. PICK script \in Scripts : app = [todo |-> script, written |-> {}] BY <1>1 DEF Init
<1>3. app.todo = script /\ app.written = {} BY <1>2
<1>4. Distinct(script) BY PipelineAssumption DEF Distinct
<1>5. QED BY <1>3, <1>4, FS_EmptySet DEF Fresh

(* The line that is written next was not written before.                   *)
LEMMA LoggedFresh ==
    ASSUME Types, Fresh, app.todo # <<>>, NEW l, l = Head(app.todo), app' = Logged(l)
    PROVE  /\ Fresh'
           /\ l \in Lines /\ app'.written = app.written \cup {l}
           /\ l \notin app.written /\ \A m \in app.written : m.id # l.id
<1>1. app.todo \in Seq(Lines) /\ app.written \subseteq Lines BY DEF Types
<1>2. PICK todo, written : todo = app.todo /\ written = app.written OBVIOUS
<1>3. app'.todo = Tail(todo) /\ app'.written = written \cup {l} BY <1>2 DEF Logged
<1>4. l \in Lines BY <1>1, RangeFacts
<1>5. Ids(todo) = {l.id} \cup Ids(Tail(todo)) BY <1>1, <1>2, IdsTail
<1>6. Distinct(Tail(todo)) /\ l.id \notin Ids(Tail(todo))
    <2>1. Distinct(todo) BY <1>2 DEF Fresh
    <2>2. QED BY <1>1, <1>2, <2>1, IdsTail
<1>7. \A m \in written : m.id # l.id /\ m.id \notin Ids(Tail(todo)) BY <1>2, <1>5 DEF Fresh
<1>8. IsFiniteSet(written \cup {l}) BY <1>2, FS_AddElement DEF Fresh
<1>9. \A m, n \in written \cup {l} : m.id = n.id => m = n BY <1>2, <1>7 DEF Fresh
<1>10. \A m \in written \cup {l} : m.id \notin Ids(Tail(todo)) BY <1>6, <1>7
<1>11. Fresh' BY <1>3, <1>6, <1>8, <1>9, <1>10 DEF Fresh
<1>12. QED BY <1>2, <1>3, <1>4, <1>7, <1>11

(* Only the application writes, and only its next line.                    *)
LEMMA FreshStep ==
    Types /\ Fresh /\ [Next]_vars => Fresh'
<1>1. SUFFICES ASSUME Types, Fresh, [Next]_vars PROVE Fresh' OBVIOUS
<1>2. CASE UNCHANGED app BY <1>1, <1>2 DEF Fresh
<1>3. CASE app.todo # <<>> /\ app' = Logged(Head(app.todo)) BY <1>1, <1>3, LoggedFresh
<1>4. UNCHANGED app \/ (app.todo # <<>> /\ app' = Logged(Head(app.todo)))
    BY <1>1
    DEF Next, vars, Handle, Write, CloseSink, SinkWakes, FlusherWakes, PostArrives,
        AnswerArrives, AnswerLost, AdmitLine, SavePost, SavePostFails, AcceptPost,
        FanOutPanics, ChildExits, Submit, QueueLine, SaveBatch, KeepBatch, SaveBatchFails,
        StopAgent, AdminDown, CollectorClosed, Stopped, AgentVars, PostVars
<1>5. QED BY <1>2, <1>3, <1>4

(* What the handler of a post does to the posts.                           *)
LEMMA PostMoves ==
    ASSUME Types, NEW p \in DOMAIN posts, PostOK(posts[p]),
           AdmitLine(p) \/ SavePost(p) \/ SavePostFails(p) \/ AcceptPost(p) \/ FanOutPanics(p)
    PROVE  /\ DOMAIN posts' = DOMAIN posts /\ Len(posts') = Len(posts)
           /\ \A q \in DOMAIN posts : q # p => posts'[q] = posts[q]
           /\ posts'[p].ids = posts[p].ids /\ PostOK(posts'[p])
           /\ posts[p].at \in {"admit", "count"}
<1>1. PICK q : q = posts[p] OBVIOUS
<1>2. posts \in Seq(Post) /\ q \in Post /\ p \in 1..Len(posts) BY <1>1 DEF Types
<1>3. /\ q.todo \in Seq(Lines) /\ q.keep \in Seq(Scrubbed) /\ q.drop \subseteq LineIds
      /\ q.ids \subseteq LineIds
      /\ q = [at |-> q.at, ids |-> q.ids, todo |-> q.todo, keep |-> q.keep, drop |-> q.drop]
    BY <1>2 DEF Post
<1>4. PostOK(q) BY <1>1
<1>5. ASSUME NEW r, posts' = [posts EXCEPT ![p] = r]
      PROVE  /\ DOMAIN posts' = DOMAIN posts /\ Len(posts') = Len(posts) /\ posts'[p] = r
             /\ \A k \in DOMAIN posts : k # p => posts'[k] = posts[k]
    BY <1>2, <1>5
<1>6. CASE AdmitLine(p)
    <2>1. PICK l, c, todo : l = Head(q.todo) /\ c = counter /\ todo = Tail(q.todo) OBVIOUS
    <2>2. q.at = "admit" /\ q.todo # <<>> BY <1>1, <1>6 DEF AdmitLine
    <2>3. l \in Lines /\ todo \in Seq(Lines) BY <1>3, <2>1, <2>2, RangeFacts
    <2>4. PICK keep, drop :
              /\ keep = IF Admit(l, c) = Kept THEN Append(q.keep, Scrub(l)) ELSE q.keep
              /\ drop = IF Admit(l, c) = Kept THEN q.drop ELSE q.drop \cup {l.id}
        OBVIOUS
    <2>5. PICK r : r = [q EXCEPT !.todo = todo, !.keep = keep, !.drop = drop] OBVIOUS
    <2>6. posts' = [posts EXCEPT ![p] = r]
        BY <1>1, <1>2, <1>3, <1>6, <2>1, <2>4, <2>5 DEF AdmitLine
    <2>7. r.at = "admit" /\ r.ids = q.ids /\ r.todo = todo /\ r.keep = keep /\ r.drop = drop
        BY <1>3, <2>2, <2>5
    <2>8. Ids(q.todo) = {l.id} \cup Ids(todo) /\ Distinct(todo) /\ l.id \notin Ids(todo)
        <3>1. Distinct(q.todo) BY <1>4 DEF PostOK
        <3>2. QED BY <1>3, <2>1, <2>2, <3>1, IdsTail
    <2>9. /\ Distinct(q.keep) /\ l.id \notin Ids(q.keep) /\ l.id \notin q.drop
          /\ Ids(todo) \cap Ids(q.keep) = {} /\ q.drop \cap (Ids(todo) \cup Ids(q.keep)) = {}
          /\ q.ids = {l.id} \cup Ids(todo) \cup Ids(q.keep) \cup q.drop
        BY <1>4, <2>2, <2>8 DEF PostOK
    <2>10. CASE Admit(l, c) = Kept
        <3>1. Scrub(l) \in Scrubbed /\ Scrub(l).id = l.id BY <2>3, ScrubFacts DEF Scrubbed
        <3>2. Ids(keep) = Ids(q.keep) \cup {l.id} /\ Distinct(keep)
            BY <1>3, <2>4, <2>9, <2>10, <3>1, IdsAppend
        <3>3. drop = q.drop BY <2>4, <2>10
        <3>4. PostOK(r) BY <2>7, <2>8, <2>9, <3>2, <3>3 DEF PostOK
        <3>5. QED BY <1>1, <1>5, <2>2, <2>6, <2>7, <3>4
    <2>11. CASE Admit(l, c) # Kept
        <3>1. keep = q.keep /\ drop = q.drop \cup {l.id} BY <2>4, <2>11
        <3>2. PostOK(r) BY <2>7, <2>8, <2>9, <3>1 DEF PostOK
        <3>3. QED BY <1>1, <1>5, <2>2, <2>6, <2>7, <3>2
    <2>12. QED BY <2>10, <2>11
<1>7. CASE SavePostFails(p)
    <2>1. PICK r : r = [q EXCEPT !.at = "refused", !.keep = <<>>] OBVIOUS
    <2>2. posts' = [posts EXCEPT ![p] = r] /\ q.at = "admit" /\ q.todo = <<>>
        BY <1>1, <1>2, <1>3, <1>7, <2>1 DEF SavePostFails
    <2>3. /\ r.at = "refused" /\ r.ids = q.ids /\ r.todo = <<>> /\ r.keep = <<>>
          /\ r.drop = q.drop
        BY <1>3, <2>1, <2>2
    <2>4. q.drop \subseteq q.ids BY <1>4, <2>2 DEF PostOK
    <2>5. PostOK(r) BY <2>3, <2>4, IdsFew DEF PostOK
    <2>6. QED BY <1>1, <1>5, <2>2, <2>3, <2>5
<1>8. CASE SavePost(p) \/ AcceptPost(p) \/ FanOutPanics(p)
    <2>1. q.at \in {"admit", "count"} /\ q.todo = <<>>
        BY <1>1, <1>4, <1>8 DEF SavePost, AcceptPost, FanOutPanics, PostOK
    <2>2. PICK at \in {"count", "accepted", "broken"} : posts' = [posts EXCEPT ![p].at = at]
        BY <1>8 DEF SavePost, AcceptPost, FanOutPanics
    <2>3. PICK r : r = [q EXCEPT !.at = at] OBVIOUS
    <2>4. posts' = [posts EXCEPT ![p] = r] BY <1>1, <1>2, <2>2, <2>3
    <2>5. /\ r.at = at /\ r.ids = q.ids /\ r.todo = <<>> /\ r.keep = q.keep
          /\ r.drop = q.drop
        BY <1>3, <2>1, <2>3
    <2>6. PostOK(r) BY <1>4, <2>1, <2>5 DEF PostOK
    <2>7. QED BY <1>1, <1>5, <2>1, <2>4, <2>5, <2>6
<1>9. QED BY <1>6, <1>7, <1>8

(* In the first state nobody holds a line.                                 *)
LEMMA BatchesInit ==
    Init => Batches
<1>1. SUFFICES ASSUME Init PROVE Batches OBVIOUS
<1>2. /\ sdk.queue = <<>> /\ sdk.batch = <<>> /\ sdk.run = "select" /\ posts = <<>>
    BY <1>1 DEF Init
<1>3. DOMAIN posts = {} BY <1>2
<1>4. QED BY <1>2, <1>3, IdsFew DEF Batches

(* A step that leaves the sink and the posts alone.                        *)
LEMMA BatchesKept ==
    ASSUME Batches, UNCHANGED <<sdk, posts>>, app.written \subseteq app'.written
    PROVE  Batches'
<1>1. SdkIds \subseteq SdkIds' BY DEF SdkIds, SdkLines
<1>2. QED BY <1>1 DEF Batches

(* A line reaches the sink.                                                *)
LEMMA BatchesHandle ==
    ASSUME Types, Fresh, Batches, app.todo # <<>>, Handle(Head(app.todo))
    PROVE  Batches'
<1>1. PICK l, queue : l = Head(app.todo) /\ queue = sdk.queue OBVIOUS
<1>2. l.way = "sdk" /\ app' = Logged(l) /\ UNCHANGED posts BY <1>1 DEF Handle, agentVars
<1>3. /\ l \in Lines /\ app'.written = app.written \cup {l}
      /\ \A m \in app.written : m.id # l.id
    BY <1>1, <1>2, LoggedFresh
<1>4. SdkIds' = SdkIds \cup {l.id} /\ l.id \notin SdkIds BY <1>2, <1>3 DEF SdkIds, SdkLines
<1>5. sdk \in Sink /\ queue \in Seq(Lines) BY <1>1 DEF Types, Sink
<1>6. l.id \notin Ids(queue) /\ l.id \notin Ids(sdk.batch) /\ Distinct(queue)
    BY <1>1, <1>4 DEF Batches
<1>7. Ids(Append(queue, l)) = Ids(queue) \cup {l.id} /\ Distinct(Append(queue, l))
    BY <1>3, <1>5, <1>6, IdsAppend
<1>8. /\ sdk'.batch = sdk.batch /\ sdk'.run = sdk.run
      /\ sdk'.queue = queue \/ sdk'.queue = Append(queue, l)
    <2>1. \/ sdk' = [sdk EXCEPT !.silent = sdk.silent + 1]
          \/ sdk' = [sdk EXCEPT !.dropped = sdk.dropped + 1]
          \/ sdk' = [sdk EXCEPT !.queue = Append(queue, l)]
        BY <1>1, <1>5 DEF Handle, Sink
    <2>2. QED BY <1>1, <1>5, <2>1 DEF Sink
<1>9. Distinct(sdk'.queue) /\ Ids(queue) \subseteq Ids(sdk'.queue)
      /\ Ids(sdk'.queue) \subseteq Ids(queue) \cup {l.id}
    BY <1>6, <1>7, <1>8
<1>10. \A p \in DOMAIN posts : l.id \notin posts[p].ids BY <1>4 DEF Batches
<1>11. QED BY <1>1, <1>2, <1>4, <1>6, <1>8, <1>9, <1>10 DEF Batches

(* The sink makes its queue the batch.                                     *)
LEMMA BatchesWake ==
    ASSUME Types, Batches, NEW stop \in BOOLEAN, SinkWakes(stop)
    PROVE  Batches'
<1>1. sdk \in Sink BY DEF Types
<1>2. /\ sdk.run = "select" /\ sdk'.queue = <<>> /\ sdk'.batch = sdk.queue
      /\ sdk'.run = IF sdk.queue # <<>> THEN "post" ELSE "exited"
      /\ UNCHANGED <<app, posts>>
    BY <1>1 DEF SinkWakes, Sink, agentVars
<1>3. SdkIds' = SdkIds BY <1>2 DEF SdkIds, SdkLines
<1>4. sdk'.run \in {"select", "exited"} => sdk'.batch = <<>> BY <1>2
<1>5. Ids(sdk'.queue) = {} /\ Distinct(sdk'.queue) BY <1>2, IdsFew
<1>6. sdk'.run # "wait" BY <1>2
<1>7. QED BY <1>2, <1>3, <1>4, <1>5, <1>6 DEF Batches

(* The answer, or the lack of one.                                         *)
LEMMA BatchesSettle ==
    ASSUME Types, Batches, NEW field \in {"sent", "failed"}, Settle(field),
           UNCHANGED <<app, posts>>
    PROVE  Batches'
<1>1. sdk \in Sink BY DEF Types
<1>2. /\ sdk'.queue = sdk.queue /\ sdk'.batch = <<>> /\ sdk'.run \in {"select", "exited"}
    BY <1>1 DEF Settle, Sink
<1>3. SdkIds' = SdkIds BY DEF SdkIds, SdkLines
<1>4. Ids(sdk'.batch) = {} /\ Distinct(sdk'.batch) BY <1>2, IdsFew
<1>5. QED BY <1>2, <1>3, <1>4 DEF Batches

(* The batch reaches the agent as a post of its own.                       *)
LEMMA BatchesPost ==
    ASSUME Types, Batches, PostArrives
    PROVE  Batches'
<1>1. /\ sdk \in Sink /\ posts \in Seq(Post) /\ sdk.batch \in Seq(Lines)
    BY DEF Types, Sink
<1>2. PICK at, todo : /\ (at = "refused" /\ todo = <<>>) \/ (at = "admit" /\ todo = sdk.batch)
                      /\ posts' = Append(posts, NewPost(at, todo))
    BY DEF PostArrives
<1>3. PICK q, n : q = NewPost(at, todo) /\ n = Len(posts) OBVIOUS
<1>4. /\ sdk.run = "post" /\ UNCHANGED app
      /\ sdk'.queue = sdk.queue /\ sdk'.batch = sdk.batch /\ sdk'.run = "wait"
    BY <1>1 DEF PostArrives, Sink
<1>5. /\ n \in Nat /\ Len(posts') = n + 1 /\ DOMAIN posts' = 1..(n + 1) /\ DOMAIN posts = 1..n
      /\ posts'[n + 1] = q /\ \A p \in 1..n : posts'[p] = posts[p]
    BY <1>1, <1>2, <1>3
<1>6. /\ q.at = at /\ q.ids = Ids(sdk.batch) /\ q.todo = todo /\ q.keep = <<>> /\ q.drop = {}
    BY <1>3 DEF NewPost
<1>7. PostOK(q) BY <1>2, <1>6, IdsFew DEF PostOK, Batches
<1>8. SdkIds' = SdkIds BY <1>4 DEF SdkIds, SdkLines
<1>9. \A p \in 1..n : /\ posts[p].ids \subseteq SdkIds \ Ids(sdk.queue) /\ PostOK(posts[p])
                      /\ posts[p].ids \cap Ids(sdk.batch) = {}
    BY <1>4, <1>5 DEF Batches
<1>10. q.ids \subseteq SdkIds \ Ids(sdk.queue) BY <1>6 DEF Batches
<1>11. \A p \in DOMAIN posts' : p \in 1..n \/ p = n + 1 BY <1>5
<1>12. \A p \in DOMAIN posts' : posts'[p].ids \subseteq SdkIds \ Ids(sdk.queue) /\ PostOK(posts'[p])
    BY <1>5, <1>7, <1>9, <1>10, <1>11
<1>13. ASSUME NEW p \in DOMAIN posts', NEW r \in DOMAIN posts', p # r
       PROVE  posts'[p].ids \cap posts'[r].ids = {}
    <2>1. CASE p \in 1..n /\ r \in 1..n BY <1>5, <1>13, <2>1 DEF Batches
    <2>2. CASE p \in 1..n /\ r = n + 1 BY <1>5, <1>6, <1>9, <2>2
    <2>3. CASE p = n + 1 /\ r \in 1..n BY <1>5, <1>6, <1>9, <2>3
    <2>4. QED BY <1>11, <1>13, <2>1, <2>2, <2>3
<1>14. Len(posts') # 0 /\ posts'[Len(posts')].ids = Ids(sdk'.batch) BY <1>4, <1>5, <1>6
<1>15. QED BY <1>4, <1>8, <1>12, <1>13, <1>14 DEF Batches

(* The handler of a post goes on.                                          *)
LEMMA BatchesMove ==
    ASSUME Types, Batches, NEW p \in DOMAIN posts,
           AdmitLine(p) \/ SavePost(p) \/ SavePostFails(p) \/ AcceptPost(p) \/ FanOutPanics(p)
    PROVE  Batches'
<1>1. UNCHANGED <<app, sdk>>
    BY DEF AdmitLine, SavePost, SavePostFails, AcceptPost, FanOutPanics, PostVars
<1>2. PostOK(posts[p]) BY DEF Batches
<1>3. /\ DOMAIN posts' = DOMAIN posts /\ Len(posts') = Len(posts)
      /\ \A q \in DOMAIN posts : q # p => posts'[q] = posts[q]
      /\ posts'[p].ids = posts[p].ids /\ PostOK(posts'[p])
    BY <1>2, PostMoves
<1>4. SdkIds' = SdkIds BY <1>1 DEF SdkIds, SdkLines
<1>5. \A q \in DOMAIN posts : posts'[q].ids = posts[q].ids /\ PostOK(posts'[q])
    BY <1>3 DEF Batches
<1>6. sdk.run = "wait" => Len(posts) \in DOMAIN posts BY DEF Types, Batches
<1>7. QED BY <1>1, <1>3, <1>4, <1>5, <1>6 DEF Batches

(* Every step.                                                             *)
LEMMA BatchesStep ==
    Types /\ Fresh /\ Batches /\ [Next]_vars => Batches'
<1>1. SUFFICES ASSUME Types, Fresh, Batches, [Next]_vars PROVE Batches' OBVIOUS
<1>2. CASE UNCHANGED <<app, sdk, posts>> BY <1>1, <1>2, BatchesKept
<1>3. CASE app.todo # <<>> /\ Handle(Head(app.todo)) BY <1>1, <1>3, BatchesHandle
<1>4. CASE app.todo # <<>> /\ Write(Head(app.todo))
    <2>1. app.written \subseteq app'.written BY <1>1, <1>4, LoggedFresh DEF Write
    <2>2. UNCHANGED <<sdk, posts>> BY <1>4 DEF Write, ColVars
    <2>3. QED BY <1>1, <2>1, <2>2, BatchesKept
<1>5. CASE CloseSink
    <2>1. sdk \in Sink BY <1>1 DEF Types
    <2>2. /\ sdk'.queue = sdk.queue /\ sdk'.batch = sdk.batch /\ sdk'.run = sdk.run
          /\ UNCHANGED <<app, posts>>
        BY <1>5, <2>1 DEF CloseSink, Sink, agentVars
    <2>3. SdkIds' = SdkIds BY <2>2 DEF SdkIds, SdkLines
    <2>4. QED BY <1>1, <2>2, <2>3 DEF Batches
<1>6. CASE \E stop \in BOOLEAN : SinkWakes(stop) BY <1>1, <1>6, BatchesWake
<1>7. CASE PostArrives BY <1>1, <1>7, BatchesPost
<1>8. CASE AnswerArrives \/ AnswerLost
    <2>1. PICK field \in {"sent", "failed"} : Settle(field)
        BY <1>8 DEF AnswerArrives, AnswerLost
    <2>2. UNCHANGED <<app, posts>> BY <1>8 DEF AnswerArrives, AnswerLost, agentVars
    <2>3. QED BY <1>1, <2>1, <2>2, BatchesSettle
<1>9. CASE \E p \in DOMAIN posts : AdmitLine(p) \/ SavePost(p) \/ SavePostFails(p)
                                   \/ AcceptPost(p) \/ FanOutPanics(p)
    BY <1>1, <1>9, BatchesMove
<1>10. CASE \/ \E stop \in BOOLEAN : FlusherWakes(stop)
            \/ ChildExits \/ (\E s \in Sources : Submit(s) \/ QueueLine(s))
            \/ SaveBatch \/ KeepBatch \/ SaveBatchFails
    BY <1>2, <1>10
    DEF FlusherWakes, ChildExits, Submit, QueueLine, SaveBatch, KeepBatch, SaveBatchFails, ColVars
<1>11. CASE StopAgent \/ AdminDown \/ CollectorClosed \/ Stopped
    BY <1>2, <1>11 DEF StopAgent, AdminDown, CollectorClosed, Stopped, AgentVars
<1>12. CASE UNCHANGED vars BY <1>2, <1>12 DEF vars
<1>13. CASE Next
    <2>1. CASE \/ app.todo # <<>> /\ (Handle(Head(app.todo)) \/ Write(Head(app.todo)))
               \/ CloseSink
               \/ \E stop \in BOOLEAN : SinkWakes(stop) \/ FlusherWakes(stop)
        BY <1>3, <1>4, <1>5, <1>6, <1>10, <2>1
    <2>2. CASE \/ PostArrives \/ AnswerArrives \/ AnswerLost
               \/ \E p \in DOMAIN posts : AdmitLine(p) \/ SavePost(p) \/ SavePostFails(p)
                                          \/ AcceptPost(p) \/ FanOutPanics(p)
        BY <1>7, <1>8, <1>9, <2>2
    <2>3. CASE \/ ChildExits \/ (\E s \in Sources : Submit(s) \/ QueueLine(s))
               \/ SaveBatch \/ KeepBatch \/ SaveBatchFails
        BY <1>10, <2>3
    <2>4. CASE StopAgent \/ AdminDown \/ CollectorClosed \/ Stopped BY <1>11, <2>4
    <2>5. QED BY <1>13, <2>1, <2>2, <2>3, <2>4 DEF Next
<1>14. QED BY <1>1, <1>12, <1>13
-----------------------------------------------------------------------------
(* What the client's counters say                                          *)

(* Every line given to the sink, and what became of it.                    *)
Tally == sdk.sent + sdk.failed + sdk.dropped + sdk.silent + Len(sdk.queue) + Len(sdk.batch)
             = Cardinality(SdkLines)

(* A sink that flushes for the last time is closed and has nothing queued. *)
Ended == sdk.last = TRUE \/ sdk.run = "exited" => sdk.closed = TRUE /\ sdk.queue = <<>>

(* The accepted posts, but for the one whose answer is on its way.         *)
Answered == {p \in DOMAIN posts : posts[p].at = "accepted" /\ (sdk.run = "wait" => p # Len(posts))}
Delivered == UNION {posts[p].ids : p \in Answered}
Reported == sdk.sent <= Cardinality(Delivered)

SinkInv == Fresh /\ Batches /\ Tally /\ Ended /\ Reported

(* The ids of finitely many lines.                                         *)
LEMMA IdsFinite ==
    ASSUME NEW W, IsFiniteSet(W)
    PROVE  IsFiniteSet({l.id : l \in W})
<1>1. PICK f : f = [l \in W |-> l.id] OBVIOUS
<1>2. {l.id : l \in W} = {f[l] : l \in W} BY <1>1
<1>3. f \in Surjection(W, {f[l] : l \in W}) BY <1>1 DEF Surjection
<1>4. QED BY <1>2, <1>3, FS_Surjection

(* What is delivered is finite, before a step and after it.                *)
LEMMA DeliveredFinite ==
    ASSUME Fresh, Batches
    PROVE  IsFiniteSet(Delivered) /\ IsFiniteSet(SdkLines)
<1>1. IsFiniteSet(SdkLines)
    <2>1. SdkLines \subseteq app.written BY DEF SdkLines
    <2>2. QED BY <2>1, FS_Subset DEF Fresh
<1>2. IsFiniteSet(SdkIds) BY <1>1, IdsFinite DEF SdkIds
<1>3. Delivered \subseteq SdkIds BY DEF Delivered, Answered, Batches
<1>4. QED BY <1>1, <1>2, <1>3, FS_Subset

(* The same in the next state.                                             *)
LEMMA DeliveredFiniteNext ==
    ASSUME Fresh', Batches'
    PROVE  IsFiniteSet(Delivered')
<1>1. IsFiniteSet(SdkLines')
    <2>1. SdkLines' \subseteq app'.written BY DEF SdkLines
    <2>2. IsFiniteSet(app'.written) BY DEF Fresh
    <2>3. QED BY <2>1, <2>2, FS_Subset
<1>2. IsFiniteSet(SdkIds')
    <2>1. SdkIds' = {l.id : l \in SdkLines'} BY DEF SdkIds
    <2>2. QED BY <1>1, <2>1, IdsFinite
<1>3. Delivered' \subseteq SdkIds' BY DEF Delivered, Answered, Batches
<1>4. QED BY <1>2, <1>3, FS_Subset

(* What was delivered stays delivered.                                     *)
LEMMA ReportedKept ==
    ASSUME Types, Types', Reported, Delivered \subseteq Delivered', Fresh', Batches',
           sdk'.sent = sdk.sent
    PROVE  Reported'
<1>1. PICK d, e : d = Delivered /\ e = Delivered' OBVIOUS
<1>2. IsFiniteSet(e) BY <1>1, DeliveredFiniteNext
<1>3. IsFiniteSet(d) /\ Cardinality(d) <= Cardinality(e) BY <1>1, <1>2, FS_Subset
<1>4. Cardinality(d) \in Nat /\ Cardinality(e) \in Nat BY <1>2, <1>3, FS_CardinalityType
<1>5. sdk.sent \in Nat BY DEF Types, Sink
<1>6. sdk.sent <= Cardinality(d) BY <1>1 DEF Reported
<1>7. sdk'.sent <= Cardinality(e) BY <1>3, <1>4, <1>5, <1>6
<1>8. QED BY <1>1, <1>7 DEF Reported

(* The first state.                                                        *)
LEMMA SinkInit ==
    Init => Tally /\ Ended /\ Reported
<1>1. SUFFICES ASSUME Init PROVE Tally /\ Ended /\ Reported OBVIOUS
<1>2. /\ sdk.queue = <<>> /\ sdk.batch = <<>> /\ sdk.run = "select" /\ sdk.last = FALSE
      /\ sdk.sent = 0 /\ sdk.failed = 0 /\ sdk.dropped = 0 /\ sdk.silent = 0
      /\ posts = <<>> /\ app.written = {}
    BY <1>1 DEF Init
<1>3. SdkLines = {} BY <1>2 DEF SdkLines
<1>4. Tally BY <1>2, <1>3, FS_EmptySet DEF Tally
<1>5. Ended BY <1>2 DEF Ended
<1>6. Delivered = {} BY <1>2 DEF Delivered, Answered
<1>7. Reported BY <1>2, <1>6, FS_EmptySet DEF Reported
<1>8. QED BY <1>4, <1>5, <1>7

(* A line that the sink takes, drops, or ignores because it is closed.     *)
LEMMA CountsHandle ==
    ASSUME Types, Types', SinkInv, Fresh', Batches', app.todo # <<>>, Handle(Head(app.todo))
    PROVE  Tally' /\ Ended' /\ Reported'
<1>1. PICK l, n : l = Head(app.todo) /\ n = Cardinality(SdkLines) OBVIOUS
<1>2. l.way = "sdk" /\ app' = Logged(l) /\ UNCHANGED posts BY <1>1 DEF Handle, agentVars
<1>3. l \in Lines /\ app'.written = app.written \cup {l} /\ l \notin app.written
    BY <1>1, <1>2, LoggedFresh DEF SinkInv
<1>4. SdkLines' = SdkLines \cup {l} /\ l \notin SdkLines BY <1>2, <1>3 DEF SdkLines
<1>5. IsFiniteSet(SdkLines) BY DeliveredFinite DEF SinkInv
<1>6. n \in Nat /\ Cardinality(SdkLines') = n + 1
    BY <1>1, <1>4, <1>5, FS_AddElement, FS_CardinalityType
<1>7. sdk \in Sink BY DEF Types
<1>8. /\ sdk.queue \in Seq(Lines) /\ sdk.batch \in Seq(Lines) /\ sdk.sent \in Nat
      /\ sdk.failed \in Nat /\ sdk.dropped \in Nat /\ sdk.silent \in Nat
      /\ Len(sdk.queue) \in Nat /\ Len(sdk.batch) \in Nat
    <2>1. sdk.queue \in Seq(Lines) /\ sdk.batch \in Seq(Lines) BY <1>7 DEF Sink
    <2>2. QED BY <1>7, <2>1 DEF Sink
<1>9. /\ sdk'.batch = sdk.batch /\ sdk'.run = sdk.run /\ sdk'.last = sdk.last
      /\ sdk'.sent = sdk.sent /\ sdk'.failed = sdk.failed /\ sdk'.closed = sdk.closed
      /\ \/ /\ sdk'.silent = sdk.silent + 1 /\ sdk'.dropped = sdk.dropped
            /\ sdk'.queue = sdk.queue
         \/ /\ sdk'.silent = sdk.silent /\ sdk'.dropped = sdk.dropped + 1
            /\ sdk'.queue = sdk.queue
         \/ /\ sdk'.silent = sdk.silent /\ sdk'.dropped = sdk.dropped
            /\ sdk'.queue = Append(sdk.queue, l) /\ sdk.closed = FALSE
    <2>1. \/ sdk' = [sdk EXCEPT !.silent = sdk.silent + 1]
          \/ sdk' = [sdk EXCEPT !.dropped = sdk.dropped + 1]
          \/ sdk' = [sdk EXCEPT !.queue = Append(sdk.queue, l)] /\ sdk.closed = FALSE
        BY <1>1, <1>7 DEF Handle, Sink
    <2>2. CASE sdk' = [sdk EXCEPT !.silent = sdk.silent + 1] BY <1>7, <2>2 DEF Sink
    <2>3. CASE sdk' = [sdk EXCEPT !.dropped = sdk.dropped + 1] BY <1>7, <2>3 DEF Sink
    <2>4. CASE sdk' = [sdk EXCEPT !.queue = Append(sdk.queue, l)] /\ sdk.closed = FALSE
        BY <1>7, <2>4 DEF Sink
    <2>5. QED BY <2>1, <2>2, <2>3, <2>4
<1>10. Len(Append(sdk.queue, l)) = Len(sdk.queue) + 1 BY <1>3, <1>8, AppendProperties
<1>11. PICK a, b, c, d, q, m :
           /\ a = sdk.sent /\ b = sdk.failed /\ c = sdk.dropped /\ d = sdk.silent
           /\ q = Len(sdk.queue) /\ m = Len(sdk.batch)
    OBVIOUS
<1>12. sdk'.sent + sdk'.failed + sdk'.dropped + sdk'.silent + Len(sdk'.queue) + Len(sdk'.batch)
           = n + 1
    <2>0. /\ {a, b, c, d, q, m} \subseteq Nat /\ a + b + c + d + q + m = n
          /\ sdk'.sent = a /\ sdk'.failed = b /\ Len(sdk'.batch) = m
        BY <1>1, <1>8, <1>9, <1>11 DEF SinkInv, Tally
    <2>1. CASE sdk'.silent = d + 1 /\ sdk'.dropped = c /\ Len(sdk'.queue) = q
        <3>1. a + b + c + (d + 1) + q + m = n + 1 BY <2>0
        <3>2. QED BY <2>0, <2>1, <3>1
    <2>2. CASE sdk'.silent = d /\ sdk'.dropped = c + 1 /\ Len(sdk'.queue) = q
        <3>1. a + b + (c + 1) + d + q + m = n + 1 BY <2>0
        <3>2. QED BY <2>0, <2>2, <3>1
    <2>3. CASE sdk'.silent = d /\ sdk'.dropped = c /\ Len(sdk'.queue) = q + 1
        <3>1. a + b + c + d + (q + 1) + m = n + 1 BY <2>0
        <3>2. QED BY <2>0, <2>3, <3>1
    <2>4. QED BY <1>9, <1>10, <1>11, <2>1, <2>2, <2>3
<1>13. Tally' BY <1>6, <1>12 DEF Tally
<1>14. Ended' BY <1>9 DEF SinkInv, Ended
<1>15. Delivered' = Delivered BY <1>2, <1>9 DEF Delivered, Answered
<1>16. Reported' BY <1>9, <1>15, ReportedKept DEF SinkInv
<1>17. QED BY <1>13, <1>14, <1>16

(* The queue becomes the batch; the last time it stays empty behind it.    *)
LEMMA CountsWake ==
    ASSUME Types, Types', SinkInv, Fresh', Batches', NEW stop \in BOOLEAN, SinkWakes(stop)
    PROVE  Tally' /\ Ended' /\ Reported'
<1>1. sdk \in Sink BY DEF Types
<1>2. /\ sdk.run = "select" /\ sdk'.queue = <<>> /\ sdk'.batch = sdk.queue /\ sdk'.last = stop
      /\ sdk'.run = IF sdk.queue # <<>> THEN "post" ELSE "exited"
      /\ sdk'.sent = sdk.sent /\ sdk'.failed = sdk.failed /\ sdk'.closed = sdk.closed
      /\ sdk'.dropped = sdk.dropped /\ sdk'.silent = sdk.silent
      /\ UNCHANGED <<app, posts>>
    BY <1>1 DEF SinkWakes, Sink, agentVars
<1>3. sdk.batch = <<>> BY <1>2 DEF SinkInv, Batches
<1>4. SdkLines' = SdkLines BY <1>2 DEF SdkLines
<1>5. Tally'
    <2>1. sdk.queue \in Seq(Lines) BY <1>1 DEF Sink
    <2>2. /\ Len(sdk.queue) \in Nat /\ Len(<<>>) = 0 /\ sdk.sent \in Nat
          /\ sdk.failed \in Nat /\ sdk.dropped \in Nat /\ sdk.silent \in Nat
        BY <1>1, <2>1 DEF Sink
    <2>3. PICK n : n = Cardinality(SdkLines) OBVIOUS
    <2>4. sdk.sent + sdk.failed + sdk.dropped + sdk.silent + Len(sdk.queue) + Len(sdk.batch) = n
        BY <2>3 DEF SinkInv, Tally
    <2>5. sdk'.sent + sdk'.failed + sdk'.dropped + sdk'.silent + Len(sdk'.queue)
              + Len(sdk'.batch) = n
        BY <1>2, <1>3, <2>2, <2>4
    <2>6. QED BY <1>4, <2>3, <2>5 DEF Tally
<1>6. Ended'
    <2>1. stop = TRUE => sdk.closed = TRUE BY <1>1 DEF SinkWakes, Sink
    <2>2. stop = FALSE => sdk'.run = "post" BY <1>2 DEF SinkWakes
    <2>3. QED BY <1>2, <2>1, <2>2 DEF Ended
<1>7. Delivered' = Delivered BY <1>2 DEF Delivered, Answered
<1>8. Reported' BY <1>2, <1>7, ReportedKept DEF SinkInv
<1>9. QED BY <1>5, <1>6, <1>8

(* The batch is counted as sent or as failed.                              *)
LEMMA CountsSettle ==
    ASSUME Types, SinkInv, NEW field \in {"sent", "failed"}, Settle(field), UNCHANGED <<app, posts>>
    PROVE  /\ Tally' /\ Ended'
           /\ sdk'.sent = IF field = "sent" THEN sdk.sent + Len(sdk.batch) ELSE sdk.sent
           /\ sdk'.run \in {"select", "exited"}
<1>1. sdk \in Sink BY DEF Types
<1>2. PICK n : n = sdk[field] + Len(sdk.batch) OBVIOUS
<1>3. sdk' = [sdk EXCEPT ![field] = n, !.batch = <<>>,
                         !.run = IF sdk.last THEN "exited" ELSE "select"]
    BY <1>2 DEF Settle
<1>4. /\ sdk'.queue = sdk.queue /\ sdk'.batch = <<>> /\ sdk'.last = sdk.last
      /\ sdk'.run = (IF sdk.last THEN "exited" ELSE "select")
      /\ sdk'.dropped = sdk.dropped /\ sdk'.silent = sdk.silent /\ sdk'.closed = sdk.closed
    BY <1>1, <1>3 DEF Sink
<1>5. /\ field = "sent" => sdk'.sent = n /\ sdk'.failed = sdk.failed
      /\ field = "failed" => sdk'.failed = n /\ sdk'.sent = sdk.sent
    <2>1. CASE field = "sent" BY <1>1, <1>3, <2>1 DEF Sink
    <2>2. CASE field = "failed" BY <1>1, <1>3, <2>2 DEF Sink
    <2>3. QED BY <2>1, <2>2
<1>6. SdkLines' = SdkLines BY DEF SdkLines
<1>7. Tally'
    <2>1. sdk.queue \in Seq(Lines) /\ sdk.batch \in Seq(Lines) BY <1>1 DEF Sink
    <2>2. /\ Len(sdk.queue) \in Nat /\ Len(sdk.batch) \in Nat /\ Len(<<>>) = 0
          /\ sdk.sent \in Nat /\ sdk.failed \in Nat /\ sdk.dropped \in Nat /\ sdk.silent \in Nat
        BY <1>1, <2>1 DEF Sink
    <2>3. PICK a, b, c, d, q, m, t :
              /\ a = sdk.sent /\ b = sdk.failed /\ c = sdk.dropped /\ d = sdk.silent
              /\ q = Len(sdk.queue) /\ m = Len(sdk.batch) /\ t = Cardinality(SdkLines)
        OBVIOUS
    <2>4. {a, b, c, d, q, m} \subseteq Nat /\ a + b + c + d + q + m = t
        BY <2>2, <2>3 DEF SinkInv, Tally
    <2>5. sdk'.sent + sdk'.failed + sdk'.dropped + sdk'.silent + Len(sdk'.queue)
              + Len(sdk'.batch) = t
        <3>1. /\ sdk'.dropped = c /\ sdk'.silent = d /\ Len(sdk'.queue) = q
              /\ Len(sdk'.batch) = 0
            BY <1>4, <2>2, <2>3
        <3>2. CASE field = "sent"
            <4>1. sdk'.sent = a + m /\ sdk'.failed = b BY <1>2, <1>5, <2>3, <3>2
            <4>2. (a + m) + b + c + d + q + 0 = t BY <2>4
            <4>3. QED BY <3>1, <4>1, <4>2
        <3>3. CASE field = "failed"
            <4>1. sdk'.failed = b + m /\ sdk'.sent = a BY <1>2, <1>5, <2>3, <3>3
            <4>2. a + (b + m) + c + d + q + 0 = t BY <2>4
            <4>3. QED BY <3>1, <4>1, <4>2
        <3>4. QED BY <3>2, <3>3
    <2>6. QED BY <1>6, <2>3, <2>5 DEF Tally
<1>8. Ended'
    <2>1. sdk'.run = "exited" => sdk.last = TRUE BY <1>1, <1>4 DEF Sink
    <2>2. QED BY <1>4, <2>1 DEF SinkInv, Ended
<1>9. QED BY <1>2, <1>4, <1>5, <1>7, <1>8

(* An answer that says the post was accepted adds its lines.               *)
LEMMA CountsAnswer ==
    ASSUME Types, Types', SinkInv, Fresh', Batches', AnswerArrives \/ AnswerLost
    PROVE  Tally' /\ Ended' /\ Reported'
<1>1. UNCHANGED <<app, posts>> BY DEF AnswerArrives, AnswerLost, agentVars
<1>2. PICK field \in {"sent", "failed"} :
          /\ Settle(field)
          /\ field = "sent" => sdk.run = "wait" /\ Last(posts).at = "accepted"
    BY DEF AnswerArrives, AnswerLost
<1>3. /\ Tally' /\ Ended' /\ sdk'.run \in {"select", "exited"}
      /\ sdk'.sent = IF field = "sent" THEN sdk.sent + Len(sdk.batch) ELSE sdk.sent
    BY <1>1, <1>2, CountsSettle
<1>4. sdk'.run # "wait" BY <1>3
<1>5. Answered \subseteq Answered' BY <1>1, <1>4 DEF Answered
<1>6. Delivered \subseteq Delivered' BY <1>1, <1>5 DEF Delivered
<1>7. CASE field = "failed"
    <2>1. sdk'.sent = sdk.sent BY <1>3, <1>7
    <2>2. QED BY <1>3, <1>6, <2>1, ReportedKept DEF SinkInv
<1>8. CASE field = "sent"
    <2>1. PICK n : n = Len(posts) OBVIOUS
    <2>2. n \in Nat \ {0} /\ DOMAIN posts = 1..n /\ posts[n].ids = Ids(sdk.batch)
        BY <1>2, <1>8, <2>1 DEF Types, SinkInv, Batches
    <2>3. n \in DOMAIN posts /\ posts[n].at = "accepted" BY <1>2, <1>8, <2>1, <2>2 DEF Last
    <2>4. n \in Answered' BY <1>1, <1>4, <2>3 DEF Answered
    <2>5. n \notin Answered BY <1>2, <1>8, <2>1 DEF Answered
    <2>6. Ids(sdk.batch) \subseteq Delivered' BY <1>1, <2>2, <2>4 DEF Delivered
    <2>7. Ids(sdk.batch) \cap Delivered = {}
        <3>1. ASSUME NEW p \in Answered PROVE posts[p].ids \cap Ids(sdk.batch) = {}
            <4>1. p \in DOMAIN posts /\ p # n BY <2>5 DEF Answered
            <4>2. QED BY <2>2, <2>3, <4>1 DEF SinkInv, Batches
        <3>2. QED BY <3>1 DEF Delivered
    <2>8. PICK d, e, b : d = Delivered /\ e = Delivered' /\ b = Ids(sdk.batch) OBVIOUS
    <2>9. sdk.batch \in Seq(Lines) /\ Distinct(sdk.batch) /\ sdk.sent \in Nat
        BY DEF Types, Sink, SinkInv, Batches
    <2>10. IsFiniteSet(b) /\ Cardinality(b) = Len(sdk.batch) BY <2>8, <2>9, IdsCount
    <2>11. IsFiniteSet(d) /\ IsFiniteSet(e)
        BY <2>8, DeliveredFinite, DeliveredFiniteNext DEF SinkInv
    <2>12. d \cup b \subseteq e /\ d \cap b = {} BY <1>6, <2>6, <2>7, <2>8
    <2>13. Cardinality(d \cup b) = Cardinality(d) + Cardinality(b)
        BY <2>10, <2>11, <2>12, DisjointUnion
    <2>14. Cardinality(d \cup b) <= Cardinality(e) BY <2>11, <2>12, FS_Subset
    <2>15. Cardinality(d) \in Nat /\ Cardinality(e) \in Nat /\ Cardinality(b) \in Nat
        BY <2>10, <2>11, FS_CardinalityType
    <2>16. sdk.sent <= Cardinality(d) BY <2>8 DEF SinkInv, Reported
    <2>17. sdk'.sent = sdk.sent + Cardinality(b) BY <1>3, <1>8, <2>10
    <2>18. sdk'.sent <= Cardinality(e)
        BY <2>9, <2>13, <2>14, <2>15, <2>16, <2>17
    <2>19. QED BY <1>3, <2>8, <2>18 DEF Reported
<1>9. QED BY <1>7, <1>8

(* A post, and what its handler does.                                      *)
LEMMA CountsPost ==
    ASSUME Types, Types', SinkInv, Fresh', Batches',
           \/ PostArrives
           \/ \E p \in DOMAIN posts : AdmitLine(p) \/ SavePost(p) \/ SavePostFails(p)
                                      \/ AcceptPost(p) \/ FanOutPanics(p)
    PROVE  Tally' /\ Ended' /\ Reported'
<1>1. sdk \in Sink /\ posts \in Seq(Post) BY DEF Types
<1>2. CASE PostArrives
    <2>1. PICK q : posts' = Append(posts, q) BY <1>2 DEF PostArrives
    <2>2. /\ sdk.run = "post" /\ sdk' = [sdk EXCEPT !.run = "wait"] /\ UNCHANGED app
        BY <1>2 DEF PostArrives
    <2>3. /\ sdk'.run = "wait" /\ sdk'.queue = sdk.queue /\ sdk'.batch = sdk.batch
          /\ sdk'.last = sdk.last /\ sdk'.closed = sdk.closed /\ sdk'.sent = sdk.sent
          /\ sdk'.failed = sdk.failed /\ sdk'.dropped = sdk.dropped /\ sdk'.silent = sdk.silent
        BY <1>1, <2>2 DEF Sink
    <2>4. SdkLines' = SdkLines BY <2>2 DEF SdkLines
    <2>5. Tally' BY <2>3, <2>4 DEF SinkInv, Tally
    <2>6. Ended' BY <2>3 DEF SinkInv, Ended
    <2>7. PICK n : n = Len(posts) OBVIOUS
    <2>8. /\ n \in Nat /\ Len(posts') = n + 1 /\ DOMAIN posts' = 1..(n + 1)
          /\ DOMAIN posts = 1..n /\ \A p \in 1..n : posts'[p] = posts[p]
        BY <1>1, <2>1, <2>7
    <2>9. ASSUME NEW p \in Answered PROVE p \in Answered' /\ posts'[p].ids = posts[p].ids
        <3>1. p \in 1..n /\ posts[p].at = "accepted" BY <2>8 DEF Answered
        <3>2. p \in DOMAIN posts' /\ p # Len(posts') /\ posts'[p] = posts[p] BY <2>8, <3>1
        <3>3. QED BY <3>1, <3>2 DEF Answered
    <2>10. Delivered \subseteq Delivered' BY <2>9 DEF Delivered
    <2>11. QED BY <2>3, <2>5, <2>6, <2>10, ReportedKept DEF SinkInv
<1>3. ASSUME NEW p \in DOMAIN posts,
             AdmitLine(p) \/ SavePost(p) \/ SavePostFails(p) \/ AcceptPost(p) \/ FanOutPanics(p)
      PROVE  Tally' /\ Ended' /\ Reported'
    <2>1. UNCHANGED <<app, sdk>>
        BY <1>3 DEF AdmitLine, SavePost, SavePostFails, AcceptPost, FanOutPanics, PostVars
    <2>2. PostOK(posts[p]) BY DEF SinkInv, Batches
    <2>3. /\ DOMAIN posts' = DOMAIN posts /\ Len(posts') = Len(posts)
          /\ \A q \in DOMAIN posts : q # p => posts'[q] = posts[q]
          /\ posts'[p].ids = posts[p].ids /\ posts[p].at \in {"admit", "count"}
        BY <1>3, <2>2, PostMoves
    <2>4. \A q \in Answered : q \in Answered' /\ posts'[q].ids = posts[q].ids
        BY <2>1, <2>3 DEF Answered
    <2>5. Delivered \subseteq Delivered' BY <2>4 DEF Delivered
    <2>6. Tally' /\ Ended' BY <2>1 DEF SinkInv, Tally, Ended, SdkLines
    <2>7. QED BY <2>1, <2>5, <2>6, ReportedKept DEF SinkInv
<1>4. QED BY <1>2, <1>3

(* A step that leaves the sink and the posts alone, and writes no line for *)
(* the SDK.                                                                *)
LEMMA CountsKept ==
    ASSUME Types, Types', SinkInv, Fresh', Batches', UNCHANGED <<sdk, posts>>,
           SdkLines' = SdkLines
    PROVE  Tally' /\ Ended' /\ Reported'
<1>1. Tally' /\ Ended' BY DEF SinkInv, Tally, Ended
<1>2. Delivered' = Delivered BY DEF Delivered, Answered
<1>3. QED BY <1>1, <1>2, ReportedKept DEF SinkInv

(* Every step.                                                             *)
LEMMA SinkStep ==
    Types /\ Types' /\ SinkInv /\ [Next]_vars => SinkInv'
<1>1. SUFFICES ASSUME Types, Types', SinkInv, [Next]_vars PROVE SinkInv' OBVIOUS
<1>2. Fresh' /\ Batches' BY <1>1, FreshStep, BatchesStep DEF SinkInv
<1>3. SUFFICES Tally' /\ Ended' /\ Reported' BY <1>2 DEF SinkInv
<1>4. CASE UNCHANGED <<app, sdk, posts>>
    <2>1. SdkLines' = SdkLines BY <1>4 DEF SdkLines
    <2>2. QED BY <1>1, <1>2, <1>4, <2>1, CountsKept
<1>5. CASE app.todo # <<>> /\ Write(Head(app.todo))
    <2>1. PICK l : l = Head(app.todo) OBVIOUS
    <2>2. /\ l.way \in Sources /\ app' = Logged(l) /\ UNCHANGED <<sdk, posts>>
        BY <1>5, <2>1 DEF Write, ColVars
    <2>3. app'.written = app.written \cup {l} BY <1>1, <1>5, <2>1, <2>2, LoggedFresh DEF SinkInv
    <2>4. l.way # "sdk" BY <2>2, PipelineAssumption
    <2>5. SdkLines' = SdkLines BY <2>3, <2>4 DEF SdkLines
    <2>6. QED BY <1>1, <1>2, <2>2, <2>5, CountsKept
<1>6. CASE CloseSink
    <2>1. sdk \in Sink BY <1>1 DEF Types
    <2>2. /\ sdk'.run = sdk.run /\ sdk'.queue = sdk.queue /\ sdk'.batch = sdk.batch
          /\ sdk'.last = sdk.last /\ sdk'.closed = TRUE /\ sdk'.sent = sdk.sent
          /\ sdk'.failed = sdk.failed /\ sdk'.dropped = sdk.dropped /\ sdk'.silent = sdk.silent
          /\ UNCHANGED <<app, posts>>
        BY <1>6, <2>1 DEF CloseSink, Sink, agentVars
    <2>3. SdkLines' = SdkLines /\ Delivered' = Delivered
        BY <2>2 DEF SdkLines, Delivered, Answered
    <2>4. Tally' /\ Ended' BY <1>1, <2>2, <2>3 DEF SinkInv, Tally, Ended
    <2>5. QED BY <1>1, <1>2, <2>2, <2>3, <2>4, ReportedKept DEF SinkInv
<1>7. CASE app.todo # <<>> /\ Handle(Head(app.todo)) BY <1>1, <1>2, <1>7, CountsHandle
<1>8. CASE \E stop \in BOOLEAN : SinkWakes(stop) BY <1>1, <1>2, <1>8, CountsWake
<1>9. CASE AnswerArrives \/ AnswerLost BY <1>1, <1>2, <1>9, CountsAnswer
<1>10. CASE \/ PostArrives
            \/ \E p \in DOMAIN posts : AdmitLine(p) \/ SavePost(p) \/ SavePostFails(p)
                                       \/ AcceptPost(p) \/ FanOutPanics(p)
    BY <1>1, <1>2, <1>10, CountsPost
<1>11. CASE \/ \E stop \in BOOLEAN : FlusherWakes(stop)
            \/ ChildExits \/ (\E s \in Sources : Submit(s) \/ QueueLine(s))
            \/ SaveBatch \/ KeepBatch \/ SaveBatchFails
    BY <1>4, <1>11
    DEF FlusherWakes, ChildExits, Submit, QueueLine, SaveBatch, KeepBatch, SaveBatchFails, ColVars
<1>12. CASE StopAgent \/ AdminDown \/ CollectorClosed \/ Stopped
    BY <1>4, <1>12 DEF StopAgent, AdminDown, CollectorClosed, Stopped, AgentVars
<1>13. CASE UNCHANGED vars BY <1>4, <1>13 DEF vars
<1>14. CASE Next
    <2>1. CASE \/ app.todo # <<>> /\ (Handle(Head(app.todo)) \/ Write(Head(app.todo)))
               \/ CloseSink
               \/ \E stop \in BOOLEAN : SinkWakes(stop) \/ FlusherWakes(stop)
        BY <1>5, <1>6, <1>7, <1>8, <1>11, <2>1
    <2>2. CASE \/ PostArrives \/ AnswerArrives \/ AnswerLost
               \/ \E p \in DOMAIN posts : AdmitLine(p) \/ SavePost(p) \/ SavePostFails(p)
                                          \/ AcceptPost(p) \/ FanOutPanics(p)
        BY <1>9, <1>10, <2>2
    <2>3. CASE \/ ChildExits \/ (\E s \in Sources : Submit(s) \/ QueueLine(s))
               \/ SaveBatch \/ KeepBatch \/ SaveBatchFails
        BY <1>11, <2>3
    <2>4. CASE StopAgent \/ AdminDown \/ CollectorClosed \/ Stopped BY <1>12, <2>4
    <2>5. QED BY <1>14, <2>1, <2>2, <2>3, <2>4 DEF Next
<1>15. QED BY <1>1, <1>13, <1>14

(* The invariant of the second theorem.                                    *)
LEMMA SinkInvHolds ==
    Spec => []SinkInv
<1>1. Init => SinkInv BY FreshInit, BatchesInit, SinkInit DEF SinkInv
<1>2. Types /\ Types' /\ SinkInv /\ [Next]_vars => SinkInv' BY SinkStep
<1>3. IInv => Types BY DEF IInv
<1>4. QED BY <1>1, <1>2, <1>3, InvHolds, PTL DEF Spec

(* The client's counters are honest, whatever the network, the agent and   *)
(* the shutdown do: every line given to the sink is counted once, an ended *)
(* worker left nothing queued, and what it reports as sent was stored or   *)
(* dropped under a counted reason (applog.go logSink).                     *)
THEOREM SinkCorrect ==
    Spec => []SinkHonest
<1>1. ASSUME IInv, SinkInv PROVE SinkHonest
    <2>1. PICK accepted : accepted = {p \in Range(posts) : p.at = "accepted"} OBVIOUS
    <2>2. sdk.sent + sdk.failed + sdk.dropped + sdk.silent + Len(sdk.queue) + Len(sdk.batch)
              = Cardinality({l \in app.written : l.way = "sdk"})
        BY <1>1 DEF SinkInv, Tally, SdkLines
    <2>3. sdk.run = "exited" => sdk.queue = <<>> BY <1>1 DEF SinkInv, Ended
    <2>4. \A q \in accepted : Range(q.keep) \subseteq Range(store)
        BY <1>1, <2>1 DEF IInv, Exports, Range
    <2>5. PICK all : all = UNION {Ids(q.keep) \cup q.drop : q \in accepted} OBVIOUS
    <2>6. ASSUME NEW p \in DOMAIN posts, posts[p].at = "accepted"
          PROVE  posts[p] \in accepted /\ posts[p].ids = Ids(posts[p].keep) \cup posts[p].drop
        <3>1. posts[p] \in accepted BY <2>1, <2>6 DEF Range
        <3>2. PostOK(posts[p]) BY <1>1 DEF SinkInv, Batches
        <3>3. QED BY <2>6, <3>1, <3>2, IdsFew DEF PostOK
    <2>7. Delivered \subseteq all BY <2>5, <2>6 DEF Delivered, Answered
    <2>8. IsFiniteSet(all)
        <3>1. IsFiniteSet(SdkLines) BY <1>1, DeliveredFinite DEF SinkInv
        <3>2. IsFiniteSet(SdkIds) BY <3>1, IdsFinite DEF SdkIds
        <3>3. ASSUME NEW q \in accepted PROVE Ids(q.keep) \cup q.drop \subseteq SdkIds
            <4>1. PICK p \in DOMAIN posts : q = posts[p] /\ q.at = "accepted"
                BY <2>1, <3>3 DEF Range
            <4>2. posts[p].ids \subseteq SdkIds BY <1>1 DEF SinkInv, Batches
            <4>3. QED BY <2>6, <4>1, <4>2
        <3>4. all \subseteq SdkIds BY <2>5, <3>3
        <3>5. QED BY <3>2, <3>4, FS_Subset
    <2>9. IsFiniteSet(Delivered) /\ Cardinality(Delivered) <= Cardinality(all)
        BY <2>7, <2>8, FS_Subset
    <2>10. sdk.sent <= Cardinality(all)
        <3>1. PICK c, d : c = Cardinality(Delivered) /\ d = Cardinality(all) OBVIOUS
        <3>2. c \in Nat /\ d \in Nat /\ c <= d BY <2>8, <2>9, <3>1, FS_CardinalityType
        <3>3. sdk.sent \in Nat /\ sdk.sent <= c
            BY <1>1, <3>1 DEF IInv, Types, Sink, SinkInv, Reported
        <3>4. QED BY <3>1, <3>2, <3>3
    <2>11. QED BY <2>1, <2>2, <2>3, <2>4, <2>5, <2>10 DEF SinkHonest
<1>2. QED BY <1>1, InvHolds, SinkInvHolds, PTL
-----------------------------------------------------------------------------
(* Who holds a line that the application wrote to a source                 *)

(* The lines that a reader has taken from their source.                    *)
Taken == {l \in app.written :
              l.way # "sdk" /\ l \notin Range(source[l.way]) \cup Range(child.unread)}
TakenIds == {l.id : l \in Taken}

(* A source has lines of its own, each once; what the child left unread is *)
(* no longer in its source.                                                *)
Sourced ==
    /\ \A s \in Sources : /\ Distinct(source[s])
                          /\ \A l \in Range(source[s]) : l \in app.written /\ l.way = s
    /\ \A l \in Range(child.unread) : l \in app.written /\ l.way = "child"
    /\ "child" \in Sources => Range(child.unread) \cap Range(source["child"]) = {}
    /\ child.at # "exited" => child.unread = <<>>

(* A line goes one way.                                                    *)
LEMMA WaysApart ==
    ASSUME Fresh
    PROVE  TakenIds \cap SdkIds = {}
BY DEF Fresh, TakenIds, Taken, SdkIds, SdkLines

(* In the first state nothing is written, and nothing taken.               *)
LEMMA SourcedInit ==
    Init => Sourced /\ Taken = {}
<1>1. SUFFICES ASSUME Init PROVE Sourced /\ Taken = {} OBVIOUS
<1>2. /\ \A s \in Sources : source[s] = <<>>
      /\ child.unread = <<>> /\ app.written = {}
    BY <1>1 DEF Init
<1>3. QED BY <1>2, IdsFew DEF Sourced, Taken

(* A step that neither writes to a source nor reads from one.              *)
LEMMA SourcedKept ==
    ASSUME Types, Fresh, Sourced, UNCHANGED <<source, child>>,
           UNCHANGED app \/ (app.todo # <<>> /\ Handle(Head(app.todo)))
    PROVE  Sourced' /\ Taken' = Taken
<1>1. CASE UNCHANGED app BY <1>1 DEF Sourced, Taken
<1>2. CASE app.todo # <<>> /\ Handle(Head(app.todo))
    <2>1. PICK l : l = Head(app.todo) OBVIOUS
    <2>2. l.way = "sdk" /\ app' = Logged(l) BY <1>2, <2>1 DEF Handle
    <2>3. app'.written = app.written \cup {l} BY <1>2, <2>1, <2>2, LoggedFresh
    <2>4. Taken' = Taken BY <2>2, <2>3 DEF Taken
    <2>5. Sourced' BY <2>3 DEF Sourced
    <2>6. QED BY <2>4, <2>5
<1>3. QED BY <1>1, <1>2

(* The application writes to a source.                                     *)
LEMMA SourcedWrite ==
    ASSUME Types, Fresh, Sourced, app.todo # <<>>, Write(Head(app.todo))
    PROVE  Sourced' /\ Taken' = Taken
<1>1. PICK l, w : l = Head(app.todo) /\ w = l.way OBVIOUS
<1>2. /\ w \in Sources /\ (w = "child" => child.at = "running") /\ app' = Logged(l)
      /\ source' = [source EXCEPT ![w] = Append(source[w], l)] /\ UNCHANGED child
    BY <1>1 DEF Write, Types
<1>3. /\ l \in Lines /\ app'.written = app.written \cup {l} /\ l \notin app.written
      /\ \A m \in app.written : m.id # l.id
    BY <1>1, <1>2, LoggedFresh
<1>4. source[w] \in Seq(Lines) /\ DOMAIN source = Sources BY <1>2 DEF Types
<1>5. \A m \in Range(source[w]) : m.id # l.id BY <1>2, <1>3 DEF Sourced
<1>6. l.id \notin Ids(source[w]) /\ Distinct(source[w])
    BY <1>2, <1>5 DEF Ids, Sourced
<1>7. /\ Range(Append(source[w], l)) = Range(source[w]) \cup {l}
      /\ Distinct(Append(source[w], l))
    BY <1>3, <1>4, <1>6, IdsAppend
<1>8. /\ Range(source'[w]) = Range(source[w]) \cup {l} /\ Distinct(source'[w])
      /\ \A s \in Sources : s # w => source'[s] = source[s]
    BY <1>2, <1>4, <1>7
<1>9. Sourced'
    <2>1. ASSUME NEW s \in Sources
          PROVE  /\ Distinct(source'[s])
                 /\ \A m \in Range(source'[s]) : m \in app'.written /\ m.way = s
        <3>1. CASE s = w BY <1>1, <1>3, <1>8, <3>1 DEF Sourced
        <3>2. CASE s # w BY <1>3, <1>8, <3>2 DEF Sourced
        <3>3. QED BY <3>1, <3>2
    <2>2. \A m \in Range(child'.unread) : m \in app'.written /\ m.way = "child"
        BY <1>2, <1>3 DEF Sourced
    <2>3. "child" \in Sources => Range(child'.unread) \cap Range(source'["child"]) = {}
        <3>1. CASE w = "child"
            <4>1. child'.unread = <<>> BY <1>2, <3>1 DEF Sourced
            <4>2. QED BY <4>1, IdsFew
        <3>2. CASE w # "child" BY <1>2, <1>8, <3>2 DEF Sourced
        <3>3. QED BY <3>1, <3>2
    <2>4. child'.at # "exited" => child'.unread = <<>> BY <1>2 DEF Sourced
    <2>5. QED BY <2>1, <2>2, <2>3, <2>4 DEF Sourced
<1>10. Taken' = Taken
    <2>1. l \notin Taken' BY <1>1, <1>8 DEF Taken
    <2>2. ASSUME NEW m \in app.written, m.way # "sdk"
          PROVE  m \in Range(source'[m.way]) <=> m \in Range(source[m.way])
        <3>1. m.way \in Sources
            <4>1. m \in Lines BY DEF Types
            <4>2. QED BY <2>2, <4>1, PipelineAssumption DEF Lines
        <3>2. CASE m.way = w BY <1>3, <1>8, <3>2
        <3>3. CASE m.way # w BY <1>8, <3>1, <3>3
        <3>4. QED BY <3>2, <3>3
    <2>3. QED BY <1>2, <1>3, <2>1, <2>2 DEF Taken
<1>11. QED BY <1>9, <1>10

(* The child exits: what its pipe still had is not read, and not taken.    *)
LEMMA SourcedExit ==
    ASSUME Types, Fresh, Sourced, ChildExits
    PROVE  Sourced' /\ Taken' = Taken
<1>1. /\ child.at = "running" /\ "child" \in Sources /\ child.unread = <<>>
      /\ UNCHANGED app /\ DOMAIN source = Sources
    BY DEF ChildExits, Types, Sourced
<1>2. PICK q : q = source["child"] OBVIOUS
<1>3. q \in Seq(Lines) BY <1>1, <1>2 DEF Types
<1>4. PICK n \in 0..Len(q) :
          /\ source' = [source EXCEPT !["child"] = SubSeq(q, 1, n)]
          /\ child' = [at |-> "exited", unread |-> SubSeq(q, n + 1, Len(q))]
    BY <1>1, <1>2 DEF ChildExits
<1>5. PICK a, b : a = Upto(q, n) /\ b = Beyond(q, n) OBVIOUS
<1>6. Distinct(q) /\ \A l \in Range(q) : l \in app.written /\ l.way = "child"
    BY <1>1, <1>2 DEF Sourced
<1>7. /\ Range(q) = Range(a) \cup Range(b) /\ Distinct(a) /\ Distinct(b)
      /\ Ids(a) \cap Ids(b) = {}
    <2>1. n \in 0..Len(q) BY <1>4
    <2>2. /\ Range(q) = Range(a) \cup Range(b)
          /\ Distinct(q) => Distinct(a) /\ Distinct(b) /\ Ids(a) \cap Ids(b) = {}
        BY <1>3, <1>5, <2>1, IdsCut
    <2>3. QED BY <1>6, <2>2
<1>8. Range(a) \cap Range(b) = {} BY <1>7 DEF Ids
<1>9. /\ source'["child"] = a /\ child'.unread = b /\ child'.at = "exited"
      /\ \A s \in Sources : s # "child" => source'[s] = source[s]
    BY <1>1, <1>4, <1>5 DEF Upto, Beyond
<1>10. Sourced'
    <2>1. ASSUME NEW s \in Sources
          PROVE  /\ Distinct(source'[s])
                 /\ \A m \in Range(source'[s]) : m \in app'.written /\ m.way = s
        <3>1. CASE s = "child" BY <1>1, <1>6, <1>7, <1>9, <3>1
        <3>2. CASE s # "child" BY <1>1, <1>9, <3>2 DEF Sourced
        <3>3. QED BY <3>1, <3>2
    <2>2. \A m \in Range(child'.unread) : m \in app'.written /\ m.way = "child"
        BY <1>1, <1>6, <1>7, <1>9
    <2>3. QED BY <1>8, <1>9, <2>1, <2>2 DEF Sourced
<1>11. Taken' = Taken
    <2>1. ASSUME NEW m \in app.written, m.way # "sdk"
          PROVE  m \in Range(source'[m.way]) \cup Range(child'.unread)
                     <=> m \in Range(source[m.way]) \cup Range(child.unread)
        <3>1. m.way \in Sources
            <4>1. m \in Lines BY DEF Types
            <4>2. QED BY <2>1, <4>1, PipelineAssumption DEF Lines
        <3>2. Range(child.unread) = {} BY <1>1, IdsFew
        <3>3. CASE m.way = "child" BY <1>2, <1>7, <1>9, <3>2, <3>3
        <3>4. CASE m.way # "child"
            <4>1. m \notin Range(b) BY <1>6, <1>7, <3>4
            <4>2. QED BY <1>9, <3>1, <3>2, <3>4, <4>1
        <3>5. QED BY <3>3, <3>4
    <2>2. QED BY <1>1, <2>1 DEF Taken
<1>12. QED BY <1>10, <1>11

(* A reader takes the next line.                                           *)
LEMMA SourcedSubmit ==
    ASSUME Types, Fresh, Sourced, NEW s \in Sources, Submit(s), NEW l, l = Head(source[s])
    PROVE  /\ Sourced' /\ Taken' = Taken \cup {l}
           /\ l \in Lines /\ l \in app.written /\ l \notin Taken /\ l.id \notin TakenIds
<1>1. /\ source[s] \in Seq(Lines) /\ source[s] # <<>> /\ DOMAIN source = Sources
      /\ source' = [source EXCEPT ![s] = Tail(source[s])] /\ UNCHANGED <<app, child>>
    BY DEF Submit, Types
<1>2. PICK q, t : q = source[s] /\ t = Tail(q) OBVIOUS
<1>3. Distinct(q) /\ \A m \in Range(q) : m \in app.written /\ m.way = s
    BY <1>2 DEF Sourced
<1>4. /\ Range(q) = {l} \cup Range(t) /\ Distinct(t) /\ l.id \notin Ids(t)
    BY <1>1, <1>2, <1>3, IdsTail
<1>5. l \in Lines /\ l \in app.written /\ l.way = s /\ l \notin Range(t)
    BY <1>1, <1>2, <1>3, <1>4, RangeFacts DEF Ids
<1>6. source'[s] = t /\ \A r \in Sources : r # s => source'[r] = source[r] BY <1>1, <1>2
<1>7. Sourced'
    <2>1. ASSUME NEW r \in Sources
          PROVE  /\ Distinct(source'[r])
                 /\ \A m \in Range(source'[r]) : m \in app'.written /\ m.way = r
        <3>1. CASE r = s BY <1>1, <1>3, <1>4, <1>6, <3>1
        <3>2. CASE r # s BY <1>1, <1>6, <3>2 DEF Sourced
        <3>3. QED BY <3>1, <3>2
    <2>2. "child" \in Sources => Range(child'.unread) \cap Range(source'["child"]) = {}
        <3>1. CASE s = "child" BY <1>1, <1>2, <1>4, <1>6, <3>1 DEF Sourced
        <3>2. CASE s # "child" BY <1>1, <1>6, <3>2 DEF Sourced
        <3>3. QED BY <3>1, <3>2
    <2>3. QED BY <1>1, <2>1, <2>2 DEF Sourced
<1>8. s # "sdk" BY PipelineAssumption
<1>9. l \notin Range(child.unread)
    <2>1. CASE s = "child" BY <1>2, <1>4, <2>1 DEF Sourced
    <2>2. CASE s # "child" BY <1>5, <2>2 DEF Sourced
    <2>3. QED BY <2>1, <2>2
<1>10. Taken' = Taken \cup {l}
    <2>1. l \in Taken' BY <1>1, <1>5, <1>6, <1>8, <1>9 DEF Taken
    <2>2. ASSUME NEW m \in app.written, m.way # "sdk", m # l
          PROVE  m \in Range(source'[m.way]) <=> m \in Range(source[m.way])
        <3>1. m.way \in Sources
            <4>1. m \in Lines BY DEF Types
            <4>2. QED BY <2>2, <4>1, PipelineAssumption DEF Lines
        <3>2. CASE m.way = s BY <1>2, <1>4, <1>6, <2>2, <3>2
        <3>3. CASE m.way # s BY <1>6, <3>1, <3>3
        <3>4. QED BY <3>2, <3>3
    <2>3. QED BY <1>1, <2>1, <2>2 DEF Taken
<1>11. l \notin Taken BY <1>2, <1>4, <1>5 DEF Taken
<1>12. l.id \notin TakenIds BY <1>5, <1>11 DEF TakenIds, Taken, Fresh
<1>13. QED BY <1>5, <1>7, <1>10, <1>11, <1>12
-----------------------------------------------------------------------------
(* Where the lines that the agent has taken in are                         *)

(* The lines of the readers that wait for the collector's lock, and of its *)
(* queue.                                                                  *)
Queuing == {s \in Sources : reader[s].at = "queue"}
HeldIds == {reader[s].line.id : s \in Queuing} \cup Ids(col.queue)

(* The collector has each taken line in one place.                         *)
Collected ==
    /\ HeldIds \cup Ids(col.batch) \subseteq TakenIds
    /\ \A s, t \in Queuing : reader[s].line.id = reader[t].line.id => s = t
    /\ \A s \in Queuing : reader[s].line.id \notin Ids(col.queue)
    /\ HeldIds \cap Ids(col.batch) = {}
    /\ Distinct(col.queue) /\ Distinct(col.batch)
    /\ col.run \in {"select", "exited"} => col.batch = <<>>

(* The ids of the posts that are at some of the places.                    *)
IdsAt(places) == UNION {posts[p].ids : p \in {q \in DOMAIN posts : posts[q].at \in places}}
Open == IdsAt({"admit", "count"})
Saved == IdsAt({"count", "accepted", "broken"})
Refused == IdsAt({"refused"})
Posted == IdsAt({"admit", "count", "accepted", "refused", "broken"})
RefusedDrops == UNION {posts[p].drop : p \in {q \in DOMAIN posts : posts[q].at = "refused"}}

(* A line that is stored or lost is nowhere else, and stored once.         *)
Settled ==
    /\ lost \subseteq TakenIds \cup Refused
    /\ Ids(store) \subseteq TakenIds \cup Saved
    /\ HeldIds \cap (lost \cup Ids(store)) = {}
    /\ Ids(col.batch) \cap lost = {}
    /\ col.run = "save" => Ids(col.batch) \cap Ids(store) = {}
    /\ Distinct(store)

(* What was counted, lost or is still on its way, against what came in.    *)
Even(k, d, l, o, r, q, b, x, t, p) ==
    /\ {k, d, l, o, r, q, b, x, t, p} \subseteq Nat
    /\ k + d + l + o + r + q + b + x = t + p

Balance ==
    Even(kept, drops, Cardinality(lost), Cardinality(Open), Cardinality(Queuing),
         Len(col.queue), Len(col.batch), Cardinality(RefusedDrops),
         Cardinality(Taken), Cardinality(Posted))

Ledger == Sourced /\ Collected /\ Settled /\ Balance

(* All of it is finite.                                                    *)
LEMMA LedgerFinite ==
    ASSUME Types, Fresh, Batches, Settled
    PROVE  /\ IsFiniteSet(Taken) /\ IsFiniteSet(TakenIds) /\ IsFiniteSet(Posted)
           /\ IsFiniteSet(Open) /\ IsFiniteSet(RefusedDrops) /\ IsFiniteSet(lost)
           /\ IsFiniteSet(Queuing)
<1>1. IsFiniteSet(Taken)
    <2>1. Taken \subseteq app.written BY DEF Taken
    <2>2. QED BY <2>1, FS_Subset DEF Fresh
<1>2. IsFiniteSet(TakenIds) BY <1>1, IdsFinite DEF TakenIds
<1>3. IsFiniteSet(SdkIds)
    <2>1. SdkLines \subseteq app.written BY DEF SdkLines
    <2>2. IsFiniteSet(SdkLines) BY <2>1, FS_Subset DEF Fresh
    <2>3. QED BY <2>2, IdsFinite DEF SdkIds
<1>4. Posted \subseteq SdkIds BY DEF Posted, IdsAt, Batches
<1>5. IsFiniteSet(Posted) BY <1>3, <1>4, FS_Subset
<1>6. Open \subseteq Posted /\ Refused \subseteq Posted BY DEF Open, Refused, Posted, IdsAt
<1>7. RefusedDrops \subseteq Posted
    BY DEF RefusedDrops, Posted, IdsAt, Batches, PostOK
<1>8. lost \subseteq TakenIds \cup Posted BY <1>6 DEF Settled
<1>9. IsFiniteSet(TakenIds \cup Posted) BY <1>2, <1>5, FS_Union
<1>10. IsFiniteSet(Queuing)
    <2>1. Queuing \subseteq {"child"} \cup {"file"} BY PipelineAssumption DEF Queuing
    <2>2. IsFiniteSet({"child"} \cup {"file"}) BY FS_Singleton, FS_Union
    <2>3. QED BY <2>1, <2>2, FS_Subset
<1>11. QED BY <1>1, <1>2, <1>5, <1>6, <1>7, <1>8, <1>9, <1>10, FS_Subset

(* The ids of a post are those of no other.                                *)
LEMMA IdsAtPost ==
    ASSUME Batches, NEW p \in DOMAIN posts, NEW places
    PROVE  /\ posts[p].at \in places => posts[p].ids \subseteq IdsAt(places)
           /\ posts[p].at \notin places => posts[p].ids \cap IdsAt(places) = {}
<1>1. posts[p].at \in places => posts[p].ids \subseteq IdsAt(places) BY DEF IdsAt
<1>2. ASSUME posts[p].at \notin places PROVE posts[p].ids \cap IdsAt(places) = {}
    <2>1. ASSUME NEW q \in DOMAIN posts, posts[q].at \in places
          PROVE  posts[p].ids \cap posts[q].ids = {}
        <3>1. p # q BY <1>2, <2>1
        <3>2. QED BY <3>1 DEF Batches
    <2>2. QED BY <2>1 DEF IdsAt
<1>3. QED BY <1>1, <1>2

(* A post moves on.                                                        *)
LEMMA IdsAtMoves ==
    ASSUME Batches, NEW p \in DOMAIN posts, DOMAIN posts' = DOMAIN posts,
           \A q \in DOMAIN posts : q # p => posts'[q] = posts[q],
           posts'[p].ids = posts[p].ids, NEW places
    PROVE  /\ posts'[p].at \in places => IdsAt(places)' = IdsAt(places) \cup posts[p].ids
           /\ posts'[p].at \notin places => IdsAt(places)' = IdsAt(places) \ posts[p].ids
<1>1. PICK D : D = DOMAIN posts OBVIOUS
<1>2. \A q \in D : posts'[q].ids = posts[q].ids BY <1>1
<1>3. \A q \in D : q # p => posts'[q].at = posts[q].at BY <1>1
<1>4. IdsAt(places)' = UNION {posts[q].ids : q \in {q \in D : posts'[q].at \in places}}
    BY <1>1, <1>2 DEF IdsAt
<1>5. IdsAt(places) = UNION {posts[q].ids : q \in {q \in D : posts[q].at \in places}}
    BY <1>1 DEF IdsAt
<1>6. \A q \in D : q # p => posts[p].ids \cap posts[q].ids = {} BY <1>1 DEF Batches
<1>7. CASE posts'[p].at \in places
    <2>1. IdsAt(places)' \subseteq IdsAt(places) \cup posts[p].ids BY <1>3, <1>4, <1>5
    <2>2. IdsAt(places) \cup posts[p].ids \subseteq IdsAt(places)'
        BY <1>1, <1>3, <1>4, <1>5, <1>7
    <2>3. QED BY <1>7, <2>1, <2>2
<1>8. CASE posts'[p].at \notin places
    <2>1. IdsAt(places)' \subseteq IdsAt(places) \ posts[p].ids
        BY <1>3, <1>4, <1>5, <1>6, <1>8
    <2>2. IdsAt(places) \ posts[p].ids \subseteq IdsAt(places)'
        BY <1>3, <1>4, <1>5
    <2>3. QED BY <1>8, <2>1, <2>2
<1>9. QED BY <1>7, <1>8

(* A post is added.                                                        *)
LEMMA IdsAtGrows ==
    ASSUME Types, NEW q, posts' = Append(posts, q), NEW places
    PROVE  /\ q.at \in places => IdsAt(places)' = IdsAt(places) \cup q.ids
           /\ q.at \notin places => IdsAt(places)' = IdsAt(places)
           /\ q.drop = {} => RefusedDrops' = RefusedDrops
<1>1. PICK n : n = Len(posts) OBVIOUS
<1>2. /\ n \in Nat /\ DOMAIN posts = 1..n /\ DOMAIN posts' = 1..(n + 1)
      /\ posts'[n + 1] = q /\ \A p \in 1..n : posts'[p] = posts[p]
    BY <1>1 DEF Types
<1>3. 1..(n + 1) = 1..n \cup {n + 1} BY <1>2
<1>4. IdsAt(places)' =
          UNION {posts'[p].ids : p \in {p \in 1..n \cup {n + 1} : posts'[p].at \in places}}
    BY <1>2, <1>3 DEF IdsAt
<1>5. IdsAt(places) = UNION {posts[p].ids : p \in {p \in 1..n : posts[p].at \in places}}
    BY <1>2 DEF IdsAt
<1>6. IdsAt(places) \subseteq IdsAt(places)' BY <1>2, <1>4, <1>5
<1>7. ASSUME q.at \in places PROVE IdsAt(places)' = IdsAt(places) \cup q.ids
    <2>1. q.ids \subseteq IdsAt(places)' BY <1>2, <1>4, <1>7
    <2>2. IdsAt(places)' \subseteq IdsAt(places) \cup q.ids BY <1>2, <1>4, <1>5
    <2>3. QED BY <1>6, <1>7, <2>1, <2>2
<1>8. ASSUME q.at \notin places PROVE IdsAt(places)' = IdsAt(places)
    <2>1. IdsAt(places)' \subseteq IdsAt(places) BY <1>2, <1>4, <1>5, <1>8
    <2>2. QED BY <1>6, <1>8, <2>1
<1>9. ASSUME q.drop = {} PROVE RefusedDrops' = RefusedDrops
    <2>1. RefusedDrops' =
              UNION {posts'[p].drop : p \in {p \in 1..n \cup {n + 1} : posts'[p].at = "refused"}}
        BY <1>2, <1>3 DEF RefusedDrops
    <2>2. RefusedDrops = UNION {posts[p].drop : p \in {p \in 1..n : posts[p].at = "refused"}}
        BY <1>2 DEF RefusedDrops
    <2>3. RefusedDrops \subseteq RefusedDrops' BY <1>2, <2>1, <2>2
    <2>4. RefusedDrops' \subseteq RefusedDrops BY <1>2, <1>9, <2>1, <2>2
    <2>5. QED BY <2>3, <2>4
<1>10. QED BY <1>7, <1>8, <1>9

(* A post that moves on to refused adds what it dropped to the drops that  *)
(* nobody counts.                                                          *)
LEMMA RefusedMoves ==
    ASSUME Batches, NEW p \in DOMAIN posts, DOMAIN posts' = DOMAIN posts,
           \A q \in DOMAIN posts : q # p => posts'[q] = posts[q],
           posts[p].at # "refused"
    PROVE  /\ posts'[p].at = "refused" => RefusedDrops' = RefusedDrops \cup posts'[p].drop
           /\ posts'[p].at # "refused" => RefusedDrops' = RefusedDrops
           /\ RefusedDrops \cap posts[p].ids = {}
<1>1. PICK D : D = DOMAIN posts OBVIOUS
<1>2. \A q \in D : q # p => posts'[q].at = posts[q].at /\ posts'[q].drop = posts[q].drop
    BY <1>1
<1>3. RefusedDrops' = UNION {posts'[q].drop : q \in {q \in D : posts'[q].at = "refused"}}
    BY <1>1 DEF RefusedDrops
<1>4. RefusedDrops = UNION {posts[q].drop : q \in {q \in D : posts[q].at = "refused"}}
    BY <1>1 DEF RefusedDrops
<1>5. RefusedDrops \subseteq RefusedDrops' BY <1>2, <1>3, <1>4
<1>6. ASSUME posts'[p].at = "refused" PROVE RefusedDrops' = RefusedDrops \cup posts'[p].drop
    <2>1. posts'[p].drop \subseteq RefusedDrops' BY <1>1, <1>3, <1>6
    <2>2. RefusedDrops' \subseteq RefusedDrops \cup posts'[p].drop BY <1>2, <1>3, <1>4
    <2>3. QED BY <1>5, <2>1, <2>2
<1>7. ASSUME posts'[p].at # "refused" PROVE RefusedDrops' = RefusedDrops
    <2>1. RefusedDrops' \subseteq RefusedDrops BY <1>2, <1>3, <1>4, <1>7
    <2>2. QED BY <1>5, <2>1
<1>8. RefusedDrops \cap posts[p].ids = {}
    <2>1. RefusedDrops \subseteq Refused BY DEF RefusedDrops, Refused, IdsAt, Batches, PostOK
    <2>2. posts[p].ids \cap Refused = {} BY IdsAtPost DEF Refused
    <2>3. QED BY <2>1, <2>2
<1>9. QED BY <1>6, <1>7, <1>8

(* What the collector holds is as it was.                                  *)
SameHeld ==
    /\ UNCHANGED reader
    /\ col'.queue = col.queue /\ col'.batch = col.batch /\ col'.run = col.run

(* Then each taken line is where it was.                                   *)
LEMMA CollectedKept ==
    ASSUME Collected, SameHeld, Taken' = Taken
    PROVE  /\ Collected' /\ HeldIds' = HeldIds /\ TakenIds' = TakenIds
           /\ Queuing' = Queuing
<1>1. Queuing' = Queuing /\ TakenIds' = TakenIds BY DEF Queuing, SameHeld, TakenIds
<1>2. HeldIds' = HeldIds BY <1>1 DEF HeldIds, SameHeld
<1>3. Collected' BY <1>1, <1>2 DEF Collected, SameHeld
<1>4. QED BY <1>1, <1>2, <1>3

(* A step that takes no line in and moves none.                            *)
LEMMA LedgerKept ==
    ASSUME Collected, Settled, Balance, SameHeld, Taken' = Taken,
           UNCHANGED <<posts, store, kept, drops, lost>>
    PROVE  Collected' /\ Settled' /\ Balance'
<1>1. /\ Collected' /\ HeldIds' = HeldIds /\ TakenIds' = TakenIds
      /\ Queuing' = Queuing
    BY CollectedKept
<1>2. /\ Open' = Open /\ Saved' = Saved /\ Refused' = Refused /\ Posted' = Posted
      /\ RefusedDrops' = RefusedDrops
    BY DEF Open, Saved, Refused, Posted, RefusedDrops, IdsAt
<1>3. Settled' BY <1>1, <1>2 DEF Settled, SameHeld
<1>4. Balance' BY <1>1, <1>2 DEF Balance, SameHeld
<1>5. QED BY <1>1, <1>3, <1>4

(* The places of a post that is being handled, before and after a step.    *)
LEMMA PostPlaces ==
    ASSUME Types', Batches, NEW p \in DOMAIN posts, DOMAIN posts' = DOMAIN posts,
           \A q \in DOMAIN posts : q # p => posts'[q] = posts[q],
           posts'[p].ids = posts[p].ids, posts[p].at \in {"admit", "count"},
           NEW b, b = posts[p].ids, NEW at, at = posts'[p].at
    PROVE  /\ Posted' = Posted /\ b \subseteq Open /\ b \cap Refused = {}
           /\ at \in {"admit", "count"} => Open' = Open
           /\ at \notin {"admit", "count"} => Open' = Open \ b
           /\ at = "refused" => Refused' = Refused \cup b
           /\ at # "refused" => Refused' = Refused
           /\ posts[p].at = "admit" => b \cap Saved = {}
           /\ at \in {"count", "accepted", "broken"} => Saved' = Saved \cup b
           /\ posts[p].at = "admit" /\ at \notin {"count", "accepted", "broken"} => Saved' = Saved
<1>1. \A places : /\ at \in places => IdsAt(places)' = IdsAt(places) \cup b
                  /\ at \notin places => IdsAt(places)' = IdsAt(places) \ b
    BY IdsAtMoves
<1>2. \A places : /\ posts[p].at \in places => b \subseteq IdsAt(places)
                  /\ posts[p].at \notin places => b \cap IdsAt(places) = {}
    BY IdsAtPost
<1>3. at \in {"admit", "count", "accepted", "refused", "broken"}
    <2>1. posts' \in Seq(Post) BY DEF Types
    <2>2. p \in DOMAIN posts' OBVIOUS
    <2>3. posts'[p] \in Post BY <2>1, <2>2
    <2>4. QED BY <2>3 DEF Post
<1>4. Posted' = Posted
    <2>1. posts[p].at \in {"admit", "count", "accepted", "refused", "broken"} OBVIOUS
    <2>2. Posted' = Posted \cup b BY <1>1, <1>3 DEF Posted
    <2>3. b \subseteq Posted BY <1>2, <2>1 DEF Posted
    <2>4. QED BY <2>2, <2>3
<1>5. b \subseteq Open BY <1>2 DEF Open
<1>6. b \cap Refused = {} BY <1>2 DEF Refused
<1>7. at \in {"admit", "count"} => Open' = Open
    <2>1. at \in {"admit", "count"} => Open' = Open \cup b BY <1>1 DEF Open
    <2>2. QED BY <1>5, <2>1
<1>8. at \notin {"admit", "count"} => Open' = Open \ b BY <1>1 DEF Open
<1>9. at = "refused" => Refused' = Refused \cup b BY <1>1 DEF Refused
<1>10. at # "refused" => Refused' = Refused BY <1>1, <1>6 DEF Refused
<1>11. posts[p].at = "admit" => b \cap Saved = {} BY <1>2 DEF Saved
<1>12. at \in {"count", "accepted", "broken"} => Saved' = Saved \cup b BY <1>1 DEF Saved
<1>13. posts[p].at = "admit" /\ at \notin {"count", "accepted", "broken"} => Saved' = Saved
    <2>1. at \notin {"count", "accepted", "broken"} => Saved' = Saved \ b BY <1>1 DEF Saved
    <2>2. QED BY <1>11, <2>1
<1>14. QED BY <1>4, <1>5, <1>6, <1>7, <1>8, <1>9, <1>10, <1>11, <1>12, <1>13

(* A handler looks at a line.                                              *)
LEMMA LedgerAdmit ==
    ASSUME Types, Types', Batches, Collected, Settled, Balance, SameHeld, Taken' = Taken,
           NEW p \in DOMAIN posts, AdmitLine(p)
    PROVE  Collected' /\ Settled' /\ Balance'
<1>1. PostOK(posts[p]) BY DEF Batches
<1>2. /\ DOMAIN posts' = DOMAIN posts /\ \A q \in DOMAIN posts : q # p => posts'[q] = posts[q]
      /\ posts'[p].ids = posts[p].ids /\ posts[p].at \in {"admit", "count"}
    BY <1>1, PostMoves
<1>3. posts[p].at = "admit" /\ UNCHANGED <<store, kept, drops, lost>> BY DEF AdmitLine
<1>4. posts'[p].at = "admit"
    <2>1. posts[p] \in Post /\ p \in DOMAIN posts BY DEF Types
    <2>2. PICK todo, keep, drop :
              posts' = [posts EXCEPT ![p].todo = todo, ![p].keep = keep, ![p].drop = drop]
        BY DEF AdmitLine
    <2>3. posts'[p] = [posts[p] EXCEPT !.todo = todo, !.keep = keep, !.drop = drop]
        BY <2>1, <2>2
    <2>4. QED BY <1>3, <2>1, <2>3 DEF Post
<1>5. /\ Posted' = Posted /\ Open' = Open /\ Refused' = Refused /\ Saved' = Saved
    BY <1>2, <1>3, <1>4, PostPlaces
<1>6. RefusedDrops' = RefusedDrops BY <1>2, <1>3, <1>4, RefusedMoves
<1>7. Collected' /\ HeldIds' = HeldIds /\ TakenIds' = TakenIds /\ Queuing' = Queuing
    BY CollectedKept
<1>8. Settled' BY <1>3, <1>5, <1>7 DEF Settled, SameHeld
<1>9. Balance' BY <1>3, <1>5, <1>6, <1>7 DEF Balance, SameHeld
<1>10. QED BY <1>7, <1>8, <1>9

(* A part is taken away.                                                   *)
LEMMA Removed ==
    ASSUME NEW A, NEW B, IsFiniteSet(A), B \subseteq A
    PROVE  /\ Cardinality(A) = Cardinality(A \ B) + Cardinality(B)
           /\ Cardinality(A \ B) \in Nat /\ Cardinality(B) \in Nat
<1>1. PICK C : C = A \ B OBVIOUS
<1>2. IsFiniteSet(B) /\ IsFiniteSet(C) BY <1>1, FS_Subset
<1>3. C \cap B = {} /\ C \cup B = A BY <1>1
<1>4. /\ Cardinality(C \cup B) = Cardinality(C) + Cardinality(B)
      /\ Cardinality(C) \in Nat /\ Cardinality(B) \in Nat
    BY <1>2, <1>3, DisjointUnion
<1>5. QED BY <1>1, <1>3, <1>4

(* What is past admission saves what it kept.                              *)
LEMMA LedgerSave ==
    ASSUME Types, Types', Fresh, Batches, Collected, Settled, Balance, SameHeld, Taken' = Taken,
           NEW p \in DOMAIN posts, SavePost(p)
    PROVE  Collected' /\ Settled' /\ Balance'
<1>1. PICK b, keep : b = posts[p].ids /\ keep = posts[p].keep OBVIOUS
<1>2. PostOK(posts[p]) /\ posts[p] \in Post /\ p \in DOMAIN posts BY DEF Batches, Types
<1>3. /\ DOMAIN posts' = DOMAIN posts /\ \A q \in DOMAIN posts : q # p => posts'[q] = posts[q]
      /\ posts'[p].ids = posts[p].ids /\ posts[p].at \in {"admit", "count"}
    BY <1>2, PostMoves
<1>4. /\ posts[p].at = "admit" /\ store' = store \o keep
      /\ UNCHANGED <<kept, drops, lost>>
    BY <1>1 DEF SavePost
<1>5. posts'[p].at = "count"
    <2>1. posts'[p] = [posts[p] EXCEPT !.at = "count"] BY <1>2 DEF SavePost
    <2>2. QED BY <1>2, <2>1 DEF Post
<1>6. /\ Posted' = Posted /\ Open' = Open /\ Refused' = Refused /\ Saved' = Saved \cup b
      /\ b \cap Saved = {}
    BY <1>1, <1>3, <1>4, <1>5, PostPlaces
<1>7. RefusedDrops' = RefusedDrops BY <1>3, <1>4, <1>5, RefusedMoves
<1>8. Collected' /\ HeldIds' = HeldIds /\ TakenIds' = TakenIds /\ Queuing' = Queuing
    BY CollectedKept
<1>9. Distinct(keep) /\ Ids(keep) \subseteq b /\ b \subseteq SdkIds
    BY <1>1, <1>2, <1>4 DEF PostOK, Batches
<1>10. TakenIds \cap SdkIds = {} BY WaysApart
<1>11. /\ Ids(store \o keep) = Ids(store) \cup Ids(keep)
       /\ Distinct(store \o keep)
    <2>1. keep \in Seq(Scrubbed) /\ store \in Seq(Scrubbed) BY <1>1, <1>2 DEF Post, Types
    <2>2. Distinct(store) /\ Ids(store) \cap Ids(keep) = {}
        BY <1>6, <1>9, <1>10 DEF Settled
    <2>3. QED BY <1>9, <2>1, <2>2, IdsCat
<1>12. Ids(store)' = Ids(store) \cup Ids(keep) /\ Distinct(store)' BY <1>4, <1>11
<1>13. Settled'
    <2>1. lost' \subseteq (TakenIds \cup Refused)' BY <1>4, <1>6, <1>8 DEF Settled
    <2>2. Ids(store)' \subseteq (TakenIds \cup Saved)' BY <1>6, <1>8, <1>9, <1>12 DEF Settled
    <2>3. HeldIds' \cap (lost' \cup Ids(store)') = {}
        BY <1>4, <1>8, <1>9, <1>10, <1>12 DEF Settled, Collected
    <2>4. Ids(col'.batch) \cap lost' = {} BY <1>4 DEF Settled, SameHeld
    <2>5. col'.run = "save" => Ids(col'.batch) \cap Ids(store)' = {}
        BY <1>9, <1>10, <1>12 DEF Settled, SameHeld, Collected
    <2>6. QED BY <1>12, <2>1, <2>2, <2>3, <2>4, <2>5 DEF Settled
<1>14. Balance' BY <1>4, <1>6, <1>7, <1>8 DEF Balance, SameHeld
<1>15. QED BY <1>8, <1>13, <1>14

(* The save fails: what was kept is lost, what was dropped is not counted. *)
LEMMA LedgerSaveFails ==
    ASSUME Types, Types', Fresh, Batches, Collected, Settled, Balance, SameHeld, Taken' = Taken,
           NEW p \in DOMAIN posts, SavePostFails(p)
    PROVE  Collected' /\ Settled' /\ Balance'
<1>1. PICK b, keep, drop : b = posts[p].ids /\ keep = posts[p].keep /\ drop = posts[p].drop
    OBVIOUS
<1>2. PostOK(posts[p]) /\ posts[p] \in Post /\ p \in DOMAIN posts BY DEF Batches, Types
<1>3. /\ DOMAIN posts' = DOMAIN posts /\ \A q \in DOMAIN posts : q # p => posts'[q] = posts[q]
      /\ posts'[p].ids = posts[p].ids /\ posts[p].at \in {"admit", "count"}
    BY <1>2, PostMoves
<1>4. /\ posts[p].at = "admit" /\ posts[p].todo = <<>> /\ lost' = lost \cup Ids(keep)
      /\ UNCHANGED <<kept, drops, store>>
    BY <1>1 DEF SavePostFails
<1>5. posts'[p].at = "refused" /\ posts'[p].drop = drop
    <2>1. posts'[p] = [posts[p] EXCEPT !.at = "refused", !.keep = <<>>]
        BY <1>2 DEF SavePostFails
    <2>2. QED BY <1>1, <1>2, <2>1 DEF Post
<1>6. /\ Posted' = Posted /\ Open' = Open \ b /\ Refused' = Refused \cup b /\ Saved' = Saved
      /\ b \subseteq Open /\ b \cap Refused = {} /\ b \cap Saved = {}
    BY <1>1, <1>3, <1>4, <1>5, PostPlaces
<1>7. RefusedDrops' = RefusedDrops \cup drop /\ RefusedDrops \cap b = {}
    BY <1>1, <1>3, <1>4, <1>5, RefusedMoves
<1>8. Collected' /\ HeldIds' = HeldIds /\ TakenIds' = TakenIds /\ Queuing' = Queuing
    BY CollectedKept
<1>9. /\ Distinct(keep) /\ b = Ids(keep) \cup drop /\ Ids(keep) \cap drop = {}
      /\ b \subseteq SdkIds
    BY <1>1, <1>2, <1>4, IdsFew DEF PostOK, Batches
<1>10. TakenIds \cap SdkIds = {} BY WaysApart
<1>11. Settled'
    <2>1. lost' \subseteq (TakenIds \cup Refused)' BY <1>4, <1>6, <1>8, <1>9 DEF Settled
    <2>2. Ids(store)' \subseteq (TakenIds \cup Saved)' BY <1>4, <1>6, <1>8 DEF Settled
    <2>3. HeldIds' \cap (lost' \cup Ids(store)') = {}
        BY <1>4, <1>8, <1>9, <1>10 DEF Settled, Collected
    <2>4. Ids(col'.batch) \cap lost' = {}
        BY <1>4, <1>9, <1>10 DEF Settled, SameHeld, Collected
    <2>5. col'.run = "save" => Ids(col'.batch) \cap Ids(store)' = {}
        BY <1>4 DEF Settled, SameHeld
    <2>6. QED BY <1>4, <2>1, <2>2, <2>3, <2>4, <2>5 DEF Settled
<1>12. /\ IsFiniteSet(Open) /\ IsFiniteSet(RefusedDrops) /\ IsFiniteSet(lost)
    BY LedgerFinite
<1>13. IsFiniteSet(Ids(keep)) /\ IsFiniteSet(drop)
    <2>1. IsFiniteSet(b) BY <1>6, <1>12, FS_Subset
    <2>2. QED BY <1>9, <2>1, FS_Subset
<1>14. PICK k, c : k = Cardinality(Ids(keep)) /\ c = Cardinality(drop) OBVIOUS
<1>15. /\ k \in Nat /\ c \in Nat /\ Cardinality(b) = k + c
    BY <1>9, <1>13, <1>14, DisjointUnion
<1>16. Cardinality(lost') = Cardinality(lost) + k
    <2>1. lost \cap Ids(keep) = {} BY <1>6, <1>9, <1>10 DEF Settled
    <2>2. QED BY <1>4, <1>12, <1>13, <1>14, <2>1, DisjointUnion
<1>17. Cardinality(RefusedDrops') = Cardinality(RefusedDrops) + c
    <2>1. RefusedDrops \cap drop = {} BY <1>7, <1>9
    <2>2. QED BY <1>7, <1>12, <1>13, <1>14, <2>1, DisjointUnion
<1>18. Cardinality(Open) = Cardinality(Open') + (k + c) /\ Cardinality(Open') \in Nat
    BY <1>6, <1>12, <1>15, Removed
<1>19. Balance'
    <2>1. PICK l, o, x, u : /\ l = Cardinality(lost) /\ o = Cardinality(Open)
                            /\ x = Cardinality(RefusedDrops) /\ u = Cardinality(Open')
        OBVIOUS
    <2>2. PICK a, d, r, q, n, t, e :
              /\ a = kept /\ d = drops /\ r = Cardinality(Queuing) /\ q = Len(col.queue)
              /\ n = Len(col.batch) /\ t = Cardinality(Taken) /\ e = Cardinality(Posted)
        OBVIOUS
    <2>3. Even(a, d, l, o, r, q, n, x, t, e) BY <2>1, <2>2 DEF Balance
    <2>4. u \in Nat /\ o = u + (k + c) BY <1>18, <2>1
    <2>5. Even(a, d, l + k, u, r, q, n, x + c, t, e) BY <1>15, <2>3, <2>4 DEF Even
    <2>6. /\ kept' = a /\ drops' = d /\ Cardinality(Queuing') = r /\ Len(col'.queue) = q
          /\ Len(col'.batch) = n /\ Cardinality(Taken') = t /\ Cardinality(Posted') = e
        BY <1>4, <1>6, <1>8, <2>2 DEF SameHeld
    <2>7. /\ Cardinality(lost') = l + k /\ Cardinality(Open') = u
          /\ Cardinality(RefusedDrops') = x + c
        BY <1>16, <1>17, <2>1
    <2>8. QED BY <2>5, <2>6, <2>7 DEF Balance
<1>20. QED BY <1>8, <1>11, <1>19

(* What was saved is counted, what was dropped with it is counted too.     *)
LEMMA LedgerCount ==
    ASSUME Types, Types', Fresh, Batches, Collected, Settled, Balance, SameHeld, Taken' = Taken,
           NEW p \in DOMAIN posts, AcceptPost(p) \/ FanOutPanics(p)
    PROVE  Collected' /\ Settled' /\ Balance'
<1>1. PICK b, keep, drop : b = posts[p].ids /\ keep = posts[p].keep /\ drop = posts[p].drop
    OBVIOUS
<1>2. PostOK(posts[p]) /\ posts[p] \in Post /\ p \in DOMAIN posts BY DEF Batches, Types
<1>3. /\ DOMAIN posts' = DOMAIN posts /\ \A q \in DOMAIN posts : q # p => posts'[q] = posts[q]
      /\ posts'[p].ids = posts[p].ids /\ posts[p].at \in {"admit", "count"}
    BY <1>2, PostMoves
<1>4. /\ posts[p].at = "count" /\ UNCHANGED <<store, lost>>
      /\ kept' = kept + Len(keep) /\ drops' = drops + Cardinality(drop)
    BY <1>1 DEF AcceptPost, FanOutPanics, CountPost
<1>5. posts'[p].at \in {"accepted", "broken"}
    <2>1. PICK at \in {"accepted", "broken"} : posts'[p] = [posts[p] EXCEPT !.at = at]
        BY <1>2 DEF AcceptPost, FanOutPanics
    <2>2. QED BY <1>2, <2>1 DEF Post
<1>6. /\ Posted' = Posted /\ Open' = Open \ b /\ Refused' = Refused /\ Saved' = Saved \cup b
      /\ b \subseteq Open
    <2>1. /\ posts'[p].at \notin {"admit", "count"} /\ posts'[p].at # "refused"
          /\ posts'[p].at \in {"count", "accepted", "broken"}
        BY <1>5
    <2>2. QED BY <1>1, <1>3, <2>1, PostPlaces
<1>7. RefusedDrops' = RefusedDrops BY <1>3, <1>4, <1>5, RefusedMoves
<1>8. Collected' /\ HeldIds' = HeldIds /\ TakenIds' = TakenIds /\ Queuing' = Queuing
    BY CollectedKept
<1>9. Distinct(keep) /\ b = Ids(keep) \cup drop /\ Ids(keep) \cap drop = {}
    BY <1>1, <1>2, <1>4, IdsFew DEF PostOK
<1>10. Settled' BY <1>4, <1>6, <1>8 DEF Settled, SameHeld
<1>11. IsFiniteSet(Open) BY LedgerFinite
<1>12. IsFiniteSet(Ids(keep)) /\ Cardinality(Ids(keep)) = Len(keep) /\ IsFiniteSet(drop)
    <2>1. keep \in Seq(Scrubbed) BY <1>1, <1>2 DEF Post
    <2>2. IsFiniteSet(b) BY <1>6, <1>11, FS_Subset
    <2>3. QED BY <1>9, <2>1, <2>2, IdsCount, FS_Subset
<1>13. PICK k, c, u : k = Len(keep) /\ c = Cardinality(drop) /\ u = Cardinality(Open') OBVIOUS
<1>14. /\ k \in Nat /\ c \in Nat /\ Cardinality(b) = k + c
    BY <1>9, <1>12, <1>13, DisjointUnion
<1>15. Cardinality(Open) = u + (k + c) /\ u \in Nat
    BY <1>6, <1>11, <1>13, <1>14, Removed
<1>16. Balance'
    <2>1. PICK a, d, l, o, r, q, n, x, t, e :
              /\ a = kept /\ d = drops /\ l = Cardinality(lost) /\ o = Cardinality(Open)
              /\ r = Cardinality(Queuing) /\ q = Len(col.queue) /\ n = Len(col.batch)
              /\ x = Cardinality(RefusedDrops) /\ t = Cardinality(Taken)
              /\ e = Cardinality(Posted)
        OBVIOUS
    <2>2. Even(a, d, l, o, r, q, n, x, t, e) BY <2>1 DEF Balance
    <2>3. o = u + (k + c) BY <1>15, <2>1
    <2>4. Even(a + k, d + c, l, u, r, q, n, x, t, e) BY <1>14, <1>15, <2>2, <2>3 DEF Even
    <2>5. /\ kept' = a + k /\ drops' = d + c /\ Cardinality(lost') = l
          /\ Cardinality(Open') = u /\ Cardinality(RefusedDrops') = x
        BY <1>4, <1>7, <1>13, <2>1
    <2>6. /\ Cardinality(Queuing') = r /\ Len(col'.queue) = q
          /\ Len(col'.batch) = n /\ Cardinality(Taken') = t /\ Cardinality(Posted') = e
        BY <1>6, <1>8, <2>1 DEF SameHeld
    <2>7. QED BY <2>4, <2>5, <2>6 DEF Balance
<1>17. QED BY <1>8, <1>10, <1>16

(* A post reaches the agent, and is handled or refused whole.              *)
LEMMA LedgerArrives ==
    ASSUME Types, Types', Fresh, Batches, Collected, Settled, Balance, SameHeld, Taken' = Taken,
           PostArrives
    PROVE  Collected' /\ Settled' /\ Balance'
<1>1. PICK b, m : b = Ids(sdk.batch) /\ m = Cardinality(b) OBVIOUS
<1>2. sdk.batch \in Seq(Lines) /\ Distinct(sdk.batch) BY DEF Types, Sink, Batches
<1>3. IsFiniteSet(b) /\ m \in Nat BY <1>1, <1>2, IdsCount, FS_CardinalityType
<1>4. b \subseteq SdkIds /\ \A p \in DOMAIN posts : posts[p].ids \cap b = {}
    BY <1>1 DEF Batches, PostArrives
<1>5. TakenIds \cap SdkIds = {} BY WaysApart
<1>6. \A places : IdsAt(places) \cap b = {} BY <1>4 DEF IdsAt
<1>7. Collected' /\ HeldIds' = HeldIds /\ TakenIds' = TakenIds /\ Queuing' = Queuing
    BY CollectedKept
<1>8. UNCHANGED <<kept, drops, store>> BY DEF PostArrives
<1>9. PICK at, todo :
          /\ at \in {"admit", "refused"} /\ posts' = Append(posts, NewPost(at, todo))
          /\ lost' = IF at = "refused" THEN lost \cup b ELSE lost
    BY <1>1 DEF PostArrives
<1>10. PICK q : q = NewPost(at, todo) OBVIOUS
<1>11. q.at = at /\ q.ids = b /\ q.drop = {} BY <1>1, <1>10 DEF NewPost
<1>12. \A places : /\ at \in places => IdsAt(places)' = IdsAt(places) \cup b
                   /\ at \notin places => IdsAt(places)' = IdsAt(places)
    BY <1>9, <1>10, <1>11, IdsAtGrows
<1>13. RefusedDrops' = RefusedDrops BY <1>9, <1>10, <1>11, IdsAtGrows
<1>14. Posted' = Posted \cup b /\ Posted \cap b = {}
    <2>1. at \in {"admit", "count", "accepted", "refused", "broken"} BY <1>9
    <2>2. QED BY <1>6, <1>12, <2>1 DEF Posted
<1>15. Saved' = Saved
    <2>1. at \notin {"count", "accepted", "broken"} BY <1>9
    <2>2. QED BY <1>12, <2>1 DEF Saved
<1>16. IsFiniteSet(Open) /\ IsFiniteSet(Posted) /\ IsFiniteSet(lost) BY LedgerFinite
<1>17. PICK a, d, l, o, r, n, c, x, t, e :
           /\ a = kept /\ d = drops /\ l = Cardinality(lost) /\ o = Cardinality(Open)
           /\ r = Cardinality(Queuing) /\ n = Len(col.queue) /\ c = Len(col.batch)
           /\ x = Cardinality(RefusedDrops) /\ t = Cardinality(Taken)
           /\ e = Cardinality(Posted)
    OBVIOUS
<1>18. Even(a, d, l, o, r, n, c, x, t, e) BY <1>17 DEF Balance
<1>19. Cardinality(Posted') = e + m BY <1>1, <1>3, <1>14, <1>16, <1>17, DisjointUnion
<1>20. /\ kept' = a /\ drops' = d /\ Cardinality(RefusedDrops') = x
       /\ Cardinality(Queuing') = r /\ Len(col'.queue) = n
       /\ Len(col'.batch) = c /\ Cardinality(Taken') = t
    BY <1>7, <1>8, <1>13, <1>17 DEF SameHeld
<1>21. CASE at = "admit"
    <2>1. Open' = Open \cup b /\ Open \cap b = {} BY <1>6, <1>12, <1>21 DEF Open
    <2>2. Refused' = Refused BY <1>12, <1>21 DEF Refused
    <2>3. lost' = lost BY <1>9, <1>21
    <2>4. Settled' BY <1>7, <1>8, <1>15, <2>2, <2>3 DEF Settled, SameHeld
    <2>5. Cardinality(Open') = o + m BY <1>1, <1>3, <1>16, <1>17, <2>1, DisjointUnion
    <2>6. Even(a, d, l, o + m, r, n, c, x, t, e + m) BY <1>3, <1>18 DEF Even
    <2>7. Balance' BY <1>17, <1>19, <1>20, <2>3, <2>5, <2>6 DEF Balance
    <2>8. QED BY <1>7, <2>4, <2>7
<1>22. CASE at = "refused"
    <2>1. Open' = Open BY <1>12, <1>22 DEF Open
    <2>2. Refused' = Refused \cup b /\ Refused \cap b = {} BY <1>6, <1>12, <1>22 DEF Refused
    <2>3. lost' = lost \cup b BY <1>9, <1>22
    <2>4. lost \cap b = {} BY <1>4, <1>5, <2>2 DEF Settled
    <2>5. Settled'
        <3>1. lost' \subseteq (TakenIds \cup Refused)' BY <1>7, <2>2, <2>3 DEF Settled
        <3>2. HeldIds' \cap (lost' \cup Ids(store)') = {}
            BY <1>4, <1>5, <1>7, <1>8, <2>3 DEF Settled, Collected
        <3>3. Ids(col'.batch) \cap lost' = {}
            BY <1>4, <1>5, <2>3 DEF Settled, SameHeld, Collected
        <3>4. QED BY <1>7, <1>8, <1>15, <3>1, <3>2, <3>3 DEF Settled, SameHeld
    <2>6. Cardinality(lost') = l + m BY <1>1, <1>3, <1>16, <1>17, <2>3, <2>4, DisjointUnion
    <2>7. Even(a, d, l + m, o, r, n, c, x, t, e + m) BY <1>3, <1>18 DEF Even
    <2>8. Balance' BY <1>17, <1>19, <1>20, <2>1, <2>6, <2>7 DEF Balance
    <2>9. QED BY <1>7, <2>5, <2>8
<1>23. QED BY <1>9, <1>21, <1>22

(* A step that leaves the posts alone.                                     *)
LEMMA PostsKept ==
    ASSUME UNCHANGED posts
    PROVE  /\ Open' = Open /\ Saved' = Saved /\ Refused' = Refused /\ Posted' = Posted
           /\ RefusedDrops' = RefusedDrops
BY DEF Open, Saved, Refused, Posted, RefusedDrops, IdsAt

(* A reader takes a line in.                                               *)
LEMMA LedgerSubmit ==
    ASSUME Types, Types', Fresh, Batches, Sourced, Collected, Settled, Balance,
           NEW s \in Sources, Submit(s)
    PROVE  Collected' /\ Settled' /\ Balance'
<1>1. PICK l : l = Head(source[s]) OBVIOUS
<1>2. Taken' = Taken \cup {l} /\ l \in Lines /\ l \in app.written /\ l \notin Taken
      /\ l.id \notin TakenIds
    BY <1>1, SourcedSubmit
<1>3. TakenIds' = TakenIds \cup {l.id} BY <1>2 DEF TakenIds
<1>4. l.id \notin SdkIds
    <2>1. l.way # "sdk" BY <1>2 DEF Taken
    <2>2. QED BY <1>2, <2>1 DEF SdkIds, SdkLines, Fresh
<1>5. /\ UNCHANGED <<col, posts, store, kept, lost>> /\ reader[s].at = "read"
      /\ DOMAIN reader = Sources
    BY DEF Submit, ColVars, Types
<1>6. /\ Open' = Open /\ Saved' = Saved /\ Refused' = Refused /\ Posted' = Posted
      /\ RefusedDrops' = RefusedDrops
    BY <1>5, PostsKept
<1>7. l.id \notin lost \cup Ids(store)
    <2>1. Refused \cup Saved \subseteq SdkIds BY DEF Refused, Saved, IdsAt, Batches
    <2>2. QED BY <1>2, <1>4, <2>1 DEF Settled
<1>8. l.id \notin HeldIds \cup Ids(col.batch) BY <1>2 DEF Collected
<1>9. IsFiniteSet(Taken) /\ IsFiniteSet(Queuing) BY LedgerFinite
<1>10. PICK a, d, x, o, r, n, c, y, t, e :
           /\ a = kept /\ d = drops /\ x = Cardinality(lost) /\ o = Cardinality(Open)
           /\ r = Cardinality(Queuing) /\ n = Len(col.queue) /\ c = Len(col.batch)
           /\ y = Cardinality(RefusedDrops) /\ t = Cardinality(Taken)
           /\ e = Cardinality(Posted)
    OBVIOUS
<1>11. Even(a, d, x, o, r, n, c, y, t, e) BY <1>10 DEF Balance
<1>12. Cardinality(Taken') = t + 1 BY <1>2, <1>9, <1>10, FS_AddElement
<1>13. /\ kept' = a /\ Cardinality(lost') = x /\ Cardinality(Open') = o
       /\ Len(col'.queue) = n /\ Len(col'.batch) = c /\ Cardinality(RefusedDrops') = y
       /\ Cardinality(Posted') = e
    BY <1>5, <1>6, <1>10
<1>14. CASE Admit(l, counter) = Kept
    <2>1. PICK m : m = Scrub(l) OBVIOUS
    <2>2. m.id = l.id BY <1>2, <2>1, ScrubFacts
    <2>3. /\ reader' = [reader EXCEPT ![s] = [at |-> "queue", line |-> m]]
          /\ UNCHANGED drops
        BY <1>1, <1>14, <2>1 DEF Submit
    <2>4. /\ reader'[s].at = "queue" /\ reader'[s].line = m
          /\ \A r1 \in Sources : r1 # s => reader'[r1] = reader[r1]
        BY <1>5, <2>3
    <2>5. Queuing' = Queuing \cup {s} /\ s \notin Queuing BY <1>5, <2>4 DEF Queuing
    <2>6. \A r1 \in Queuing : reader'[r1].line = reader[r1].line
        BY <2>4, <2>5 DEF Queuing
    <2>7. HeldIds' = HeldIds \cup {l.id} BY <1>5, <2>2, <2>4, <2>5, <2>6 DEF HeldIds
    <2>8. Collected'
        <3>1. (HeldIds \cup Ids(col.batch))' \subseteq TakenIds'
            BY <1>3, <1>5, <2>7 DEF Collected
        <3>2. ASSUME NEW u \in Queuing', NEW v \in Queuing',
                     reader'[u].line.id = reader'[v].line.id
              PROVE  u = v
            <4>1. ASSUME NEW w \in Queuing PROVE reader'[w].line.id # l.id
                BY <1>8, <2>6 DEF HeldIds
            <4>2. CASE u = s
                BY <2>2, <2>4, <2>5, <3>2, <4>1, <4>2
            <4>3. CASE v = s
                BY <2>2, <2>4, <2>5, <3>2, <4>1, <4>3
            <4>4. CASE u # s /\ v # s BY <2>5, <2>6, <3>2, <4>4 DEF Collected
            <4>5. QED BY <4>2, <4>3, <4>4
        <3>3. \A u \in Queuing' : reader'[u].line.id \notin Ids(col'.queue)
            BY <1>5, <1>8, <2>2, <2>4, <2>5, <2>6 DEF Collected, HeldIds
        <3>4. HeldIds' \cap Ids(col'.batch) = {} BY <1>5, <1>8, <2>7 DEF Collected
        <3>5. QED BY <1>5, <3>1, <3>2, <3>3, <3>4 DEF Collected
    <2>9. Settled' BY <1>3, <1>5, <1>6, <1>7, <2>7 DEF Settled
    <2>10. Cardinality(Queuing') = r + 1 BY <1>9, <1>10, <2>5, FS_AddElement
    <2>11. Even(a, d, x, o, r + 1, n, c, y, t + 1, e) BY <1>11 DEF Even
    <2>12. Balance' BY <1>10, <1>12, <1>13, <2>3, <2>10, <2>11 DEF Balance
    <2>13. QED BY <2>8, <2>9, <2>12
<1>15. CASE Admit(l, counter) # Kept
    <2>1. drops' = d + 1 /\ UNCHANGED reader BY <1>1, <1>10, <1>15 DEF Submit
    <2>2. Queuing' = Queuing /\ HeldIds' = HeldIds BY <1>5, <2>1 DEF Queuing, HeldIds
    <2>3. Collected' BY <1>3, <1>5, <2>1, <2>2 DEF Collected
    <2>4. Settled' BY <1>3, <1>5, <1>6, <2>2 DEF Settled
    <2>5. Even(a, d + 1, x, o, r, n, c, y, t + 1, e) BY <1>11 DEF Even
    <2>6. Balance' BY <1>10, <1>12, <1>13, <2>1, <2>2, <2>5 DEF Balance
    <2>7. QED BY <2>3, <2>4, <2>6
<1>16. QED BY <1>14, <1>15

(* A reader queues its line, or drops it because the queue is full.        *)
LEMMA LedgerQueue ==
    ASSUME Types, Types', Fresh, Batches, Collected, Settled, Balance, Taken' = Taken,
           NEW s \in Sources, QueueLine(s)
    PROVE  Collected' /\ Settled' /\ Balance'
<1>1. PICK m, queue : m = reader[s].line /\ queue = col.queue OBVIOUS
<1>2. /\ reader[s].at = "queue" /\ DOMAIN reader = Sources
      /\ reader' = [reader EXCEPT ![s] = [at |-> "read", line |-> None]]
      /\ UNCHANGED <<posts, store, kept, lost>>
    BY DEF QueueLine, ColVars, Types
<1>3. m \in Scrubbed /\ col \in Coll /\ queue \in Seq(Scrubbed) BY <1>1, <1>2 DEF Types, Coll
<1>4. reader'[s].at = "read" /\ \A t \in Sources : t # s => reader'[t] = reader[t] BY <1>2
<1>5. Queuing' = Queuing \ {s} /\ s \in Queuing BY <1>2, <1>4 DEF Queuing
<1>6. \A t \in Queuing' : t \in Queuing /\ t # s /\ reader'[t].line = reader[t].line
    BY <1>4, <1>5 DEF Queuing
<1>7. /\ Open' = Open /\ Saved' = Saved /\ Refused' = Refused /\ Posted' = Posted
      /\ RefusedDrops' = RefusedDrops
    BY <1>2, PostsKept
<1>8. TakenIds' = TakenIds BY DEF TakenIds
<1>9. m.id \in HeldIds /\ m.id \notin Ids(queue) BY <1>1, <1>5 DEF HeldIds, Collected
<1>10. \A t \in Queuing' : reader'[t].line.id # m.id BY <1>1, <1>5, <1>6 DEF Collected
<1>11. IsFiniteSet(Queuing) BY LedgerFinite
<1>12. PICK a, d, x, o, r, n, c, y, t, e :
           /\ a = kept /\ d = drops /\ x = Cardinality(lost) /\ o = Cardinality(Open)
           /\ r = Cardinality(Queuing) /\ n = Len(col.queue) /\ c = Len(col.batch)
           /\ y = Cardinality(RefusedDrops) /\ t = Cardinality(Taken)
           /\ e = Cardinality(Posted)
    OBVIOUS
<1>13. Even(a, d, x, o, r, n, c, y, t, e) BY <1>12 DEF Balance
<1>14. PICK u : u = Cardinality(Queuing') OBVIOUS
<1>15. u \in Nat /\ r = u + 1
    <2>1. Cardinality({s}) = 1 BY FS_Singleton
    <2>2. {s} \subseteq Queuing BY <1>5
    <2>3. QED BY <1>5, <1>11, <1>12, <1>14, <2>1, <2>2, Removed
<1>16. /\ kept' = a /\ Cardinality(lost') = x /\ Cardinality(Open') = o
       /\ Cardinality(RefusedDrops') = y /\ Cardinality(Taken') = t /\ Cardinality(Posted') = e
    BY <1>2, <1>7, <1>12
<1>17. CASE Len(col.queue) >= QueueCap
    <2>1. drops' = d + 1 /\ UNCHANGED col BY <1>12, <1>17 DEF QueueLine
    <2>2. HeldIds' \subseteq HeldIds BY <1>6, <2>1 DEF HeldIds
    <2>3. Collected' BY <1>6, <1>8, <2>1, <2>2 DEF Collected
    <2>4. Settled' BY <1>2, <1>7, <1>8, <2>1, <2>2 DEF Settled
    <2>5. Even(a, d + 1, x, o, u, n, c, y, t, e) BY <1>13, <1>15 DEF Even
    <2>6. Balance' BY <1>12, <1>14, <1>16, <2>1, <2>5 DEF Balance
    <2>7. QED BY <2>3, <2>4, <2>6
<1>18. CASE ~(Len(col.queue) >= QueueCap)
    <2>1. PICK longer : longer = Append(queue, m) OBVIOUS
    <2>2. col' = [col EXCEPT !.queue = longer] /\ UNCHANGED drops
        BY <1>1, <1>3, <1>18, <2>1 DEF QueueLine, Coll
    <2>3. col'.queue = longer /\ col'.batch = col.batch /\ col'.run = col.run
        BY <1>3, <2>2 DEF Coll
    <2>4. Ids(longer) = Ids(queue) \cup {m.id} /\ Distinct(longer)
        <3>1. Distinct(queue) BY <1>1 DEF Collected
        <3>2. QED BY <1>3, <1>9, <2>1, <3>1, IdsAppend
    <2>5. Len(longer) = n + 1 BY <1>1, <1>3, <1>12, <2>1
    <2>6. HeldIds' \subseteq HeldIds BY <1>1, <1>6, <1>9, <2>3, <2>4 DEF HeldIds
    <2>7. Collected'
        <3>1. \A v \in Queuing' : reader'[v].line.id \notin Ids(col'.queue)
            BY <1>1, <1>6, <1>10, <2>3, <2>4 DEF Collected
        <3>2. QED BY <1>6, <1>8, <2>3, <2>4, <2>6, <3>1 DEF Collected
    <2>8. Settled' BY <1>2, <1>7, <1>8, <2>3, <2>6 DEF Settled
    <2>9. Even(a, d, x, o, u, n + 1, c, y, t, e) BY <1>13, <1>15 DEF Even
    <2>10. Balance' BY <1>12, <1>14, <1>16, <2>2, <2>3, <2>5, <2>9 DEF Balance
    <2>11. QED BY <2>7, <2>8, <2>10
<1>19. QED BY <1>17, <1>18

(* The flusher takes the queue.                                            *)
LEMMA LedgerWakes ==
    ASSUME Types, Collected, Settled, Balance, Taken' = Taken,
           NEW stop \in BOOLEAN, FlusherWakes(stop)
    PROVE  Collected' /\ Settled' /\ Balance'
<1>1. PICK queue : queue = col.queue OBVIOUS
<1>2. /\ UNCHANGED <<posts, reader, store, kept, drops, lost>> /\ col.run = "select"
    BY DEF FlusherWakes, ColVars
<1>3. col \in Coll /\ queue \in Seq(Scrubbed) BY <1>1 DEF Types, Coll
<1>4. /\ col'.queue = <<>> /\ col'.batch = queue
      /\ col'.run = IF queue # <<>> THEN "save" ELSE IF stop THEN "exited" ELSE "select"
    BY <1>1, <1>3 DEF FlusherWakes, Coll
<1>5. col.batch = <<>> BY <1>2 DEF Collected
<1>6. /\ Open' = Open /\ Saved' = Saved /\ Refused' = Refused /\ Posted' = Posted
      /\ RefusedDrops' = RefusedDrops
    BY <1>2, PostsKept
<1>7. TakenIds' = TakenIds /\ Queuing' = Queuing BY <1>2 DEF TakenIds, Queuing
<1>8. HeldIds = HeldIds' \cup Ids(queue) /\ HeldIds' \cap Ids(queue) = {}
    BY <1>1, <1>2, <1>4, <1>7, IdsFew DEF HeldIds, Collected
<1>9. Collected'
    <2>1. col'.run \in {"select", "exited"} => col'.batch = <<>>
        BY <1>4
    <2>2. /\ Distinct(col'.queue) /\ Distinct(col'.batch) /\ Ids(col'.queue) = {}
        BY <1>1, <1>4, IdsFew DEF Collected
    <2>3. QED BY <1>2, <1>4, <1>7, <1>8, <2>1, <2>2 DEF Collected
<1>10. Settled' BY <1>2, <1>4, <1>6, <1>7, <1>8 DEF Settled
<1>11. Balance'
    <2>1. Len(col.batch) = 0 /\ Len(col'.queue) = 0 /\ Len(col'.batch) = Len(col.queue)
        BY <1>1, <1>4, <1>5
    <2>2. PICK a, d, x, o, r, n, y, t, e :
              /\ a = kept /\ d = drops /\ x = Cardinality(lost) /\ o = Cardinality(Open)
              /\ r = Cardinality(Queuing) /\ n = Len(col.queue)
              /\ y = Cardinality(RefusedDrops) /\ t = Cardinality(Taken)
              /\ e = Cardinality(Posted)
        OBVIOUS
    <2>3. Even(a, d, x, o, r, n, 0, y, t, e) BY <2>1, <2>2 DEF Balance
    <2>4. Even(a, d, x, o, r, 0, n, y, t, e) BY <2>3 DEF Even
    <2>5. QED BY <1>2, <1>6, <1>7, <2>1, <2>2, <2>4 DEF Balance
<1>12. QED BY <1>9, <1>10, <1>11

(* The flusher saves its batch, counts it, or loses it.                    *)
LEMMA LedgerFlush ==
    ASSUME Types, Types', Fresh, Batches, Collected, Settled, Balance, Taken' = Taken,
           SaveBatch \/ KeepBatch \/ SaveBatchFails
    PROVE  Collected' /\ Settled' /\ Balance'
<1>1. PICK batch : batch = col.batch OBVIOUS
<1>2. col \in Coll /\ batch \in Seq(Scrubbed) /\ store \in Seq(Scrubbed)
    BY <1>1 DEF Types, Coll
<1>3. /\ UNCHANGED <<posts, reader, drops>> /\ col.run \in {"save", "keep"}
    BY DEF SaveBatch, KeepBatch, SaveBatchFails, ColVars
<1>4. /\ Open' = Open /\ Saved' = Saved /\ Refused' = Refused /\ Posted' = Posted
      /\ RefusedDrops' = RefusedDrops
    BY <1>3, PostsKept
<1>5. TakenIds' = TakenIds /\ Queuing' = Queuing BY <1>3 DEF TakenIds, Queuing
<1>6. Distinct(batch) /\ Ids(batch) \subseteq TakenIds /\ Ids(batch) \cap HeldIds = {}
    BY <1>1 DEF Collected
<1>7. PICK a, d, x, o, r, n, c, y, t, e :
          /\ a = kept /\ d = drops /\ x = Cardinality(lost) /\ o = Cardinality(Open)
          /\ r = Cardinality(Queuing) /\ n = Len(col.queue) /\ c = Len(batch)
          /\ y = Cardinality(RefusedDrops) /\ t = Cardinality(Taken)
          /\ e = Cardinality(Posted)
    OBVIOUS
<1>8. Even(a, d, x, o, r, n, c, y, t, e) BY <1>1, <1>7 DEF Balance
<1>9. /\ drops' = d /\ Cardinality(Open') = o /\ Cardinality(Queuing') = r
      /\ Cardinality(RefusedDrops') = y /\ Cardinality(Taken') = t /\ Cardinality(Posted') = e
    BY <1>3, <1>4, <1>5, <1>7
<1>10. CASE SaveBatch
    <2>1. /\ UNCHANGED <<kept, lost>> /\ store' = store \o batch /\ col.run = "save"
          /\ col'.queue = col.queue /\ col'.batch = batch /\ col'.run = "keep"
        BY <1>1, <1>2, <1>10 DEF SaveBatch, Coll
    <2>2. HeldIds' = HeldIds BY <1>3, <1>5, <2>1 DEF HeldIds
    <2>3. Collected' BY <1>1, <1>3, <1>5, <2>1, <2>2 DEF Collected
    <2>4. Ids(store') = Ids(store) \cup Ids(batch) /\ Distinct(store')
        <3>1. Distinct(store) /\ Ids(store) \cap Ids(batch) = {}
            BY <1>1, <2>1 DEF Settled
        <3>2. /\ Ids(store \o batch) = Ids(store) \cup Ids(batch)
              /\ Distinct(store \o batch)
            BY <1>2, <1>6, <3>1, IdsCat
        <3>3. QED BY <2>1, <3>2
    <2>5. Settled' BY <1>1, <1>4, <1>5, <1>6, <2>1, <2>2, <2>4 DEF Settled
    <2>6. Balance' BY <1>1, <1>7, <1>8, <1>9, <2>1 DEF Balance
    <2>7. QED BY <2>3, <2>5, <2>6
<1>11. CASE KeepBatch \/ SaveBatchFails
    <2>1. /\ col'.queue = col.queue /\ col'.batch = <<>> /\ store' = store
          /\ col'.run \in {"exited", "select"}
        BY <1>2, <1>11 DEF KeepBatch, SaveBatchFails, AfterFlush, Coll
    <2>2. HeldIds' = HeldIds BY <1>3, <1>5, <2>1 DEF HeldIds
    <2>3. Ids(col'.batch) = {} /\ Distinct(col'.batch) /\ Len(col'.batch) = 0
        BY <2>1, IdsFew
    <2>4. Collected' BY <1>3, <1>5, <2>1, <2>2, <2>3 DEF Collected
    <2>5. CASE KeepBatch
        <3>1. kept' = a + c /\ lost' = lost BY <1>1, <1>7, <2>5 DEF KeepBatch
        <3>2. Settled' BY <1>4, <1>5, <2>1, <2>2, <2>3, <3>1 DEF Settled
        <3>3. Even(a + c, d, x, o, r, n, 0, y, t, e) BY <1>8 DEF Even
        <3>4. Balance' BY <1>7, <1>9, <2>1, <2>3, <3>1, <3>3 DEF Balance
        <3>5. QED BY <2>4, <3>2, <3>4
    <2>6. CASE SaveBatchFails
        <3>1. kept' = a /\ lost' = lost \cup Ids(batch) /\ col.run = "save"
            BY <1>1, <1>7, <2>6 DEF SaveBatchFails
        <3>2. Settled'
            <4>1. lost' \subseteq (TakenIds \cup Refused)' BY <1>4, <1>5, <1>6, <3>1 DEF Settled
            <4>2. HeldIds' \cap (lost' \cup Ids(store)') = {}
                BY <1>6, <2>1, <2>2, <3>1 DEF Settled
            <4>3. QED BY <1>4, <1>5, <2>1, <2>3, <4>1, <4>2 DEF Settled
        <3>3. Cardinality(lost') = x + c
            <4>1. IsFiniteSet(lost) BY LedgerFinite
            <4>2. IsFiniteSet(Ids(batch)) /\ Cardinality(Ids(batch)) = c
                BY <1>2, <1>6, <1>7, IdsCount
            <4>3. lost \cap Ids(batch) = {} BY <1>1 DEF Settled
            <4>4. QED BY <1>7, <3>1, <4>1, <4>2, <4>3, DisjointUnion
        <3>4. Even(a, d, x + c, o, r, n, 0, y, t, e) BY <1>8 DEF Even
        <3>5. Balance' BY <1>7, <1>9, <2>1, <2>3, <3>1, <3>3, <3>4 DEF Balance
        <3>6. QED BY <2>4, <3>2, <3>5
    <2>7. QED BY <1>11, <2>5, <2>6
<1>12. QED BY <1>10, <1>11

(* In the first state nothing has come in.                                 *)
LEMMA LedgerInit ==
    Init => Ledger
<1>1. SUFFICES ASSUME Init PROVE Ledger OBVIOUS
<1>2. Sourced /\ Taken = {} BY <1>1, SourcedInit
<1>3. /\ posts = <<>> /\ store = <<>> /\ kept = 0 /\ drops = 0 /\ lost = {}
      /\ \A s \in Sources : reader[s].at = "read"
      /\ col.queue = <<>> /\ col.batch = <<>> /\ col.run = "select"
    BY <1>1 DEF Init
<1>4. DOMAIN posts = {} BY <1>3
<1>5. \A places : IdsAt(places) = {} BY <1>4 DEF IdsAt
<1>6. Open = {} /\ Saved = {} /\ Refused = {} /\ Posted = {} /\ RefusedDrops = {}
    BY <1>4, <1>5 DEF Open, Saved, Refused, Posted, RefusedDrops
<1>7. Queuing = {} /\ TakenIds = {} BY <1>2, <1>3 DEF Queuing, TakenIds
<1>8. Ids(col.queue) = {} /\ Ids(col.batch) = {} /\ Ids(store) = {} BY <1>3, IdsFew
<1>9. HeldIds = {} BY <1>7, <1>8 DEF HeldIds
<1>10. Collected BY <1>3, <1>7, <1>8, <1>9, IdsFew DEF Collected
<1>11. Settled BY <1>3, <1>8, <1>9, IdsFew DEF Settled
<1>12. Balance
    <2>1. Cardinality({}) = 0 BY FS_EmptySet
    <2>2. Len(col.queue) = 0 /\ Len(col.batch) = 0 BY <1>3
    <2>3. Even(0, 0, 0, 0, 0, 0, 0, 0, 0, 0) BY DEF Even
    <2>4. QED BY <1>2, <1>3, <1>6, <1>7, <2>1, <2>2, <2>3 DEF Balance
<1>13. QED BY <1>2, <1>10, <1>11, <1>12 DEF Ledger

(* Every step keeps the ledger even.                                       *)
LEMMA LedgerStep ==
    Types /\ Types' /\ Fresh /\ Batches /\ Ledger /\ [Next]_vars => Ledger'
<1>1. SUFFICES ASSUME Types, Types', Fresh, Batches, Ledger, [Next]_vars PROVE Ledger'
    OBVIOUS
<1>2. Sourced /\ Collected /\ Settled /\ Balance BY <1>1 DEF Ledger
<1>3. CASE /\ UNCHANGED <<source, child, posts, store, kept, drops, lost>> /\ SameHeld
           /\ UNCHANGED app \/ (app.todo # <<>> /\ Handle(Head(app.todo)))
    <2>1. Sourced' /\ Taken' = Taken BY <1>1, <1>2, <1>3, SourcedKept
    <2>2. Collected' /\ Settled' /\ Balance' BY <1>2, <1>3, <2>1, LedgerKept
    <2>3. QED BY <2>1, <2>2 DEF Ledger
<1>4. CASE app.todo # <<>> /\ Handle(Head(app.todo))
    <2>1. UNCHANGED <<source, child, posts, store, kept, drops, lost>> /\ SameHeld
        BY <1>4 DEF Handle, agentVars, SameHeld
    <2>2. QED BY <1>3, <1>4, <2>1
<1>5. CASE \/ CloseSink \/ (\E stop \in BOOLEAN : SinkWakes(stop))
           \/ AnswerArrives \/ AnswerLost
    BY <1>3, <1>5
    DEF CloseSink, SinkWakes, AnswerArrives, AnswerLost, agentVars, SameHeld
<1>6. CASE StopAgent \/ AdminDown \/ CollectorClosed \/ Stopped
    <2>1. UNCHANGED <<app, source, child, posts, store, kept, drops, lost, reader>>
        BY <1>6 DEF StopAgent, AdminDown, CollectorClosed, Stopped, AgentVars
    <2>2. col'.queue = col.queue /\ col'.batch = col.batch /\ col'.run = col.run
        <3>1. col \in Coll BY <1>1 DEF Types
        <3>2. CASE AdminDown BY <3>1, <3>2 DEF AdminDown, Coll
        <3>3. CASE StopAgent \/ CollectorClosed \/ Stopped
            BY <3>3 DEF StopAgent, CollectorClosed, Stopped
        <3>4. QED BY <1>6, <3>2, <3>3
    <2>3. QED BY <1>3, <2>1, <2>2 DEF SameHeld
<1>7. CASE UNCHANGED vars BY <1>3, <1>7 DEF vars, SameHeld
<1>8. CASE app.todo # <<>> /\ Write(Head(app.todo))
    <2>1. Sourced' /\ Taken' = Taken BY <1>1, <1>2, <1>8, SourcedWrite
    <2>2. UNCHANGED <<posts, store, kept, drops, lost>> /\ SameHeld
        BY <1>8 DEF Write, ColVars, SameHeld
    <2>3. Collected' /\ Settled' /\ Balance' BY <1>2, <2>1, <2>2, LedgerKept
    <2>4. QED BY <2>1, <2>3 DEF Ledger
<1>9. CASE ChildExits
    <2>1. Sourced' /\ Taken' = Taken BY <1>1, <1>2, <1>9, SourcedExit
    <2>2. UNCHANGED <<posts, store, kept, drops, lost>> /\ SameHeld
        BY <1>9 DEF ChildExits, ColVars, SameHeld
    <2>3. Collected' /\ Settled' /\ Balance' BY <1>2, <2>1, <2>2, LedgerKept
    <2>4. QED BY <2>1, <2>3 DEF Ledger
<1>10. CASE \/ PostArrives
            \/ \E p \in DOMAIN posts : AdmitLine(p) \/ SavePost(p) \/ SavePostFails(p)
                                       \/ AcceptPost(p) \/ FanOutPanics(p)
    <2>1. UNCHANGED <<app, source, child>> /\ SameHeld
        BY <1>10
        DEF PostArrives, AdmitLine, SavePost, SavePostFails, AcceptPost, FanOutPanics,
            PostVars, SameHeld
    <2>2. Sourced' /\ Taken' = Taken BY <1>1, <1>2, <2>1, SourcedKept
    <2>3. CASE PostArrives
        <3>1. Collected' /\ Settled' /\ Balance'
            BY <1>1, <1>2, <2>1, <2>2, <2>3, LedgerArrives
        <3>2. QED BY <2>2, <3>1 DEF Ledger
    <2>4. ASSUME NEW p \in DOMAIN posts,
                 AdmitLine(p) \/ SavePost(p) \/ SavePostFails(p) \/ AcceptPost(p) \/ FanOutPanics(p)
          PROVE  Ledger'
        <3>1. CASE AdmitLine(p)
            <4>1. Collected' /\ Settled' /\ Balance'
                BY <1>1, <1>2, <2>1, <2>2, <3>1, LedgerAdmit
            <4>2. QED BY <2>2, <4>1 DEF Ledger
        <3>2. CASE SavePost(p)
            <4>1. Collected' /\ Settled' /\ Balance'
                BY <1>1, <1>2, <2>1, <2>2, <3>2, LedgerSave
            <4>2. QED BY <2>2, <4>1 DEF Ledger
        <3>3. CASE SavePostFails(p)
            <4>1. Collected' /\ Settled' /\ Balance'
                BY <1>1, <1>2, <2>1, <2>2, <3>3, LedgerSaveFails
            <4>2. QED BY <2>2, <4>1 DEF Ledger
        <3>4. CASE AcceptPost(p) \/ FanOutPanics(p)
            <4>1. Collected' /\ Settled' /\ Balance'
                BY <1>1, <1>2, <2>1, <2>2, <3>4, LedgerCount
            <4>2. QED BY <2>2, <4>1 DEF Ledger
        <3>5. QED BY <2>4, <3>1, <3>2, <3>3, <3>4
    <2>5. QED BY <1>10, <2>3, <2>4
<1>11. ASSUME NEW s \in Sources, Submit(s) PROVE Ledger'
    <2>1. PICK l : l = Head(source[s]) OBVIOUS
    <2>2. Sourced' BY <1>1, <1>2, <1>11, <2>1, SourcedSubmit
    <2>3. Collected' /\ Settled' /\ Balance' BY <1>1, <1>2, <1>11, LedgerSubmit
    <2>4. QED BY <2>2, <2>3 DEF Ledger
<1>12. CASE \/ (\E s \in Sources : QueueLine(s)) \/ (\E stop \in BOOLEAN : FlusherWakes(stop))
            \/ SaveBatch \/ KeepBatch \/ SaveBatchFails
    <2>1. UNCHANGED <<app, source, child>>
        BY <1>12 DEF QueueLine, FlusherWakes, SaveBatch, KeepBatch, SaveBatchFails
    <2>2. Sourced' /\ Taken' = Taken BY <1>1, <1>2, <2>1, SourcedKept
    <2>3. Collected' /\ Settled' /\ Balance'
        <3>1. CASE \E s \in Sources : QueueLine(s)
            BY <1>1, <1>2, <2>2, <3>1, LedgerQueue
        <3>2. CASE \E stop \in BOOLEAN : FlusherWakes(stop)
            BY <1>1, <1>2, <2>2, <3>2, LedgerWakes
        <3>3. CASE SaveBatch \/ KeepBatch \/ SaveBatchFails
            BY <1>1, <1>2, <2>2, <3>3, LedgerFlush
        <3>4. QED BY <1>12, <3>1, <3>2, <3>3
    <2>4. QED BY <2>2, <2>3 DEF Ledger
<1>13. CASE Next
    <2>1. CASE \/ app.todo # <<>> /\ (Handle(Head(app.todo)) \/ Write(Head(app.todo)))
               \/ CloseSink
               \/ \E stop \in BOOLEAN : SinkWakes(stop) \/ FlusherWakes(stop)
        BY <1>4, <1>5, <1>8, <1>12, <2>1
    <2>2. CASE \/ PostArrives \/ AnswerArrives \/ AnswerLost
               \/ \E p \in DOMAIN posts : AdmitLine(p) \/ SavePost(p) \/ SavePostFails(p)
                                          \/ AcceptPost(p) \/ FanOutPanics(p)
        BY <1>5, <1>10, <2>2
    <2>3. CASE \/ ChildExits \/ (\E s \in Sources : Submit(s) \/ QueueLine(s))
               \/ SaveBatch \/ KeepBatch \/ SaveBatchFails
        BY <1>9, <1>11, <1>12, <2>3
    <2>4. CASE StopAgent \/ AdminDown \/ CollectorClosed \/ Stopped BY <1>6, <2>4
    <2>5. QED BY <1>13, <2>1, <2>2, <2>3, <2>4 DEF Next
<1>14. QED BY <1>1, <1>7, <1>13
-----------------------------------------------------------------------------
(* The bounds                                                              *)

(* A queue is never longer than its bound, and the application writes one  *)
(* script.                                                                 *)
Bounded ==
    /\ \E script \in Scripts : Range(app.todo) \cup app.written = Range(script)
    /\ Len(sdk.queue) <= MaxQueue /\ Len(col.queue) <= QueueCap
    /\ stage \in {"up", "admin", "collector", "dispatcher", "stopped"}

(* The first state is within the bounds.                                   *)
LEMMA BoundedInit ==
    Init => Bounded
<1>1. SUFFICES ASSUME Init PROVE Bounded OBVIOUS
<1>2. PICK script \in Scripts : app = [todo |-> script, written |-> {}] BY <1>1 DEF Init
<1>3. Range(app.todo) \cup app.written = Range(script) BY <1>2
<1>4. sdk.queue = <<>> /\ col.queue = <<>> /\ stage = "up" BY <1>1 DEF Init
<1>5. Len(sdk.queue) = 0 /\ Len(col.queue) = 0 BY <1>4
<1>6. 0 <= MaxQueue /\ 0 <= QueueCap BY PipelineAssumption
<1>7. QED BY <1>3, <1>4, <1>5, <1>6 DEF Bounded

(* No step of either queue's owner goes past the bound.                    *)
LEMMA BoundedStep ==
    Types /\ Bounded /\ [Next]_vars => Bounded'
<1>1. SUFFICES ASSUME Types, Bounded, [Next]_vars PROVE Bounded' OBVIOUS
<1>2. sdk \in Sink /\ col \in Coll /\ app.todo \in Seq(Lines) BY <1>1 DEF Types
<1>3. /\ sdk.queue \in Seq(Lines) /\ col.queue \in Seq(Scrubbed)
      /\ MaxQueue \in Nat /\ QueueCap \in Nat
    BY <1>2, PipelineAssumption DEF Sink, Coll
<1>4. ASSUME app.todo # <<>>, app' = Logged(Head(app.todo))
      PROVE  Range(app'.todo) \cup app'.written = Range(app.todo) \cup app.written
    <2>1. PICK l, t : l = Head(app.todo) /\ t = Tail(app.todo) OBVIOUS
    <2>2. app'.todo = t /\ app'.written = app.written \cup {l} BY <1>4, <2>1 DEF Logged
    <2>3. Range(app.todo) = {l} \cup Range(t) BY <1>2, <1>4, <2>1, IdsTail
    <2>4. QED BY <2>2, <2>3
<1>5. CASE UNCHANGED <<app, stage>> /\ sdk'.queue = sdk.queue /\ col'.queue = col.queue
    BY <1>1, <1>5 DEF Bounded
<1>6. CASE app.todo # <<>> /\ Handle(Head(app.todo))
    <2>1. PICK l, queue : l = Head(app.todo) /\ queue = sdk.queue OBVIOUS
    <2>2. app' = Logged(l) /\ UNCHANGED <<stage, col>>
        BY <1>6, <2>1 DEF Handle, agentVars
    <2>3. Len(sdk'.queue) <= MaxQueue
        <3>1. CASE sdk'.queue = queue BY <1>1, <2>1, <3>1 DEF Bounded
        <3>2. CASE sdk'.queue # queue
            <4>1. PICK longer : longer = Append(queue, l) OBVIOUS
            <4>2. l \in Lines /\ queue \in Seq(Lines) BY <1>2, <1>3, <1>6, <2>1, RangeFacts
            <4>3. Len(longer) = Len(queue) + 1 /\ Len(queue) \in Nat BY <4>1, <4>2
            <4>4. \/ sdk' = [sdk EXCEPT !.silent = @ + 1]
                  \/ sdk' = [sdk EXCEPT !.dropped = @ + 1]
                  \/ ~(Len(queue) >= MaxQueue) /\ sdk' = [sdk EXCEPT !.queue = longer]
                BY <1>2, <1>6, <2>1, <4>1 DEF Handle, Sink
            <4>5. ~(Len(queue) >= MaxQueue) /\ sdk'.queue = longer
                BY <1>2, <2>1, <3>2, <4>4 DEF Sink
            <4>6. QED BY <1>3, <4>3, <4>5
        <3>3. QED BY <3>1, <3>2
    <2>4. QED BY <1>1, <1>4, <1>6, <2>1, <2>2, <2>3 DEF Bounded
<1>7. CASE app.todo # <<>> /\ Write(Head(app.todo))
    <2>1. app' = Logged(Head(app.todo)) /\ UNCHANGED <<stage, col, sdk>>
        BY <1>7 DEF Write, ColVars
    <2>2. QED BY <1>1, <1>4, <1>7, <2>1 DEF Bounded
<1>8. CASE \E stop \in BOOLEAN : SinkWakes(stop)
    <2>1. UNCHANGED <<app, stage, col>> /\ sdk'.queue = <<>>
        BY <1>2, <1>8 DEF SinkWakes, agentVars, Sink
    <2>2. Len(sdk'.queue) = 0 BY <2>1
    <2>3. QED BY <1>1, <1>3, <2>1, <2>2 DEF Bounded
<1>9. CASE CloseSink \/ AnswerArrives \/ AnswerLost \/ PostArrives
    <2>1. UNCHANGED <<app, stage, col>>
        BY <1>9 DEF CloseSink, AnswerArrives, AnswerLost, PostArrives, agentVars
    <2>2. sdk'.queue = sdk.queue
        <3>1. CASE CloseSink BY <1>2, <3>1 DEF CloseSink, Sink
        <3>2. CASE PostArrives BY <1>2, <3>2 DEF PostArrives, Sink
        <3>3. CASE AnswerArrives \/ AnswerLost
            <4>1. PICK field \in {"sent", "failed"} : Settle(field)
                BY <3>3 DEF AnswerArrives, AnswerLost
            <4>2. QED BY <1>2, <4>1 DEF Settle, Sink
        <3>4. QED BY <1>9, <3>1, <3>2, <3>3
    <2>3. QED BY <1>5, <2>1, <2>2
<1>10. CASE \E p \in DOMAIN posts : AdmitLine(p) \/ SavePost(p) \/ SavePostFails(p)
                                    \/ AcceptPost(p) \/ FanOutPanics(p)
    BY <1>5, <1>10 DEF AdmitLine, SavePost, SavePostFails, AcceptPost, FanOutPanics, PostVars
<1>11. CASE ChildExits \/ (\E s \in Sources : Submit(s))
    BY <1>5, <1>11 DEF ChildExits, Submit, ColVars
<1>12. CASE \E s \in Sources : QueueLine(s)
    <2>1. PICK s \in Sources : QueueLine(s) BY <1>12
    <2>2. PICK m, queue : m = reader[s].line /\ queue = col.queue OBVIOUS
    <2>3. UNCHANGED <<app, stage, sdk>> BY <2>1 DEF QueueLine, ColVars
    <2>4. m \in Scrubbed BY <1>1, <2>1, <2>2 DEF Types, QueueLine
    <2>5. CASE Len(queue) >= QueueCap
        <3>1. UNCHANGED col BY <2>1, <2>2, <2>5 DEF QueueLine
        <3>2. QED BY <1>5, <2>3, <3>1
    <2>6. CASE ~(Len(queue) >= QueueCap)
        <3>1. PICK longer : longer = Append(queue, m) OBVIOUS
        <3>2. col' = [col EXCEPT !.queue = longer]
            BY <1>2, <2>1, <2>2, <2>6, <3>1 DEF QueueLine, Coll
        <3>3. col'.queue = longer BY <1>2, <3>2 DEF Coll
        <3>4. Len(longer) = Len(queue) + 1 /\ Len(queue) \in Nat
            BY <1>3, <2>2, <2>4, <3>1
        <3>5. Len(col'.queue) <= QueueCap BY <1>3, <2>6, <3>3, <3>4
        <3>6. QED BY <1>1, <2>3, <3>5 DEF Bounded
    <2>7. QED BY <2>5, <2>6
<1>13. CASE \E stop \in BOOLEAN : FlusherWakes(stop)
    <2>1. UNCHANGED <<app, stage, sdk>> /\ col'.queue = <<>>
        BY <1>2, <1>13 DEF FlusherWakes, ColVars, Coll
    <2>2. Len(col'.queue) = 0 BY <2>1
    <2>3. QED BY <1>1, <1>3, <2>1, <2>2 DEF Bounded
<1>14. CASE SaveBatch \/ KeepBatch \/ SaveBatchFails
    <2>1. UNCHANGED <<app, stage, sdk>> /\ col'.queue = col.queue
        BY <1>2, <1>14 DEF SaveBatch, KeepBatch, SaveBatchFails, AfterFlush, ColVars, Coll
    <2>2. QED BY <1>5, <2>1
<1>15. CASE StopAgent \/ AdminDown \/ CollectorClosed \/ Stopped
    <2>1. UNCHANGED <<app, sdk>>
        BY <1>15 DEF StopAgent, AdminDown, CollectorClosed, Stopped, AgentVars
    <2>2. col'.queue = col.queue
        BY <1>2, <1>15 DEF StopAgent, AdminDown, CollectorClosed, Stopped, Coll
    <2>3. stage' \in {"up", "admin", "collector", "dispatcher", "stopped"}
        BY <1>15 DEF StopAgent, AdminDown, CollectorClosed, Stopped
    <2>4. QED BY <1>1, <2>1, <2>2, <2>3 DEF Bounded
<1>16. CASE UNCHANGED vars BY <1>5, <1>16 DEF vars
<1>17. CASE Next
    <2>1. CASE \/ app.todo # <<>> /\ (Handle(Head(app.todo)) \/ Write(Head(app.todo)))
               \/ CloseSink
               \/ \E stop \in BOOLEAN : SinkWakes(stop) \/ FlusherWakes(stop)
        BY <1>6, <1>7, <1>8, <1>9, <1>13, <2>1
    <2>2. CASE \/ PostArrives \/ AnswerArrives \/ AnswerLost
               \/ \E p \in DOMAIN posts : AdmitLine(p) \/ SavePost(p) \/ SavePostFails(p)
                                          \/ AcceptPost(p) \/ FanOutPanics(p)
        BY <1>9, <1>10, <2>2
    <2>3. CASE \/ ChildExits \/ (\E s \in Sources : Submit(s) \/ QueueLine(s))
               \/ SaveBatch \/ KeepBatch \/ SaveBatchFails
        BY <1>11, <1>12, <1>14, <2>3
    <2>4. CASE StopAgent \/ AdminDown \/ CollectorClosed \/ Stopped BY <1>15, <2>4
    <2>5. QED BY <1>17, <2>1, <2>2, <2>3, <2>4 DEF Next
<1>18. QED BY <1>1, <1>16, <1>17

(* The invariant of the third theorem.                                     *)
LEMMA LedgerHolds ==
    Spec => [](Ledger /\ Bounded)
<1>1. Init => Ledger /\ Bounded BY LedgerInit, BoundedInit
<1>2. Types /\ Types' /\ SinkInv /\ Ledger /\ Bounded /\ [Next]_vars => Ledger' /\ Bounded'
    BY LedgerStep, BoundedStep DEF SinkInv
<1>3. IInv => Types BY DEF IInv
<1>4. QED BY <1>1, <1>2, <1>3, InvHolds, SinkInvHolds, PTL DEF Spec

(* No line that the agent has taken in is counted twice or stored twice,   *)
(* and only those of a refused post or a failed save can be missing from   *)
(* the counters, however flushes, client timeouts, failed saves and the    *)
(* shutdown overlap (admin.go ingestAppLogs, collect.go flush).            *)
THEOREM LinesAccounted ==
    Spec => []LinesBalance
<1>1. ASSUME IInv, SinkInv, Ledger, Bounded PROVE LinesBalance
    <2>1. Types /\ Counting /\ Fresh /\ Batches /\ Collected /\ Settled /\ Balance
        BY <1>1 DEF IInv, SinkInv, Ledger
    <2>2. /\ kept \in Nat /\ drops \in Nat
          /\ kept + drops + Cardinality(lost) + Cardinality(Open) + Cardinality(Queuing)
                 + Len(col.queue) + Len(col.batch) + Cardinality(RefusedDrops)
                 = Cardinality(Taken) + Cardinality(Posted)
          /\ {Cardinality(lost), Cardinality(Open), Cardinality(Queuing), Len(col.queue),
              Len(col.batch), Cardinality(RefusedDrops), Cardinality(Taken),
              Cardinality(Posted)} \subseteq Nat
        BY <2>1 DEF Balance, Even
    <2>3. TypeOK
        <3>1. /\ \E script \in Scripts : Range(app.todo) \cup app.written = Range(script)
              /\ Len(sdk.queue) <= MaxQueue /\ Len(col.queue) <= QueueCap
            BY <1>1 DEF Bounded
        <3>2. stage \in Range(Stages)
            <4>1. PICK f : f = Stages OBVIOUS
            <4>2. DOMAIN f = 1..5 /\ f[1] = "up" /\ f[2] = "admin" /\ f[3] = "collector"
                  /\ f[4] = "dispatcher" /\ f[5] = "stopped"
                BY <4>1 DEF Stages
            <4>3. stage \in {f[i] : i \in 1..5} BY <1>1, <4>2 DEF Bounded
            <4>4. QED BY <4>1, <4>2, <4>3 DEF Range
        <3>3. sdk.run \in {"select", "post", "wait", "exited"} BY <2>1 DEF Types, Sink
        <3>4. col.run \in {"select", "save", "keep", "exited"} BY <2>1 DEF Types, Coll
        <3>5. child.at \in {"none", "running", "exited"} BY <2>1 DEF Types
        <3>6. \A p \in DOMAIN posts :
                  posts[p].at \in {"admit", "count", "accepted", "refused", "broken"}
            <4>1. \A p \in DOMAIN posts : posts[p] \in Post BY <2>1 DEF Types
            <4>2. QED BY <4>1 DEF Post
        <3>7. /\ Cardinality(DOMAIN counter.cur) <= MaxTracked
              /\ Cardinality(DOMAIN counter.prev) <= MaxTracked
            BY <2>1 DEF Counting, CounterOK
        <3>8. lost \subseteq AllIds
            <4>1. \A l \in Lines : l.id \in AllIds
                <5>1. \A script \in Scripts : \A l \in Range(script) : l.id \in Ids(script)
                    BY DEF Ids
                <5>2. QED BY <5>1 DEF AllIds, Lines
            <4>2. \A l \in app.written : l.id \in AllIds BY <2>1, <4>1 DEF Types
            <4>3. TakenIds \subseteq AllIds BY <4>2 DEF TakenIds, Taken
            <4>4. SdkIds \subseteq AllIds BY <4>2 DEF SdkIds, SdkLines
            <4>5. Refused \subseteq SdkIds BY <2>1 DEF Refused, IdsAt, Batches
            <4>6. QED BY <2>1, <4>3, <4>4, <4>5 DEF Settled
        <3>9. QED BY <2>2, <3>1, <3>2, <3>3, <3>4, <3>5, <3>6, <3>7, <3>8 DEF TypeOK
    <2>4. UNION {Ids(q.todo) \cup Ids(q.keep) \cup q.drop : q \in Uncounted} = Open
        <3>1. ASSUME NEW p \in DOMAIN posts, posts[p].at \in {"admit", "count"}
              PROVE  posts[p].ids = Ids(posts[p].todo) \cup Ids(posts[p].keep) \cup posts[p].drop
            BY <2>1, <3>1 DEF Batches, PostOK
        <3>2. Uncounted =
                  {posts[p] : p \in {p \in DOMAIN posts : posts[p].at \in {"admit", "count"}}}
            BY DEF Uncounted, Range
        <3>3. QED BY <3>1, <3>2 DEF Open, IdsAt
    <2>5. UNION {q.drop : q \in {q \in Range(posts) : q.at = "refused"}} = RefusedDrops
        BY DEF RefusedDrops, Range
    <2>6. UNION {q.ids : q \in Range(posts)} = Posted
        <3>1. {p \in DOMAIN posts :
                   posts[p].at \in {"admit", "count", "accepted", "refused", "broken"}}
                  = DOMAIN posts
            <4>1. \A p \in DOMAIN posts : posts[p] \in Post BY <2>1 DEF Types
            <4>2. QED BY <4>1 DEF Post
        <3>2. Posted = UNION {posts[p].ids : p \in DOMAIN posts} BY <3>1 DEF Posted, IdsAt
        <3>3. QED BY <3>2 DEF Range
    <2>7. InFlight = Cardinality(Open) + Cardinality(Queuing) + Len(col.queue) + Len(col.batch)
        BY <2>4 DEF InFlight, Queuing
    <2>8. Entered = Cardinality(Taken) + Cardinality(Posted) BY <2>6 DEF Entered, Taken
    <2>9. UncountedDrops = Cardinality(RefusedDrops) BY <2>5 DEF UncountedDrops
    <2>10. /\ kept + drops + InFlight <= Entered
           /\ Entered <= kept + drops + InFlight + Cardinality(lost) + UncountedDrops
        <3>1. PICK k, d, l, o, r, q, n, x, t, e :
                  /\ k = kept /\ d = drops
                  /\ l = Cardinality(lost) /\ o = Cardinality(Open) /\ r = Cardinality(Queuing)
                  /\ q = Len(col.queue) /\ n = Len(col.batch) /\ x = Cardinality(RefusedDrops)
                  /\ t = Cardinality(Taken) /\ e = Cardinality(Posted)
            OBVIOUS
        <3>2. /\ k \in Nat /\ d \in Nat /\ l \in Nat /\ o \in Nat /\ r \in Nat /\ q \in Nat
              /\ n \in Nat /\ x \in Nat /\ t \in Nat /\ e \in Nat
            BY <2>2, <3>1
        <3>3. k + d + l + o + r + q + n + x = t + e BY <2>2, <3>1
        <3>4. /\ k + d + (o + r + q + n) <= t + e
              /\ t + e <= k + d + (o + r + q + n) + l + x
            BY <3>2, <3>3
        <3>5. /\ InFlight = o + r + q + n /\ Entered = t + e
              /\ UncountedDrops = x /\ Cardinality(lost) = l /\ kept = k /\ drops = d
            BY <2>7, <2>8, <2>9, <3>1
        <3>6. QED BY <3>4, <3>5
    <2>11. \A i, j \in DOMAIN store : store[i].id = store[j].id => i = j
        BY <2>1 DEF Settled, Distinct
    <2>12. QED BY <2>3, <2>10, <2>11 DEF LinesBalance
<1>2. QED BY <1>1, InvHolds, SinkInvHolds, LedgerHolds, PTL
=============================================================================
