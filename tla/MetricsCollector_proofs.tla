---------------------- MODULE MetricsCollector_proofs -----------------------
(***************************************************************************)
(* Counting and the label budget, for any number of exchanges, of reloads, *)
(* of label values and of keys, and any budget.                            *)
(***************************************************************************)
EXTENDS MetricsCollector, FiniteSetTheorems, TLAPS

AllValues == Values \cup {Empty, OverLimit}

Generation == [keys : Schemas, counter : SUBSET (Observers \X Seq(AllValues)),
               latency : SUBSET (Observers \X Seq(AllValues))]

Call == [at : {"guard", "done"}, gen : Nat, labels : [Keys -> Values \cup {Empty}],
         stream : BOOLEAN, vals : Seq(AllValues), epochs : Seq(Nat),
         fresh : BOOLEAN, before : Nat]

Types ==
    /\ gens \in Seq(Generation) /\ gens # <<>>
    /\ seen \in [Keys -> SUBSET Values] /\ capped \in Nat
    /\ obs \in [Observers -> {[at |-> "new"]} \cup Call]

(* The two stores of a reload, and the reset behind them.                  *)
Relabelling ==
    /\ relabel \in {"idle", "dims", "seen"}
    /\ dynamic = Len(gens)
    /\ dims = (IF relabel = "dims" THEN Len(gens) - 1 ELSE Len(gens))
    /\ relabel # "idle" => Len(gens) > 1

(* The i-th guard call of an exchange.                                     *)
Answer(o, i) ==
    /\ obs[o].vals[i] \in {obs[o].labels[gens[obs[o].gen].keys[i]], OverLimit}
    /\ obs[o].epochs[i] \in 0..Resets

Observing(o) ==
    /\ obs[o].gen \in 1..dims
    /\ DOMAIN obs[o].epochs = DOMAIN obs[o].vals
    /\ Len(obs[o].vals) <= Len(gens[obs[o].gen].keys)
    /\ obs[o].at = "done" => Len(obs[o].vals) = Len(gens[obs[o].gen].keys)
    /\ obs[o].fresh => obs[o].gen = obs[o].before
    /\ \A i \in DOMAIN obs[o].vals : Answer(o, i)

Calls == \A o \in Observers : obs[o].at # "new" => Observing(o)

(* What the vectors of each generation hold.                               *)
Samples ==
    /\ \A g \in DOMAIN gens :
          /\ gens[g].counter = {<<o, obs[o].vals>> : o \in {p \in Done : obs[p].gen = g}}
          /\ gens[g].latency =
                {<<o, obs[o].vals>> : o \in {p \in Done : obs[p].gen = g /\ ~obs[p].stream}}
    /\ streamed = {o \in Done : obs[o].stream}

(* What the guard holds is what it admitted since its last reset.          *)
Budget ==
    Cap > 0 => \A k \in Keys :
        /\ seen[k] = Admitted(k, Resets)
        /\ \A e \in 0..Resets :
              IsFiniteSet(Admitted(k, e)) /\ Cardinality(Admitted(k, e)) <= Cap

(* A folded value came after a full budget of others.                      *)
Folded ==
    \A o \in Observers : obs[o].at # "new" =>
        \A i \in DOMAIN obs[o].vals : obs[o].vals[i] = OverLimit =>
            LET key == gens[obs[o].gen].keys[i] IN
            /\ Cap > 0
            /\ Cardinality(Admitted(key, obs[o].epochs[i]) \ {obs[o].labels[key]}) >= Cap

IInv == Types /\ Relabelling /\ Calls /\ Samples /\ Budget /\ Folded
-----------------------------------------------------------------------------
(* Records and sequences                                                   *)

(* The elements of a sequence that grows at its end.                       *)
LEMMA AppendFacts ==
    ASSUME NEW S, NEW s \in Seq(S), NEW x \in S
    PROVE  /\ Append(s, x) \in Seq(S) /\ Len(s) \in Nat /\ DOMAIN s = 1..Len(s)
           /\ Len(Append(s, x)) = Len(s) + 1
           /\ DOMAIN Append(s, x) = 1..(Len(s) + 1)
           /\ \A i \in 1..Len(s) : Append(s, x)[i] = s[i]
           /\ Append(s, x)[Len(s) + 1] = x
OBVIOUS

(* The fields of a call.                                                   *)
LEMMA CallFacts ==
    ASSUME NEW c \in Call
    PROVE  /\ c.at \in {"guard", "done"} /\ c.gen \in Nat
           /\ c.labels \in [Keys -> Values \cup {Empty}] /\ c.stream \in BOOLEAN
           /\ c.vals \in Seq(AllValues) /\ c.epochs \in Seq(Nat)
BY DEF Call

(* A sequence with one more element.                                       *)
Grown(s, x) == Append(s, x)

(* A call that has one more answer.                                        *)
More(c, v, e) == [c EXCEPT !.vals = Append(c.vals, v), !.epochs = Append(c.epochs, e)]

(* It is a call that differs in its answers only.                          *)
LEMMA MoreFacts ==
    ASSUME NEW c \in Call, NEW v \in AllValues, NEW e \in Nat, NEW d, d = More(c, v, e)
    PROVE  /\ d \in Call /\ d.at = c.at /\ d.gen = c.gen /\ d.labels = c.labels
           /\ d.stream = c.stream /\ d.fresh = c.fresh /\ d.before = c.before
           /\ d.vals = Grown(c.vals, v) /\ d.epochs = Grown(c.epochs, e)
<1>1. Append(c.vals, v) \in Seq(AllValues) BY CallFacts, AppendFacts
<1>2. Append(c.epochs, e) \in Seq(Nat) BY CallFacts, AppendFacts
<1> DEFINE vs == Append(c.vals, v)
           es == Append(c.epochs, e)
<1>3. d = [c EXCEPT !.vals = vs, !.epochs = es] BY DEF More
<1>4. vs \in Seq(AllValues) /\ es \in Seq(Nat) BY <1>1, <1>2
<1> HIDE DEF vs, es
<1>5. /\ d \in Call /\ d.at = c.at /\ d.gen = c.gen /\ d.labels = c.labels
      /\ d.stream = c.stream /\ d.fresh = c.fresh /\ d.before = c.before
      /\ d.vals = vs /\ d.epochs = es
    BY <1>3, <1>4 DEF Call
<1>6. QED BY <1>5 DEF vs, es, Grown

(* A call that has recorded its sample.                                    *)
Ended(c) == [c EXCEPT !.at = "done"]

(* It is a call that differs in its place only.                            *)
LEMMA EndedFacts ==
    ASSUME NEW c \in Call, NEW d, d = Ended(c)
    PROVE  /\ d \in Call /\ d.at = "done" /\ d.gen = c.gen /\ d.labels = c.labels
           /\ d.stream = c.stream /\ d.fresh = c.fresh /\ d.before = c.before
           /\ d.vals = c.vals /\ d.epochs = c.epochs
BY DEF Ended, Call

(* A generation whose vectors have grown.                                  *)
Sampled(g, counter, latency) == [g EXCEPT !.counter = counter, !.latency = latency]

(* It is a generation that differs in its vectors only.                    *)
LEMMA SampledFacts ==
    ASSUME NEW g \in Generation, NEW counter \in SUBSET (Observers \X Seq(AllValues)),
           NEW latency \in SUBSET (Observers \X Seq(AllValues)),
           NEW h, h = Sampled(g, counter, latency)
    PROVE  /\ h \in Generation /\ h.keys = g.keys
           /\ h.counter = counter /\ h.latency = latency
BY DEF Sampled, Generation

(* The samples of a generation.                                            *)
LEMMA GenerationFacts ==
    ASSUME NEW g \in Generation
    PROVE  /\ g.counter \in SUBSET (Observers \X Seq(AllValues))
           /\ g.latency \in SUBSET (Observers \X Seq(AllValues))
BY DEF Generation

(* A generation that was just built.                                       *)
LEMMA NewGenFacts ==
    ASSUME NEW keys \in Schemas, NEW g, g = NewGen(keys)
    PROVE  g \in Generation /\ g.keys = keys /\ g.counter = {} /\ g.latency = {}
BY DEF NewGen, Generation

(* An exchange is new or its call is under way.                            *)
LEMMA ObsFacts ==
    ASSUME Types, NEW o \in Observers
    PROVE  /\ obs[o].at # "new" <=> obs[o] \in Call
           /\ obs[o].at \in {"new", "guard", "done"}
<1>1. obs[o] \in {[at |-> "new"]} \cup Call BY DEF Types
<1>2. obs[o] \in Call => obs[o].at \in {"guard", "done"} BY DEF Call
<1>3. obs[o] = [at |-> "new"] => obs[o].at = "new" OBVIOUS
<1>4. QED BY <1>1, <1>2, <1>3

(* The keys of a generation.                                               *)
LEMMA GenFacts ==
    ASSUME Types
    PROVE  /\ Len(gens) \in Nat \ {0} /\ DOMAIN gens = 1..Len(gens)
           /\ \A g \in DOMAIN gens : /\ gens[g] \in Generation
                                     /\ gens[g].keys \in Schemas
                                     /\ gens[g].keys \in Seq(Keys)
<1>1. gens \in Seq(Generation) /\ gens # <<>> BY DEF Types
<1>2. \A g \in DOMAIN gens : gens[g] \in Generation BY <1>1
<1>3. \A g \in Generation : g.keys \in Schemas BY DEF Generation
<1>4. Schemas \subseteq Seq(Keys) BY CollectorAssumption
<1>5. Len(gens) \in Nat \ {0} /\ DOMAIN gens = 1..Len(gens) BY <1>1
<1>6. QED BY <1>2, <1>3, <1>4, <1>5
-----------------------------------------------------------------------------
(* What each step leaves                                                   *)

(* Only SetLabelKeys adds a generation, and it keeps the others.           *)
LEMMA GensGrow ==
    ASSUME Types, NEW keys \in Schemas, gens' = Append(gens, NewGen(keys))
    PROVE  /\ gens' \in Seq(Generation) /\ gens' # <<>> /\ Len(gens') = Len(gens) + 1
           /\ DOMAIN gens' = 1..(Len(gens) + 1)
           /\ \A g \in DOMAIN gens : g \in DOMAIN gens' /\ gens'[g] = gens[g]
           /\ gens'[Len(gens) + 1].counter = {} /\ gens'[Len(gens) + 1].latency = {}
<1>1. PICK n : n = NewGen(keys) OBVIOUS
<1>2. n \in Generation /\ n.counter = {} /\ n.latency = {} BY <1>1, NewGenFacts
<1>3. gens \in Seq(Generation) BY DEF Types
<1>4. gens' = Append(gens, n) BY <1>1
<1>5. /\ gens' \in Seq(Generation) /\ Len(gens) \in Nat /\ DOMAIN gens = 1..Len(gens)
      /\ Len(gens') = Len(gens) + 1
      /\ DOMAIN gens' = 1..(Len(gens) + 1) /\ \A i \in 1..Len(gens) : gens'[i] = gens[i]
      /\ gens'[Len(gens) + 1] = n
    BY <1>2, <1>3, <1>4, AppendFacts
<1>6. gens' # <<>> BY <1>3, <1>4
<1>7. QED BY <1>2, <1>5, <1>6

(* A set with one more member.                                             *)
With(S, x) == S \cup {x}

(* The sample of an exchange.                                              *)
Sample(o) == <<o, obs[o].vals>>

(* A record step adds its sample to one generation and ends its call.      *)
LEMMA RecordFacts ==
    ASSUME Types, NEW o \in Observers, RecordSample(o), NEW g, g = obs[o].gen,
           g \in DOMAIN gens, NEW sample, sample = Sample(o)
    PROVE  /\ obs[o] \in Call /\ obs'[o] = Ended(obs[o])
           /\ obs' \in [Observers -> {[at |-> "new"]} \cup Call]
           /\ \A p \in Observers \ {o} : obs'[p] = obs[p]
           /\ gens' \in Seq(Generation) /\ gens' # <<>> /\ Len(gens') = Len(gens)
           /\ DOMAIN gens' = DOMAIN gens
           /\ \A h \in DOMAIN gens \ {g} : gens'[h] = gens[h]
           /\ gens'[g].keys = gens[g].keys
           /\ gens'[g].counter = With(gens[g].counter, sample)
           /\ obs[o].stream = TRUE => gens'[g].latency = gens[g].latency
           /\ obs[o].stream = FALSE => gens'[g].latency = gens[g].latency \cup {sample}
<1>1. obs[o].at = "guard" BY DEF RecordSample
<1>2. obs[o] \in Call BY <1>1, ObsFacts
<1>3. PICK c : c = Ended(obs[o]) OBVIOUS
<1>4. c \in Call BY <1>2, <1>3, EndedFacts
<1>5. obs' = [obs EXCEPT ![o] = c] BY <1>3 DEF RecordSample, Ended
<1>6. obs' = [p \in Observers |-> IF p = o THEN c ELSE obs[p]] BY <1>5 DEF Types
<1>7. sample \in Observers \X Seq(AllValues) BY <1>2, CallFacts DEF Sample
<1>8. gens \in Seq(Generation) /\ gens[g] \in Generation BY DEF Types
<1>9. PICK counter : counter = gens[g].counter \cup {sample} OBVIOUS
<1>10. PICK latency : latency = IF obs[o].stream THEN gens[g].latency
                                ELSE gens[g].latency \cup {sample}
    OBVIOUS
<1>14. /\ counter \in SUBSET (Observers \X Seq(AllValues))
       /\ latency \in SUBSET (Observers \X Seq(AllValues))
       /\ obs[o].stream = TRUE => latency = gens[g].latency
       /\ obs[o].stream = FALSE => latency = gens[g].latency \cup {sample}
    BY <1>7, <1>8, <1>9, <1>10, GenerationFacts
<1>15. PICK h : h = Sampled(gens[g], counter, latency) OBVIOUS
<1>16. h \in Generation /\ h.keys = gens[g].keys /\ h.counter = counter /\ h.latency = latency
    BY <1>8, <1>14, <1>15, SampledFacts
<1>11. gens' = [gens EXCEPT ![g] = h] BY <1>9, <1>10, <1>15 DEF RecordSample, Sampled, Sample
<1>12. /\ gens' \in Seq(Generation) /\ gens' # <<>> /\ Len(gens') = Len(gens)
       /\ DOMAIN gens' = DOMAIN gens /\ gens'[g] = h
       /\ \A i \in DOMAIN gens \ {g} : gens'[i] = gens[i]
    BY <1>8, <1>11, <1>16
<1>17. gens'[g].counter = With(gens[g].counter, sample) BY <1>9, <1>12, <1>16 DEF With
<1>13. QED BY <1>2, <1>3, <1>4, <1>6, <1>12, <1>14, <1>16, <1>17 DEF Types

(* What the guard remembers of an answer.                                  *)
Remembers(key, got) ==
    seen' = IF Cap = 0 \/ got \in {Empty, OverLimit} THEN seen
            ELSE [seen EXCEPT ![key] = @ \cup {got}]

(* A guard call adds one answer to its call.                               *)
LEMMA GuardFacts ==
    ASSUME Types, Resets \in Nat, NEW o \in Observers, Guard(o), obs[o].gen \in DOMAIN gens,
           NEW key, key = gens[obs[o].gen].keys[Len(obs[o].vals) + 1],
           NEW got, got = Guarded(key, obs[o].labels[key])
    PROVE  /\ key \in Keys /\ obs[o] \in Call /\ obs[o].at = "guard"
           /\ got = obs[o].labels[key] \/ got = OverLimit
           /\ got \in AllValues
           /\ obs'[o] = More(obs[o], got, Resets)
           /\ obs' \in [Observers -> {[at |-> "new"]} \cup Call]
           /\ \A p \in Observers \ {o} : obs'[p] = obs[p]
           /\ Remembers(key, got)
           /\ UNCHANGED <<gens, dynamic, dims, relabel, streamed>>
           /\ capped' \in Nat
<1>1. obs[o].at = "guard" /\ Len(obs[o].vals) < Len(gens[obs[o].gen].keys) BY DEF Guard
<1>2. obs[o] \in Call BY <1>1, ObsFacts
<1>3. /\ obs[o].labels \in [Keys -> Values \cup {Empty}] /\ obs[o].vals \in Seq(AllValues)
    BY <1>2, CallFacts
<1>4. gens[obs[o].gen].keys \in Seq(Keys) BY GenFacts
<1>5. key \in Keys
    <2>1. PICK keys, n : keys = gens[obs[o].gen].keys /\ n = Len(obs[o].vals) OBVIOUS
    <2>2. keys \in Seq(Keys) /\ n < Len(keys) BY <1>1, <1>4, <2>1
    <2>3. PICK vals : vals = obs[o].vals OBVIOUS
    <2>4. vals \in Seq(AllValues) BY <1>3, <2>3
    <2>5. Len(vals) \in Nat BY <2>4
    <2>6. n \in Nat BY <2>1, <2>3, <2>5
    <2>7. keys[n + 1] \in Keys BY <2>2, <2>6
    <2>8. QED BY <2>1, <2>7
<1>6. got = obs[o].labels[key] \/ got = OverLimit BY DEF Guarded
<1>7. got \in AllValues BY <1>3, <1>5, <1>6 DEF AllValues
<1>8. PICK c : c = More(obs[o], got, Resets) OBVIOUS
<1>9. c \in Call BY <1>2, <1>7, <1>8, MoreFacts
<1>10. Answered(o, key, got) BY DEF Guard
<1>11. obs' = [obs EXCEPT ![o] = c] BY <1>8, <1>10 DEF Answered, More
<1>12. obs' = [p \in Observers |-> IF p = o THEN c ELSE obs[p]] BY <1>11 DEF Types
<1>13. /\ UNCHANGED <<gens, dynamic, dims, relabel, streamed>> /\ capped' \in Nat
    <2>1. capped \in Nat BY DEF Types
    <2>2. capped' = IF got = OverLimit THEN capped + 1 ELSE capped BY <1>10 DEF Answered
    <2>3. UNCHANGED <<gens, dynamic, dims, relabel, streamed>> BY <1>10 DEF Answered
    <2>4. capped' \in Nat
        <3>1. capped + 1 \in Nat BY <2>1
        <3>2. CASE got = OverLimit BY <2>2, <3>1, <3>2, Zenon
        <3>3. CASE got # OverLimit BY <2>1, <2>2, <3>3, Zenon
        <3>4. QED BY <3>2, <3>3
    <2>5. QED BY <2>3, <2>4
<1>14. Remembers(key, got) BY DEF Guard, Remembers
<1>15. QED BY <1>1, <1>2, <1>5, <1>6, <1>7, <1>8, <1>9, <1>12, <1>13, <1>14 DEF Types

(* The load begins a call.                                                 *)
LEMMA LoadFacts ==
    ASSUME Types, dims \in Nat, NEW o \in Observers,
           NEW labels \in [Keys -> Values \cup {Empty}], NEW stream \in BOOLEAN,
           LoadDims(o, labels, stream)
    PROVE  /\ obs[o].at = "new" /\ obs'[o] \in Call /\ obs'[o].at = "guard"
           /\ obs'[o].gen = dims /\ obs'[o].vals = <<>> /\ obs'[o].epochs = <<>>
           /\ obs'[o].fresh = (relabel = "idle") /\ obs'[o].before = Len(gens)
           /\ obs' \in [Observers -> {[at |-> "new"]} \cup Call]
           /\ \A p \in Observers \ {o} : obs'[p] = obs[p]
           /\ UNCHANGED <<gens, dynamic, dims, seen, relabel, capped, streamed>>
<1>1. PICK c : c = [at |-> "guard", gen |-> dims, labels |-> labels,
                    stream |-> stream, vals |-> <<>>, epochs |-> <<>>,
                    fresh |-> relabel = "idle", before |-> Len(gens)]
    OBVIOUS
<1>2. obs' = [obs EXCEPT ![o] = c] BY <1>1 DEF LoadDims
<1>3. obs' = [p \in Observers |-> IF p = o THEN c ELSE obs[p]] BY <1>2 DEF Types
<1>4. /\ c.at = "guard" /\ c.gen = dims /\ c.vals = <<>> /\ c.epochs = <<>>
      /\ c.fresh = (relabel = "idle") /\ c.before = Len(gens)
    BY <1>1
<1>5. c \in Call
    <2>1. Len(gens) \in Nat BY GenFacts
    <2>2. <<>> \in Seq(AllValues) /\ <<>> \in Seq(Nat) OBVIOUS
    <2>3. (relabel = "idle") \in BOOLEAN OBVIOUS
    <2>4. QED BY <1>1, <2>1, <2>2, <2>3 DEF Call
<1>6. QED BY <1>3, <1>4, <1>5 DEF LoadDims, Types
-----------------------------------------------------------------------------
(* Types and generations                                                   *)

(* Where the reload stands.                                                *)
LEMMA Positions ==
    ASSUME Types, Relabelling
    PROVE  /\ Resets \in Nat /\ dims \in 1..Len(gens) /\ dims \in Nat
           /\ Resets <= dims
           /\ \A g \in 1..dims : g \in DOMAIN gens
<1>1. PICK n : n = Len(gens) OBVIOUS
<1>2. n \in Nat \ {0} /\ DOMAIN gens = 1..n BY <1>1, GenFacts
<1>3. dims = (IF relabel = "dims" THEN n - 1 ELSE n) /\ (relabel # "idle" => n > 1)
    BY <1>1 DEF Relabelling
<1>4. Resets = n - (IF relabel = "idle" THEN 1 ELSE 2) BY <1>1 DEF Resets
<1>5. /\ Resets \in Nat /\ dims \in 1..n /\ dims \in Nat
      /\ Resets <= dims
    <2>1. CASE relabel = "idle" BY <1>2, <1>3, <1>4, <2>1
    <2>2. CASE relabel = "dims" BY <1>2, <1>3, <1>4, <2>2
    <2>3. CASE relabel = "seen" BY <1>2, <1>3, <1>4, <2>3
    <2>4. QED BY <2>1, <2>2, <2>3 DEF Relabelling
<1>6. \A g \in 1..dims : g \in 1..n BY <1>2, <1>5
<1>7. QED BY <1>1, <1>2, <1>5, <1>6

(* A call under way fills a generation that exists.                        *)
LEMMA FillsAny ==
    ASSUME Types, Relabelling, Calls, NEW o \in Observers, obs[o].at # "new"
    PROVE  obs[o] \in Call /\ obs[o].gen \in DOMAIN gens /\ obs[o].gen \in 1..dims
<1>1. obs[o].gen \in 1..dims BY DEF Calls, Observing
<1>2. QED BY <1>1, ObsFacts, Positions

(* The types.                                                              *)
LEMMA StepTypes == Types /\ Relabelling /\ Calls /\ [Next]_vars => Types'
<1> SUFFICES ASSUME Types, Relabelling, Calls, [Next]_vars PROVE Types' OBVIOUS
<1>1. CASE \E keys \in Schemas : StoreRegistry(keys)
    <2>1. PICK keys \in Schemas : StoreRegistry(keys) BY <1>1
    <2>2. gens' \in Seq(Generation) /\ gens' # <<>> BY <2>1, GensGrow DEF StoreRegistry
    <2>3. UNCHANGED <<seen, obs, capped>> BY <2>1 DEF StoreRegistry
    <2>4. QED BY <2>2, <2>3 DEF Types
<1>2. CASE StoreDims BY <1>2 DEF StoreDims, Types
<1>3. CASE ResetSeen BY <1>3 DEF ResetSeen, Types, NoneSeen
<1>4. ASSUME NEW o \in Observers, NEW labels \in [Keys -> Values \cup {Empty}],
             NEW stream \in BOOLEAN, LoadDims(o, labels, stream)
      PROVE  Types'
    <2>1. /\ obs' \in [Observers -> {[at |-> "new"]} \cup Call]
          /\ UNCHANGED <<gens, seen, capped>>
        BY <1>4, Positions, LoadFacts
    <2>2. QED BY <2>1 DEF Types
<1>5. ASSUME NEW o \in Observers, Guard(o) PROVE Types'
    <2>1. obs[o].gen \in DOMAIN gens BY <1>5, FillsAny DEF Guard
    <2>2. PICK key : key = gens[obs[o].gen].keys[Len(obs[o].vals) + 1] OBVIOUS
    <2>3. PICK got : got = Guarded(key, obs[o].labels[key]) OBVIOUS
    <2>0. Resets \in Nat BY Positions
    <2>4. /\ key \in Keys /\ got \in AllValues
          /\ obs' \in [Observers -> {[at |-> "new"]} \cup Call]
          /\ Remembers(key, got)
          /\ gens' = gens /\ capped' \in Nat
        BY <1>5, <2>0, <2>1, <2>2, <2>3, GuardFacts
    <2>5. seen' \in [Keys -> SUBSET Values] BY <2>4 DEF Types, AllValues, Remembers
    <2>6. QED BY <2>4, <2>5 DEF Types
<1>6. ASSUME NEW o \in Observers, RecordSample(o) PROVE Types'
    <2>1. obs[o].gen \in DOMAIN gens BY <1>6, FillsAny DEF RecordSample
    <2>2. PICK g, sample : g = obs[o].gen /\ sample = Sample(o) OBVIOUS
    <2>3. /\ gens' \in Seq(Generation) /\ gens' # <<>>
          /\ obs' \in [Observers -> {[at |-> "new"]} \cup Call]
        BY <1>6, <2>1, <2>2, RecordFacts
    <2>4. UNCHANGED <<seen, capped>> BY <1>6 DEF RecordSample
    <2>5. QED BY <2>3, <2>4 DEF Types
<1>7. CASE UNCHANGED vars BY <1>7 DEF vars, Types
<1>8. QED BY <1>1, <1>2, <1>3, <1>4, <1>5, <1>6, <1>7 DEF Next

(* The two stores and the reset.                                           *)
LEMMA StepRelabelling == Types /\ Relabelling /\ Calls /\ [Next]_vars => Relabelling'
<1> SUFFICES ASSUME Types, Relabelling, Calls, [Next]_vars PROVE Relabelling' OBVIOUS
<1>0. Len(gens) \in Nat \ {0} BY GenFacts
<1>1. CASE \E keys \in Schemas : StoreRegistry(keys)
    <2>1. PICK keys \in Schemas : StoreRegistry(keys) BY <1>1
    <2>2. Len(gens') = Len(gens) + 1 BY <2>1, GensGrow DEF StoreRegistry
    <2>3. relabel = "idle" /\ relabel' = "dims" /\ dynamic' = Len(gens) + 1 /\ dims' = dims
        BY <2>1 DEF StoreRegistry
    <2>4. QED BY <1>0, <2>2, <2>3 DEF Relabelling
<1>2. CASE StoreDims BY <1>0, <1>2 DEF StoreDims, Relabelling
<1>3. CASE ResetSeen BY <1>0, <1>3 DEF ResetSeen, Relabelling
<1>4. CASE /\ Len(gens') = Len(gens) /\ UNCHANGED <<dynamic, dims, relabel>>
    BY <1>4 DEF Relabelling
<1>5. ASSUME NEW o \in Observers, RecordSample(o)
      PROVE  Len(gens') = Len(gens) /\ UNCHANGED <<dynamic, dims, relabel>>
    <2>1. obs[o].gen \in DOMAIN gens BY <1>5, FillsAny DEF RecordSample
    <2>2. PICK g, sample : g = obs[o].gen /\ sample = Sample(o) OBVIOUS
    <2>3. QED BY <1>5, <2>1, <2>2, RecordFacts DEF RecordSample
<1>6. ASSUME NEW o \in Observers, Guard(o)
      PROVE  Len(gens') = Len(gens) /\ UNCHANGED <<dynamic, dims, relabel>>
    BY <1>6 DEF Guard, Answered
<1>7. ASSUME NEW o \in Observers, NEW labels, NEW stream, LoadDims(o, labels, stream)
      PROVE  Len(gens') = Len(gens) /\ UNCHANGED <<dynamic, dims, relabel>>
    BY <1>7 DEF LoadDims
<1>8. QED BY <1>1, <1>2, <1>3, <1>4, <1>5, <1>6, <1>7 DEF Next, vars
-----------------------------------------------------------------------------
(* Calls under way                                                         *)

(* A step keeps the schema of every generation, and the two counters of    *)
(* reloads only grow, by one.                                              *)
LEMMA Moves ==
    ASSUME Types, Relabelling, Calls, [Next]_vars
    PROVE  /\ \A g \in DOMAIN gens : g \in DOMAIN gens' /\ gens'[g].keys = gens[g].keys
           /\ Resets' \in {Resets, Resets + 1}
           /\ dims' \in {dims, dims + 1}
<1>1. Len(gens) \in Nat \ {0} /\ DOMAIN gens = 1..Len(gens) BY GenFacts
<1>2. CASE \E keys \in Schemas : StoreRegistry(keys)
    <2>1. PICK keys \in Schemas : StoreRegistry(keys) BY <1>2
    <2>2. PICK n, n2 : n = Len(gens) /\ n2 = Len(gens') OBVIOUS
    <2>3. n2 = n + 1 /\ \A g \in DOMAIN gens : g \in DOMAIN gens' /\ gens'[g] = gens[g]
        BY <2>1, <2>2, GensGrow DEF StoreRegistry
    <2>4. relabel = "idle" /\ relabel' = "dims" /\ dims' = dims BY <2>1 DEF StoreRegistry
    <2>5. Resets' = n2 - 2 BY <2>2, <2>4 DEF Resets
    <2>6. Resets = n - 1 BY <2>2, <2>4 DEF Resets
    <2>7. Resets' = Resets BY <1>1, <2>2, <2>3, <2>5, <2>6
    <2>8. QED BY <2>3, <2>4, <2>7
<1>3. CASE StoreDims
    <2>1. relabel = "dims" /\ relabel' = "seen" /\ gens' = gens /\ dims' = Len(gens)
        BY <1>3 DEF StoreDims
    <2>2. Resets' = Resets BY <2>1 DEF Resets
    <2>3. dims = Len(gens) - 1 BY <2>1 DEF Relabelling
    <2>4. QED BY <1>1, <2>1, <2>2, <2>3
<1>4. CASE ResetSeen
    <2>1. relabel = "seen" /\ relabel' = "idle" /\ gens' = gens /\ dims' = dims
        BY <1>4 DEF ResetSeen
    <2>2. PICK n : n = Len(gens) OBVIOUS
    <2>3. Resets = n - 2 BY <2>1, <2>2 DEF Resets
    <2>4. Resets' = n - 1 BY <2>1, <2>2 DEF Resets
    <2>5. QED BY <1>1, <2>1, <2>2, <2>3, <2>4
<1>5. CASE UNCHANGED <<gens, dims, relabel>>
    <2>1. Resets' = Resets BY <1>5 DEF Resets
    <2>2. QED BY <1>5, <2>1
<1>6. ASSUME NEW o \in Observers, RecordSample(o)
      PROVE  /\ \A g \in DOMAIN gens : g \in DOMAIN gens' /\ gens'[g].keys = gens[g].keys
             /\ Resets' = Resets /\ dims' = dims
    <2>1. obs[o].gen \in DOMAIN gens BY <1>6, FillsAny DEF RecordSample
    <2>2. PICK g, sample : g = obs[o].gen /\ sample = Sample(o) OBVIOUS
    <2>3. /\ Len(gens') = Len(gens) /\ DOMAIN gens' = DOMAIN gens
          /\ \A h \in DOMAIN gens \ {g} : gens'[h] = gens[h]
          /\ gens'[g].keys = gens[g].keys
        BY <1>6, <2>1, <2>2, RecordFacts
    <2>4. UNCHANGED <<dims, relabel>> BY <1>6 DEF RecordSample
    <2>5. Resets' = Resets BY <2>3, <2>4 DEF Resets
    <2>6. QED BY <2>3, <2>4, <2>5
<1>7. ASSUME NEW o \in Observers, Guard(o) PROVE UNCHANGED <<gens, dims, relabel>>
    BY <1>7 DEF Guard, Answered
<1>8. ASSUME NEW o \in Observers, NEW labels, NEW stream, LoadDims(o, labels, stream)
      PROVE  UNCHANGED <<gens, dims, relabel>>
    BY <1>8 DEF LoadDims
<1>9. QED BY <1>2, <1>3, <1>4, <1>5, <1>6, <1>7, <1>8 DEF Next, vars

(* A call that a step does not touch, or only ends, stays in order.        *)
LEMMA CallKept ==
    ASSUME Types, Relabelling, Calls, [Next]_vars, NEW p \in Observers, obs[p].at # "new",
           obs'[p].gen = obs[p].gen, obs'[p].labels = obs[p].labels,
           obs'[p].vals = obs[p].vals, obs'[p].epochs = obs[p].epochs,
           obs'[p].fresh = obs[p].fresh, obs'[p].before = obs[p].before,
           obs'[p].at = obs[p].at \/ Len(obs[p].vals) = Len(gens[obs[p].gen].keys)
    PROVE  Observing(p)'
<1>1. Observing(p) BY DEF Calls
<1>2. obs[p] \in Call /\ obs[p].gen \in DOMAIN gens BY FillsAny
<1>3. gens'[obs[p].gen].keys = gens[obs[p].gen].keys BY <1>2, Moves
<1>4. /\ Resets \in Nat /\ dims \in Nat
      /\ Resets' \in {Resets, Resets + 1} /\ dims' \in {dims, dims + 1}
    BY Positions, Moves
<1>5. obs'[p].gen \in 1..dims' BY <1>1, <1>4 DEF Observing
<1>6. ASSUME NEW i \in DOMAIN obs[p].vals PROVE Answer(p, i)'
    <2>1. Answer(p, i) BY <1>1 DEF Observing
    <2>2. obs'[p].vals[i] \in {obs'[p].labels[gens'[obs'[p].gen].keys[i]], OverLimit}
        BY <1>3, <2>1 DEF Answer
    <2>3. obs'[p].epochs[i] \in 0..Resets'
        <3>1. obs'[p].epochs[i] \in 0..Resets BY <2>1 DEF Answer
        <3>2. 0..Resets \subseteq 0..Resets' BY <1>4
        <3>3. QED BY <3>1, <3>2
    <2>4. QED BY <2>2, <2>3 DEF Answer
<1>7. QED BY <1>1, <1>3, <1>5, <1>6 DEF Observing

(* Call c of o becomes d: its answer after n others is got, for key, in    *)
(* epoch r.                                                                *)
Answering(o, c, d, n, key, got, r) ==
    /\ c = obs[o] /\ d = obs'[o] /\ n = Len(c.vals) /\ r = Resets
    /\ key = gens[c.gen].keys[n + 1] /\ got = Guarded(key, c.labels[key])

(* A guard call answers for the next key of its generation.                *)
LEMMA NextAnswer ==
    ASSUME Types, Relabelling, Calls, NEW o \in Observers, Guard(o),
           NEW c, NEW d, NEW n, NEW key, NEW got, NEW r, Answering(o, c, d, n, key, got, r)
    PROVE  /\ c \in Call /\ c.at = "guard" /\ c.gen \in DOMAIN gens /\ n \in Nat
           /\ n < Len(gens[c.gen].keys) /\ DOMAIN c.vals = 1..n
           /\ key \in Keys /\ got \in AllValues
           /\ got = c.labels[key] \/ got = OverLimit
           /\ d.at = c.at /\ d.gen = c.gen /\ d.labels = c.labels
           /\ d.fresh = c.fresh /\ d.before = c.before
           /\ DOMAIN d.vals = 1..(n + 1) /\ Len(d.vals) = n + 1 /\ d.vals[n + 1] = got
           /\ \A i \in 1..n : d.vals[i] = c.vals[i]
           /\ DOMAIN d.epochs = 1..(n + 1) /\ d.epochs[n + 1] = r
           /\ \A i \in 1..n : d.epochs[i] = c.epochs[i]
           /\ \A q \in Observers \ {o} : obs'[q] = obs[q]
           /\ UNCHANGED <<gens, dims, relabel>> /\ Resets' = r /\ Remembers(key, got)
<1>0. /\ c = obs[o] /\ d = obs'[o] /\ n = Len(c.vals) /\ r = Resets
      /\ key = gens[c.gen].keys[n + 1] /\ got = Guarded(key, c.labels[key])
    BY DEF Answering
<1>1. obs[o].gen \in DOMAIN gens /\ Observing(o) BY FillsAny DEF Guard, Calls
<1>2. key = gens[obs[o].gen].keys[Len(obs[o].vals) + 1] BY <1>0
<1>3. got = Guarded(key, obs[o].labels[key]) BY <1>0
<1>4. Resets \in Nat /\ r \in Nat BY <1>0, Positions
<1>5. /\ c \in Call /\ got \in AllValues /\ key \in Keys
      /\ d = More(c, got, r) /\ Remembers(key, got)
      /\ \A q \in Observers \ {o} : obs'[q] = obs[q]
    <2>0. Types /\ Resets \in Nat /\ Guard(o) /\ obs[o].gen \in DOMAIN gens BY <1>1, <1>4
    <2>1. obs[o] \in Call /\ got \in AllValues /\ key \in Keys
        BY <1>2, <1>3, <2>0, GuardFacts
    <2>2. obs'[o] = More(obs[o], got, Resets) BY <1>2, <1>3, <2>0, GuardFacts
    <2>3. \A q \in Observers \ {o} : obs'[q] = obs[q] BY <1>2, <1>3, <2>0, GuardFacts
    <2>4. Remembers(key, got) BY <1>2, <1>3, <2>0, GuardFacts
    <2>5. QED BY <1>0, <2>1, <2>2, <2>3, <2>4
<1>6. got = c.labels[key] \/ got = OverLimit BY <1>0 DEF Guarded
<1>7. UNCHANGED <<gens, dims, relabel>> BY DEF Guard, Answered
<1>8. Resets' = r BY <1>0, <1>7 DEF Resets
<1>9. c.at = "guard" /\ n < Len(gens[c.gen].keys) BY <1>0 DEF Guard
<1>10. /\ d.gen = c.gen /\ d.labels = c.labels /\ d.fresh = c.fresh
       /\ d.before = c.before /\ d.at = c.at
       /\ d.vals = Grown(c.vals, got) /\ d.epochs = Grown(c.epochs, r)
    <2>1. c \in Call /\ got \in AllValues /\ r \in Nat /\ d = More(c, got, r)
        BY <1>4, <1>5
    <2>2. QED BY <2>1, MoreFacts
<1>11. PICK s, t, u, v : s = c.vals /\ t = d.vals /\ u = c.epochs /\ v = d.epochs OBVIOUS
<1>12. s \in Seq(AllValues) /\ u \in Seq(Nat) BY <1>5, <1>11, CallFacts
<1>13. n \in Nat /\ n = Len(s) /\ DOMAIN s = 1..n
    <2>1. n = Len(s)
        <3>1. n = Len(c.vals) BY <1>0
        <3>2. QED BY <1>11, <3>1
    <2>2. Len(s) \in Nat /\ DOMAIN s = 1..Len(s) BY <1>12
    <2>3. QED BY <2>1, <2>2
<1>14. n = Len(u)
    <2>1. DOMAIN u = DOMAIN s BY <1>0, <1>1, <1>11 DEF Observing
    <2>2. DOMAIN u = 1..Len(u) /\ Len(u) \in Nat BY <1>12
    <2>3. QED BY <1>13, <2>1, <2>2
<1>15. t = Grown(s, got) /\ v = Grown(u, r) BY <1>10, <1>11
<1>16. /\ DOMAIN t = 1..(n + 1) /\ Len(t) = n + 1 /\ t[n + 1] = got
       /\ \A i \in 1..n : t[i] = s[i]
    <2>1. got \in AllValues BY <1>5
    <2>2. QED BY <1>12, <1>13, <1>15, <2>1 DEF Grown
<1>17. /\ DOMAIN v = 1..(n + 1) /\ v[n + 1] = r
       /\ \A i \in 1..n : v[i] = u[i]
    <2>1. r \in Nat BY <1>4
    <2>2. QED BY <1>12, <1>13, <1>14, <1>15, <2>1 DEF Grown
<1>18. QED BY <1>0, <1>1, <1>5, <1>6, <1>7, <1>8, <1>9, <1>10, <1>11, <1>13, <1>16, <1>17

(* What is known of a call under way.                                      *)
LEMMA StepCalls == Types /\ Relabelling /\ Calls /\ [Next]_vars => Calls'
<1> SUFFICES ASSUME Types, Relabelling, Calls, [Next]_vars,
                    NEW p \in Observers, obs'[p].at # "new"
             PROVE  Observing(p)'
    BY DEF Calls
<1>1. obs'[p] = obs[p] => Observing(p)' BY CallKept
<1>2. CASE UNCHANGED obs BY <1>1, <1>2
<1>3. ASSUME NEW o \in Observers, NEW labels \in [Keys -> Values \cup {Empty}],
             NEW stream \in BOOLEAN, LoadDims(o, labels, stream)
      PROVE  Observing(p)'
    <2>1. /\ obs'[o].at = "guard" /\ obs'[o].gen = dims
          /\ obs'[o].vals = <<>> /\ obs'[o].epochs = <<>>
          /\ obs'[o].fresh = (relabel = "idle") /\ obs'[o].before = Len(gens)
          /\ \A q \in Observers \ {o} : obs'[q] = obs[q]
          /\ UNCHANGED <<gens, dims, relabel>>
        BY <1>3, Positions, LoadFacts
    <2>2. CASE p = o
        <3>1. dims' = dims /\ dims \in Nat /\ dims \in 1..Len(gens) BY <2>1, Positions
        <3>2. dims \in 1..dims' BY <3>1
        <3>3. gens[dims].keys \in Seq(Keys) BY <3>1, GenFacts
        <3>4. Len(gens'[dims].keys) \in Nat BY <2>1, <3>3
        <3>5. relabel = "idle" => dims = Len(gens) BY DEF Relabelling
        <3>6. DOMAIN <<>> = {} /\ Len(<<>>) = 0 OBVIOUS
        <3>7. obs'[p].fresh => obs'[p].gen = obs'[p].before
            <4>1. CASE relabel = "idle" BY <2>1, <2>2, <3>5, <4>1
            <4>2. CASE relabel # "idle"
                <5>1. (relabel = "idle") = FALSE BY <4>2
                <5>2. obs'[o].fresh = FALSE BY <2>1, <5>1
                <5>3. QED BY <2>2, <5>2
            <4>3. QED BY <4>1, <4>2
        <3>8. obs'[p].gen \in 1..dims' BY <2>1, <2>2, <3>2
        <3>9. DOMAIN obs'[p].epochs = DOMAIN obs'[p].vals BY <2>1, <2>2
        <3>10. Len(obs'[p].vals) <= Len(gens'[obs'[p].gen].keys)
            BY <2>1, <2>2, <3>4, <3>6
        <3>11. obs'[p].at # "done" BY <2>1, <2>2
        <3>12. DOMAIN obs'[p].vals = {} BY <2>1, <2>2, <3>6
        <3>13. QED BY <3>7, <3>8, <3>9, <3>10, <3>11, <3>12 DEF Observing
    <2>3. QED BY <1>1, <2>1, <2>2
<1>4. ASSUME NEW o \in Observers, RecordSample(o) PROVE Observing(p)'
    <2>1. obs[o].gen \in DOMAIN gens BY <1>4, FillsAny DEF RecordSample
    <2>2. PICK g, sample : g = obs[o].gen /\ sample = Sample(o) OBVIOUS
    <2>3. /\ obs[o] \in Call /\ obs'[o] = Ended(obs[o])
          /\ \A q \in Observers \ {o} : obs'[q] = obs[q]
        BY <1>4, <2>1, <2>2, RecordFacts
    <2>4. CASE p = o
        <3>1. PICK c, d : c = obs[o] /\ d = Ended(obs[o]) OBVIOUS
        <3>2. /\ d.gen = c.gen /\ d.labels = c.labels /\ d.fresh = c.fresh
              /\ d.before = c.before /\ d.vals = c.vals /\ d.epochs = c.epochs
            BY <2>3, <3>1, EndedFacts
        <3>3. obs[o].at # "new" /\ Len(obs[o].vals) = Len(gens[obs[o].gen].keys)
            BY <1>4 DEF RecordSample
        <3>4. QED BY <2>3, <2>4, <3>1, <3>2, <3>3, CallKept
    <2>5. QED BY <1>1, <2>3, <2>4
<1>5. ASSUME NEW o \in Observers, Guard(o) PROVE Observing(p)'
    <2>1. PICK c, d, n, r : c = obs[o] /\ d = obs'[o] /\ n = Len(c.vals) /\ r = Resets
        OBVIOUS
    <2>2. PICK key : key = gens[c.gen].keys[n + 1] OBVIOUS
    <2>3. PICK got : got = Guarded(key, c.labels[key]) OBVIOUS
    <2>4. /\ c \in Call /\ c.gen \in DOMAIN gens /\ n \in Nat
          /\ n < Len(gens[c.gen].keys) /\ DOMAIN c.vals = 1..n
          /\ got = c.labels[key] \/ got = OverLimit
          /\ d.at = "guard" /\ d.gen = c.gen /\ d.labels = c.labels
          /\ d.fresh = c.fresh /\ d.before = c.before
          /\ DOMAIN d.vals = 1..(n + 1) /\ Len(d.vals) = n + 1 /\ d.vals[n + 1] = got
          /\ \A i \in 1..n : d.vals[i] = c.vals[i]
          /\ DOMAIN d.epochs = 1..(n + 1) /\ d.epochs[n + 1] = r
          /\ \A i \in 1..n : d.epochs[i] = c.epochs[i]
          /\ \A q \in Observers \ {o} : obs'[q] = obs[q]
          /\ UNCHANGED <<gens, dims, relabel>> /\ Resets' = r
        <3>1. Answering(o, c, d, n, key, got, r) BY <2>1, <2>2, <2>3 DEF Answering
        <3>2. QED BY <1>5, <3>1, NextAnswer
    <2>5. r \in Nat /\ Observing(o)
        BY <1>5, <2>1, Positions DEF Guard, Calls
    <2>6. CASE p = o
        <3>1. Len(gens[c.gen].keys) \in Nat BY <2>4, GenFacts
        <3>2. /\ d.gen \in 1..dims /\ DOMAIN d.epochs = DOMAIN d.vals
              /\ Len(d.vals) <= Len(gens[d.gen].keys)
              /\ d.at = "guard" /\ (d.fresh => d.gen = d.before)
            BY <2>1, <2>4, <2>5, <3>1 DEF Observing
        <3>3. ASSUME NEW i \in 1..(n + 1)
              PROVE  /\ d.vals[i] \in {d.labels[gens[d.gen].keys[i]], OverLimit}
                     /\ d.epochs[i] \in 0..r
            <4>1. CASE i = n + 1
                <5>1. d.vals[i] = got /\ d.epochs[i] = r /\ gens[d.gen].keys[i] = key
                    BY <2>2, <2>4, <4>1
                <5>2. r \in 0..r BY <2>5
                <5>3. QED BY <2>4, <5>1, <5>2
            <4>2. CASE i # n + 1
                <5>1. i \in 1..n BY <2>4, <4>2
                <5>2. Answer(o, i) BY <2>1, <2>4, <2>5, <5>1 DEF Observing
                <5>3. /\ c.vals[i] \in {c.labels[gens[c.gen].keys[i]], OverLimit}
                      /\ c.epochs[i] \in 0..r
                    BY <2>1, <5>2 DEF Answer
                <5>4. QED BY <2>4, <5>1, <5>3
            <4>3. QED BY <4>1, <4>2
        <3>4. obs'[p] = d BY <2>1, <2>6
        <3>5. ASSUME NEW i \in DOMAIN d.vals PROVE Answer(p, i)'
            BY <2>4, <3>3, <3>4 DEF Answer
        <3>6. QED BY <2>4, <3>2, <3>4, <3>5 DEF Observing
    <2>7. QED BY <1>1, <2>4, <2>6
<1>6. CASE \E keys \in Schemas : StoreRegistry(keys) BY <1>2, <1>6 DEF StoreRegistry
<1>7. CASE StoreDims \/ ResetSeen BY <1>2, <1>7 DEF StoreDims, ResetSeen
<1>8. QED BY <1>2, <1>3, <1>4, <1>5, <1>6, <1>7 DEF Next, vars
-----------------------------------------------------------------------------
(* The samples                                                             *)

(* The exchanges that generation g counted, and of those the ones with a   *)
(* latency.                                                                *)
Held(g) == {p \in Done : obs[p].gen = g}
Timed(g) == {p \in Done : obs[p].gen = g /\ ~obs[p].stream}

(* A step that ends no call leaves the samples.                            *)
LEMMA SamplesKept ==
    ASSUME Samples, UNCHANGED <<gens, streamed>>, Done' = Done,
           \A p \in Done : obs'[p] = obs[p]
    PROVE  Samples'
<1>1. \A g : Held(g)' = Held(g) /\ Timed(g)' = Timed(g) BY DEF Held, Timed
<1>2. ASSUME NEW g \in DOMAIN gens
      PROVE  /\ gens[g].counter = {<<o, obs'[o].vals>> : o \in Held(g)}
             /\ gens[g].latency = {<<o, obs'[o].vals>> : o \in Timed(g)}
    <2>1. /\ gens[g].counter = {<<o, obs[o].vals>> : o \in Held(g)}
          /\ gens[g].latency = {<<o, obs[o].vals>> : o \in Timed(g)}
        BY <1>2 DEF Samples, Held, Timed
    <2>2. \A o \in Held(g) \cup Timed(g) : obs'[o].vals = obs[o].vals BY DEF Held, Timed
    <2>3. QED BY <2>1, <2>2
<1>3. streamed' = {o \in Done' : obs'[o].stream} BY DEF Samples
<1>4. ASSUME NEW g \in DOMAIN gens'
      PROVE  /\ gens'[g].counter = {<<o, obs'[o].vals>> : o \in Held(g)'}
             /\ gens'[g].latency = {<<o, obs'[o].vals>> : o \in Timed(g)'}
    BY <1>1, <1>2
<1>5. QED BY <1>3, <1>4 DEF Samples, Held, Timed

(* What the vectors of every generation hold.                              *)
LEMMA StepSamples ==
    Types /\ Relabelling /\ Calls /\ Samples /\ [Next]_vars => Samples'
<1> SUFFICES ASSUME Types, Relabelling, Calls, Samples, [Next]_vars PROVE Samples' OBVIOUS
<1>1. CASE \E keys \in Schemas : StoreRegistry(keys)
    <2>1. PICK keys \in Schemas : StoreRegistry(keys) BY <1>1
    <2>2. PICK n : n = Len(gens) OBVIOUS
    <2>3. /\ DOMAIN gens' = 1..(n + 1)
          /\ \A g \in DOMAIN gens : gens'[g] = gens[g]
          /\ gens'[n + 1].counter = {} /\ gens'[n + 1].latency = {}
        BY <2>1, <2>2, GensGrow DEF StoreRegistry
    <2>4. UNCHANGED <<obs, streamed>> BY <2>1 DEF StoreRegistry
    <2>5. \A g : Held(g)' = Held(g) /\ Timed(g)' = Timed(g) /\ Done' = Done
        BY <2>4 DEF Held, Timed, Done
    <2>6. ASSUME NEW g \in DOMAIN gens'
          PROVE  /\ gens'[g].counter = {<<o, obs[o].vals>> : o \in Held(g)}
                 /\ gens'[g].latency = {<<o, obs[o].vals>> : o \in Timed(g)}
        <3>1. CASE g \in DOMAIN gens BY <2>3, <3>1 DEF Samples, Held, Timed
        <3>2. CASE g \notin DOMAIN gens
            <4>1. n \in Nat \ {0} /\ DOMAIN gens = 1..n BY <2>2, GenFacts
            <4>2. g = n + 1 BY <2>3, <3>2, <4>1
            <4>3. \A o \in Done : obs[o].gen \in DOMAIN gens BY FillsAny DEF Done
            <4>4. Held(g) = {} /\ Timed(g) = {} BY <3>2, <4>3 DEF Held, Timed
            <4>5. QED BY <2>3, <4>2, <4>4
        <3>3. QED BY <3>1, <3>2
    <2>7. ASSUME NEW g \in DOMAIN gens'
          PROVE  /\ gens'[g].counter = {<<o, obs'[o].vals>> : o \in Held(g)'}
                 /\ gens'[g].latency = {<<o, obs'[o].vals>> : o \in Timed(g)'}
        BY <2>4, <2>5, <2>6
    <2>8. streamed' = {o \in Done' : obs'[o].stream} BY <2>4, <2>5 DEF Samples
    <2>9. QED BY <2>7, <2>8 DEF Samples, Held, Timed
<1>2. CASE StoreDims \/ ResetSeen
    <2>1. UNCHANGED <<gens, obs, streamed>> BY <1>2 DEF StoreDims, ResetSeen
    <2>2. QED BY <2>1, SamplesKept DEF Done
<1>3. ASSUME NEW o \in Observers, NEW labels \in [Keys -> Values \cup {Empty}],
             NEW stream \in BOOLEAN, LoadDims(o, labels, stream)
      PROVE  Samples'
    <2>1. /\ obs[o].at = "new" /\ obs'[o].at = "guard"
          /\ \A p \in Observers \ {o} : obs'[p] = obs[p]
          /\ UNCHANGED <<gens, streamed>>
        BY <1>3, Positions, LoadFacts
    <2>2. Done' = Done /\ \A p \in Done : obs'[p] = obs[p] BY <2>1 DEF Done
    <2>3. QED BY <2>1, <2>2, SamplesKept
<1>4. ASSUME NEW o \in Observers, Guard(o) PROVE Samples'
    <2>1. obs[o].gen \in DOMAIN gens /\ obs[o].at = "guard" BY <1>4, FillsAny DEF Guard
    <2>2. PICK c, d, n, r : c = obs[o] /\ d = obs'[o] /\ n = Len(c.vals) /\ r = Resets
        OBVIOUS
    <2>3. PICK key : key = gens[c.gen].keys[n + 1] OBVIOUS
    <2>4. PICK got : got = Guarded(key, c.labels[key]) OBVIOUS
    <2>5. d.at = c.at /\ \A q \in Observers \ {o} : obs'[q] = obs[q]
        <3>1. Answering(o, c, d, n, key, got, r) BY <2>2, <2>3, <2>4 DEF Answering
        <3>2. QED BY <1>4, <3>1, NextAnswer
    <2>8. obs'[o].at = obs[o].at BY <2>2, <2>5
    <2>9. Done' = Done /\ \A p \in Done : obs'[p] = obs[p] BY <2>1, <2>5, <2>8 DEF Done
    <2>10. UNCHANGED <<gens, streamed>> BY <1>4 DEF Guard, Answered
    <2>11. QED BY <2>9, <2>10, SamplesKept
<1>5. ASSUME NEW o \in Observers, RecordSample(o) PROVE Samples'
    <2>1. obs[o].gen \in DOMAIN gens /\ obs[o].at = "guard"
        BY <1>5, FillsAny DEF RecordSample
    <2>2. PICK g, sample : g = obs[o].gen /\ sample = Sample(o) OBVIOUS
    <2>3. /\ obs[o] \in Call /\ obs'[o] = Ended(obs[o])
          /\ \A q \in Observers \ {o} : obs'[q] = obs[q]
          /\ DOMAIN gens' = DOMAIN gens
          /\ \A h \in DOMAIN gens \ {g} : gens'[h] = gens[h]
          /\ gens'[g].counter = gens[g].counter \cup {sample}
          /\ obs[o].stream = TRUE => gens'[g].latency = gens[g].latency
          /\ obs[o].stream = FALSE => gens'[g].latency = gens[g].latency \cup {sample}
        <3>1. Types /\ RecordSample(o) /\ g \in DOMAIN gens BY <1>5, <2>1, <2>2
        <3>2. obs[o] \in Call /\ obs'[o] = Ended(obs[o]) BY <2>2, <3>1, RecordFacts
        <3>3. \A q \in Observers \ {o} : obs'[q] = obs[q] BY <2>2, <3>1, RecordFacts
        <3>4. DOMAIN gens' = DOMAIN gens BY <2>2, <3>1, RecordFacts
        <3>8. \A h \in DOMAIN gens \ {g} : gens'[h] = gens[h] BY <2>2, <3>1, RecordFacts
        <3>9. gens'[g].counter = With(gens[g].counter, sample)
            BY ZenonT(30), <2>2, <3>1, RecordFacts
        <3>5. obs[o].stream = TRUE => gens'[g].latency = gens[g].latency
            BY <2>2, <3>1, RecordFacts
        <3>6. obs[o].stream = FALSE => gens'[g].latency = gens[g].latency \cup {sample}
            BY <2>2, <3>1, RecordFacts
        <3>7. QED BY <3>2, <3>3, <3>4, <3>5, <3>6, <3>8, <3>9 DEF With
    <2>4. PICK c, d : c = obs[o] /\ d = Ended(c) OBVIOUS
    <2>5. c \in Call /\ d = obs'[o] BY <2>3, <2>4
    <2>6. /\ obs'[o].at = "done" /\ obs'[o].gen = obs[o].gen /\ obs'[o].vals = obs[o].vals
          /\ obs'[o].stream = obs[o].stream
        <3>1. /\ d.at = "done" /\ d.gen = c.gen /\ d.vals = c.vals /\ d.stream = c.stream
            BY <2>4, <2>5, EndedFacts
        <3>2. QED BY <2>4, <2>5, <3>1
    <2>7. obs[o].stream = TRUE \/ obs[o].stream = FALSE BY <2>3, CallFacts
    <2>8. Done' = Done \cup {o} /\ o \notin Done BY <2>1, <2>3, <2>6 DEF Done
    <2>9. \A p \in Done : obs'[p] = obs[p] BY <2>3, <2>8 DEF Done
    <2>10. ASSUME NEW h \in DOMAIN gens, h # g
           PROVE  Held(h)' = Held(h) /\ Timed(h)' = Timed(h)
        BY <2>2, <2>6, <2>8, <2>9, <2>10 DEF Held, Timed
    <2>11. Held(g)' = Held(g) \cup {o} BY <2>2, <2>6, <2>8, <2>9 DEF Held
    <2>12. obs[o].stream = FALSE => Timed(g)' = Timed(g) \cup {o}
        BY <2>2, <2>6, <2>8, <2>9 DEF Timed
    <2>13. obs[o].stream = TRUE => Timed(g)' = Timed(g)
        BY <2>2, <2>6, <2>8, <2>9 DEF Timed
    <2>14. \A q \in Done \cup {o} : obs'[q].vals = obs[q].vals BY <2>6, <2>9
    <2>15. \A h : Held(h) \subseteq Done /\ Timed(h) \subseteq Done BY DEF Held, Timed
    <2>16. ASSUME NEW h \in DOMAIN gens
           PROVE  /\ gens'[h].counter = {<<q, obs'[q].vals>> : q \in Held(h)'}
                  /\ gens'[h].latency = {<<q, obs'[q].vals>> : q \in Timed(h)'}
        <3>1. /\ gens[h].counter = {<<q, obs[q].vals>> : q \in Held(h)}
              /\ gens[h].latency = {<<q, obs[q].vals>> : q \in Timed(h)}
            BY DEF Samples, Held, Timed
        <3>2. /\ gens[h].counter = {<<q, obs'[q].vals>> : q \in Held(h)}
              /\ gens[h].latency = {<<q, obs'[q].vals>> : q \in Timed(h)}
            BY <2>14, <2>15, <3>1
        <3>3. CASE h # g BY <2>3, <2>10, <3>2, <3>3
        <3>4. CASE h = g
            <4>1. sample = <<o, obs'[o].vals>> BY <2>2, <2>6 DEF Sample
            <4>2. gens'[h].counter = {<<q, obs'[q].vals>> : q \in Held(h)'}
                BY <2>3, <2>11, <3>2, <3>4, <4>1
            <4>3. CASE obs[o].stream = TRUE BY <2>3, <2>13, <3>2, <3>4, <4>2, <4>3
            <4>4. CASE obs[o].stream = FALSE
                BY <2>3, <2>12, <3>2, <3>4, <4>1, <4>2, <4>4
            <4>5. QED BY <2>7, <4>3, <4>4
        <3>5. QED BY <3>3, <3>4
    <2>17. streamed' = {q \in Done' : obs'[q].stream}
        <3>1. streamed' = IF obs[o].stream THEN streamed \cup {o} ELSE streamed
            BY <1>5 DEF RecordSample
        <3>2. streamed = {q \in Done : obs'[q].stream} BY <2>9 DEF Samples
        <3>3. CASE obs[o].stream = TRUE BY <2>6, <2>8, <3>1, <3>2, <3>3
        <3>4. CASE obs[o].stream = FALSE BY <2>6, <2>8, <3>1, <3>2, <3>4
        <3>5. QED BY <2>7, <3>3, <3>4
    <2>18. QED BY <2>3, <2>16, <2>17 DEF Samples, Held, Timed
<1>6. CASE UNCHANGED vars
    <2>1. UNCHANGED <<gens, obs, streamed>> BY <1>6 DEF vars
    <2>2. QED BY <2>1, SamplesKept DEF Done
<1>7. QED BY <1>1, <1>2, <1>3, <1>4, <1>5, <1>6 DEF Next
-----------------------------------------------------------------------------
(* The budget                                                              *)

(* Observation p had key k answered in epoch e, with its own value.        *)
Took(p, k, e) ==
    /\ obs[p].at # "new"
    /\ \E i \in DOMAIN obs[p].vals : /\ gens[obs[p].gen].keys[i] = k
                                     /\ obs[p].epochs[i] = e
                                     /\ obs[p].vals[i] \notin {Empty, OverLimit}

(* The admitted values are those of the exchanges that took them.          *)
LEMMA AdmittedIs ==
    \A k, e : Admitted(k, e) = {obs[p].labels[k] : p \in {q \in Observers : Took(q, k, e)}}
BY DEF Admitted, Took

(* The same, after a step.                                                 *)
LEMMA AdmittedWillBe ==
    \A k, e : Admitted(k, e)' =
                  {obs'[p].labels[k] : p \in {q \in Observers : Took(q, k, e)'}}
BY DEF Admitted, Took

(* Step leaves what p was answered, or p starts with no answer.            *)
Quiet(p) ==
    IF obs[p].at = "new" THEN obs'[p].at = "new" \/ obs'[p].vals = <<>>
    ELSE /\ obs'[p].at # "new" /\ obs'[p].gen = obs[p].gen /\ obs'[p].labels = obs[p].labels
         /\ obs'[p].vals = obs[p].vals /\ obs'[p].epochs = obs[p].epochs

(* What was taken stays taken, and in a quiet step nothing else is.        *)
LEMMA TookQuiet ==
    ASSUME Types, Relabelling, Calls, [Next]_vars, NEW p \in Observers, Quiet(p), NEW k, NEW e
    PROVE  Took(p, k, e)' = Took(p, k, e) /\ (Took(p, k, e) => obs'[p].labels = obs[p].labels)
<1>1. CASE obs[p].at = "new"
    <2>1. ~Took(p, k, e) BY <1>1 DEF Took
    <2>2. DOMAIN <<>> = {} OBVIOUS
    <2>3. obs'[p].at = "new" \/ obs'[p].vals = <<>> BY <1>1 DEF Quiet
    <2>4. ~Took(p, k, e)'
        <3>1. CASE obs'[p].at = "new" BY <3>1 DEF Took
        <3>2. CASE obs'[p].vals = <<>>
            <4>1. DOMAIN obs'[p].vals = {} BY <2>2, <3>2
            <4>2. QED BY <4>1 DEF Took
        <3>3. QED BY <2>3, <3>1, <3>2
    <2>5. QED BY <2>1, <2>4 DEF Took
<1>2. CASE obs[p].at # "new"
    <2>1. obs[p].gen \in DOMAIN gens BY <1>2, FillsAny
    <2>2. gens'[obs[p].gen].keys = gens[obs[p].gen].keys BY <2>1, Moves
    <2>3. /\ obs'[p].at # "new" /\ obs'[p].gen = obs[p].gen /\ obs'[p].labels = obs[p].labels
          /\ obs'[p].vals = obs[p].vals /\ obs'[p].epochs = obs[p].epochs
        BY <1>2 DEF Quiet
    <2>4. QED BY <1>2, <2>2, <2>3 DEF Took
<1>3. QED BY <1>1, <1>2

(* A step that answers nobody admits nothing.                              *)
LEMMA AdmittedKept ==
    ASSUME Types, Relabelling, Calls, [Next]_vars, \A p \in Observers : Quiet(p)
    PROVE  \A k, e : Admitted(k, e)' = Admitted(k, e)
<1> SUFFICES ASSUME NEW k, NEW e PROVE Admitted(k, e)' = Admitted(k, e) OBVIOUS
<1>1. \A p \in Observers : /\ Took(p, k, e)' = Took(p, k, e)
                           /\ Took(p, k, e) => obs'[p].labels = obs[p].labels
    BY TookQuiet
<1>2. PICK T : T = {q \in Observers : Took(q, k, e)} OBVIOUS
<1>3. {q \in Observers : Took(q, k, e)'} = T BY <1>1, <1>2
<1>4. Admitted(k, e)' = {obs'[p].labels[k] : p \in T} BY <1>3, AdmittedWillBe
<1>5. Admitted(k, e) = {obs[p].labels[k] : p \in T} BY <1>2, AdmittedIs
<1>6. \A p \in T : obs'[p].labels = obs[p].labels BY <1>1, <1>2
<1>7. QED BY <1>4, <1>5, <1>6

(* A guard call admits its answer, if that is a value of its own, for its  *)
(* key and its epoch.                                                      *)
LEMMA AdmittedGrows ==
    ASSUME Types, Relabelling, Calls, [Next]_vars, NEW o \in Observers, Guard(o),
           NEW c, NEW d, NEW n, NEW key, NEW got, NEW r, Answering(o, c, d, n, key, got, r)
    PROVE  /\ \A k, e : k # key \/ e # r \/ got \in {Empty, OverLimit} =>
                  Admitted(k, e)' = Admitted(k, e)
           /\ got \notin {Empty, OverLimit} =>
                  Admitted(key, r)' = Admitted(key, r) \cup {got}
<1>1. /\ c = obs[o] /\ d = obs'[o] /\ c.at = "guard" /\ c.gen \in DOMAIN gens /\ n \in Nat
      /\ DOMAIN c.vals = 1..n
      /\ got = c.labels[key] \/ got = OverLimit
      /\ d.at = c.at /\ d.gen = c.gen /\ d.labels = c.labels
      /\ DOMAIN d.vals = 1..(n + 1) /\ d.vals[n + 1] = got
      /\ \A i \in 1..n : d.vals[i] = c.vals[i]
      /\ d.epochs[n + 1] = r
      /\ \A i \in 1..n : d.epochs[i] = c.epochs[i]
      /\ gens' = gens /\ key = gens[c.gen].keys[n + 1]
    <2>1. /\ c = obs[o] /\ d = obs'[o] /\ key = gens[c.gen].keys[n + 1] BY DEF Answering
    <2>2. QED BY <2>1, NextAnswer
<1>2. \A q \in Observers \ {o} : obs'[q] = obs[q] BY NextAnswer
<1>3. ASSUME NEW p \in Observers \ {o}, NEW k, NEW e
      PROVE  Took(p, k, e)' = Took(p, k, e) /\ obs'[p].labels = obs[p].labels
    BY <1>1, <1>2 DEF Took
<1>4. ASSUME NEW k, NEW e
      PROVE  Took(o, k, e)' <=> \/ Took(o, k, e)
                                \/ k = key /\ e = r /\ got \notin {Empty, OverLimit}
    <2>1. Took(o, k, e) <=> \E i \in 1..n : /\ gens[c.gen].keys[i] = k /\ c.epochs[i] = e
                                            /\ c.vals[i] \notin {Empty, OverLimit}
        BY <1>1 DEF Took
    <2>2. Took(o, k, e)' <=>
              \E i \in 1..(n + 1) : /\ gens[c.gen].keys[i] = k /\ d.epochs[i] = e
                                    /\ d.vals[i] \notin {Empty, OverLimit}
        BY <1>1 DEF Took
    <2>3. 1..(n + 1) = 1..n \cup {n + 1} BY <1>1
    <2>4. QED BY <1>1, <2>1, <2>2, <2>3
<1>5. ASSUME NEW k, NEW e
      PROVE  /\ Admitted(k, e) = {obs[p].labels[k] : p \in {q \in Observers : Took(q, k, e)}}
             /\ Admitted(k, e)' =
                    {obs[p].labels[k] : p \in {q \in Observers : Took(q, k, e)'}}
    <2>1. \A p \in Observers : obs'[p].labels = obs[p].labels BY <1>1, <1>3
    <2>2. Admitted(k, e)' =
              {obs'[p].labels[k] : p \in {q \in Observers : Took(q, k, e)'}}
        BY AdmittedWillBe
    <2>3. QED BY <2>1, <2>2, AdmittedIs
<1>6. ASSUME NEW k, NEW e, k # key \/ e # r \/ got \in {Empty, OverLimit}
      PROVE  Admitted(k, e)' = Admitted(k, e)
    <2>1. \A p \in Observers : Took(p, k, e)' <=> Took(p, k, e) BY <1>3, <1>4, <1>6
    <2>2. {q \in Observers : Took(q, k, e)'} = {q \in Observers : Took(q, k, e)} BY <2>1
    <2>3. QED BY <1>5, <2>2
<1>7. ASSUME got \notin {Empty, OverLimit}
      PROVE  Admitted(key, r)' = Admitted(key, r) \cup {got}
    <2>1. \A p \in Observers : Took(p, key, r)' <=> (p = o \/ Took(p, key, r))
        BY <1>3, <1>4, <1>7
    <2>2. PICK T : T = {q \in Observers : Took(q, key, r)} OBVIOUS
    <2>3. {q \in Observers : Took(q, key, r)'} = T \cup {o} BY <2>1, <2>2
    <2>4. Admitted(key, r) = {obs[p].labels[key] : p \in T} BY <1>5, <2>2
    <2>5. Admitted(key, r)' = {obs[p].labels[key] : p \in T \cup {o}} BY <1>5, <2>3
    <2>6. got = obs[o].labels[key] BY <1>1, <1>7
    <2>7. QED BY <2>4, <2>5, <2>6
<1>8. QED BY <1>6, <1>7

(* Every step but a guard call is quiet.                                   *)
LEMMA OnlyGuardAnswers ==
    ASSUME Types, Relabelling, Calls, [Next]_vars
    PROVE  (\A p \in Observers : Quiet(p)) \/ (\E o \in Observers : Guard(o))
<1>1. \A p \in Observers : obs'[p] = obs[p] => Quiet(p) BY DEF Quiet
<1>2. UNCHANGED obs => \A p \in Observers : Quiet(p) BY <1>1
<1>3. ASSUME NEW o \in Observers, NEW labels \in [Keys -> Values \cup {Empty}],
             NEW stream \in BOOLEAN, LoadDims(o, labels, stream)
      PROVE  \A p \in Observers : Quiet(p)
    <2>1. /\ obs[o].at = "new" /\ obs'[o].vals = <<>>
          /\ \A p \in Observers \ {o} : obs'[p] = obs[p]
        BY <1>3, Positions, LoadFacts
    <2>2. QED BY <1>1, <2>1 DEF Quiet
<1>4. ASSUME NEW o \in Observers, RecordSample(o)
      PROVE  \A p \in Observers : Quiet(p)
    <2>1. obs[o].gen \in DOMAIN gens /\ obs[o].at = "guard"
        BY <1>4, FillsAny DEF RecordSample
    <2>2. PICK g, sample : g = obs[o].gen /\ sample = Sample(o) OBVIOUS
    <2>3. /\ obs[o] \in Call /\ obs'[o] = Ended(obs[o])
          /\ \A q \in Observers \ {o} : obs'[q] = obs[q]
        BY <1>4, <2>1, <2>2, RecordFacts
    <2>4. PICK c, d : c = obs[o] /\ d = Ended(c) OBVIOUS
    <2>5. c \in Call /\ d = obs'[o] BY <2>3, <2>4
    <2>6. /\ d.at = "done" /\ d.gen = c.gen /\ d.labels = c.labels
          /\ d.vals = c.vals /\ d.epochs = c.epochs
        BY <2>4, <2>5, EndedFacts
    <2>7. Quiet(o) BY <2>1, <2>4, <2>5, <2>6 DEF Quiet
    <2>8. QED BY <1>1, <2>3, <2>7
<1>5. CASE \E keys \in Schemas : StoreRegistry(keys) BY <1>2, <1>5 DEF StoreRegistry
<1>6. CASE StoreDims \/ ResetSeen BY <1>2, <1>6 DEF StoreDims, ResetSeen
<1>7. CASE UNCHANGED vars BY <1>2, <1>7 DEF vars
<1>8. QED BY <1>3, <1>4, <1>5, <1>6, <1>7 DEF Next

(* No answer is of a later epoch than the current one.                     *)
LEMMA NoneLater ==
    ASSUME Types, Relabelling, Calls, NEW e \in Nat, e > Resets, NEW k
    PROVE  Admitted(k, e) = {}
<1>1. Resets \in Nat BY Positions
<1>2. ASSUME NEW p \in Observers, Took(p, k, e) PROVE FALSE
    <2>1. obs[p].at # "new" BY <1>2 DEF Took
    <2>2. PICK i \in DOMAIN obs[p].vals : obs[p].epochs[i] = e BY <1>2 DEF Took
    <2>3. Answer(p, i) BY <2>1 DEF Calls, Observing
    <2>4. obs[p].epochs[i] \in 0..Resets BY <2>3 DEF Answer
    <2>5. QED BY <1>1, <2>2, <2>4
<1>3. {q \in Observers : Took(q, k, e)} = {} BY <1>2
<1>4. QED BY <1>3, AdmittedIs

(* A budget with room for one more.                                        *)
LEMMA BudgetAdd ==
    ASSUME NEW S, IsFiniteSet(S), Cardinality(S) <= Cap, NEW x,
           x \in S \/ Cardinality(S) < Cap
    PROVE  IsFiniteSet(S \cup {x}) /\ Cardinality(S \cup {x}) <= Cap
<1>1. CASE x \in S
    <2>1. S \cup {x} = S BY <1>1
    <2>2. QED BY <2>1
<1>2. CASE x \notin S
    <2>1. IsFiniteSet(S \cup {x}) /\ Cardinality(S \cup {x}) = Cardinality(S) + 1
        BY <1>2, FS_AddElement
    <2>2. Cardinality(S) \in Nat /\ Cap \in Nat BY FS_CardinalityType, CollectorAssumption
    <2>3. QED BY <1>2, <2>1, <2>2
<1>3. QED BY <1>1, <1>2

(* The budget of every epoch, and what the guard holds.                    *)
LEMMA StepBudget ==
    Types /\ Relabelling /\ Calls /\ Budget /\ [Next]_vars => Budget'
<1> SUFFICES ASSUME Types, Relabelling, Calls, Budget, [Next]_vars, Cap > 0,
                    NEW k \in Keys
             PROVE  /\ seen'[k] = Admitted(k, Resets)'
                    /\ \A e \in 0..Resets' : /\ IsFiniteSet(Admitted(k, e)')
                                             /\ Cardinality(Admitted(k, e)') <= Cap
    BY DEF Budget
<1>1. Resets \in Nat /\ Resets' \in {Resets, Resets + 1} BY Positions, Moves
<1>2. /\ seen[k] = Admitted(k, Resets)
      /\ \A e \in 0..Resets : /\ IsFiniteSet(Admitted(k, e))
                              /\ Cardinality(Admitted(k, e)) <= Cap
    BY DEF Budget
<1>3. PICK r, s : r = Resets /\ s = Resets' OBVIOUS
<1>4. Admitted(k, Resets)' = Admitted(k, s)' BY <1>3 DEF Admitted
<1>5. CASE \E o \in Observers : Guard(o)
    <2>1. PICK o \in Observers : Guard(o) BY <1>5
    <2>2. PICK c, d, n : c = obs[o] /\ d = obs'[o] /\ n = Len(c.vals) OBVIOUS
    <2>3. PICK key : key = gens[c.gen].keys[n + 1] OBVIOUS
    <2>4. PICK got : got = Guarded(key, c.labels[key]) OBVIOUS
    <2>5. Answering(o, c, d, n, key, got, r) BY <1>3, <2>2, <2>3, <2>4 DEF Answering
    <2>6. Resets' = r /\ Remembers(key, got) /\ key \in Keys BY <2>1, <2>5, NextAnswer
    <2>7. /\ \A j, e : j # key \/ e # r \/ got \in {Empty, OverLimit} =>
                  Admitted(j, e)' = Admitted(j, e)
          /\ got \notin {Empty, OverLimit} =>
                  Admitted(key, r)' = Admitted(key, r) \cup {got}
        BY <2>1, <2>5, AdmittedGrows
    <2>8. seen \in [Keys -> SUBSET Values] BY DEF Types
    <2>9. s = r BY <1>3, <2>6
    <2>10. CASE k # key \/ got \in {Empty, OverLimit}
        <3>1. seen'[k] = seen[k] BY <2>6, <2>8, <2>10 DEF Remembers
        <3>2. \A e : Admitted(k, e)' = Admitted(k, e) BY <2>7, <2>10
        <3>3. seen'[k] = Admitted(k, s)' BY <1>2, <1>3, <2>9, <3>1, <3>2
        <3>4. QED BY <1>2, <1>3, <1>4, <2>9, <3>2, <3>3
    <2>11. CASE k = key /\ got \notin {Empty, OverLimit}
        <3>1. Cap # 0 OBVIOUS
        <3>2. seen'[k] = seen[k] \cup {got} BY <2>6, <2>8, <2>11, <3>1 DEF Remembers
        <3>3. Admitted(k, r)' = Admitted(k, r) \cup {got} BY <2>7, <2>11
        <3>4. seen'[k] = Admitted(k, s)' BY <1>2, <1>3, <2>9, <3>2, <3>3
        <3>5. got \in seen[k] \/ Cardinality(seen[k]) < Cap
            <4>1. Cardinality(seen[k]) \in Nat
                BY <1>1, <1>2, FS_CardinalityType
            <4>2. CASE Cardinality(seen[k]) >= Cap
                <5>1. got \in {Empty, OverLimit} \/ got \in seen[k]
                    BY <2>4, <2>11, <3>1, <4>2 DEF Guarded
                <5>2. QED BY <2>11, <5>1
            <4>3. QED BY <4>1, <4>2, CollectorAssumption
        <3>6. IsFiniteSet(Admitted(k, r)') /\ Cardinality(Admitted(k, r)') <= Cap
            <4>1. PICK S : S = Admitted(k, r) OBVIOUS
            <4>2. /\ IsFiniteSet(S) /\ Cardinality(S) <= Cap
                  /\ got \in S \/ Cardinality(S) < Cap
                BY <1>1, <1>2, <1>3, <3>5, <4>1
            <4>3. IsFiniteSet(S \cup {got}) /\ Cardinality(S \cup {got}) <= Cap
                BY <4>2, BudgetAdd
            <4>4. QED BY <3>3, <4>1, <4>3
        <3>7. \A e : e # r => Admitted(k, e)' = Admitted(k, e) BY <2>7
        <3>8. ASSUME NEW e \in 0..Resets'
              PROVE  /\ IsFiniteSet(Admitted(k, e)')
                     /\ Cardinality(Admitted(k, e)') <= Cap
            <4>1. CASE e = r BY <3>6, <4>1
            <4>2. CASE e # r BY <1>2, <1>3, <2>6, <3>7, <4>2
            <4>3. QED BY <4>1, <4>2
        <3>9. QED BY <1>4, <3>4, <3>8
    <2>12. QED BY <2>10, <2>11
<1>6. CASE \A p \in Observers : Quiet(p)
    <2>1. \A e : Admitted(k, e)' = Admitted(k, e) BY <1>6, AdmittedKept
    <2>2. ASSUME NEW e \in 0..Resets'
          PROVE  /\ IsFiniteSet(Admitted(k, e)') /\ Cardinality(Admitted(k, e)') <= Cap
        <3>1. CASE e \in 0..Resets BY <1>2, <2>1, <3>1
        <3>2. CASE e \notin 0..Resets
            <4>1. e \in Nat /\ e > Resets BY <1>1, <3>2
            <4>2. Admitted(k, e)' = {} BY <2>1, <4>1, NoneLater
            <4>3. QED BY <4>2, FS_EmptySet, CollectorAssumption
        <3>3. QED BY <3>1, <3>2
    <2>3. seen'[k] = Admitted(k, s)'
        <3>1. CASE ResetSeen
            <4>1. seen'[k] = {} BY <3>1 DEF ResetSeen, NoneSeen
            <4>2. relabel = "seen" /\ relabel' = "idle" /\ gens' = gens
                BY <3>1 DEF ResetSeen
            <4>3. Resets = Len(gens) - 2 /\ Resets' = Len(gens) - 1
                BY <4>2 DEF Resets
            <4>4. Len(gens) \in Nat BY GenFacts
            <4>5. s \in Nat /\ s > Resets BY <1>1, <1>3, <4>3, <4>4
            <4>6. Admitted(k, s) = {} BY <4>5, NoneLater
            <4>7. QED BY <2>1, <4>1, <4>6
        <3>2. CASE seen' = seen /\ s = r BY <1>2, <1>3, <2>1, <3>2
        <3>3. CASE \E keys \in Schemas : StoreRegistry(keys)
            <4>1. PICK keys \in Schemas : StoreRegistry(keys) BY <3>3
            <4>2. /\ seen' = seen /\ relabel = "idle" /\ relabel' = "dims"
                  /\ gens' = Append(gens, NewGen(keys))
                BY <4>1 DEF StoreRegistry
            <4>3. Len(gens') = Len(gens) + 1 /\ Len(gens) \in Nat
                BY <4>2, GensGrow, GenFacts
            <4>4. Resets = Len(gens) - 1 /\ Resets' = Len(gens') - 2 BY <4>2 DEF Resets
            <4>5. s = r BY <1>3, <4>3, <4>4
            <4>6. QED BY <3>2, <4>2, <4>5
        <3>4. CASE StoreDims
            <4>1. seen' = seen /\ gens' = gens /\ relabel = "dims" /\ relabel' = "seen"
                BY <3>4 DEF StoreDims
            <4>2. s = r BY <1>3, <4>1 DEF Resets
            <4>3. QED BY <3>2, <4>1, <4>2
        <3>5. ASSUME NEW o \in Observers, RecordSample(o) PROVE seen' = seen /\ s = r
            <4>1. obs[o].gen \in DOMAIN gens BY <3>5, FillsAny DEF RecordSample
            <4>2. PICK g, sample : g = obs[o].gen /\ sample = Sample(o) OBVIOUS
            <4>3. Types /\ RecordSample(o) /\ g \in DOMAIN gens BY <3>5, <4>1, <4>2
            <4>4. Len(gens') = Len(gens) BY <4>2, <4>3, RecordFacts
            <4>5. relabel' = relabel /\ seen' = seen BY <3>5 DEF RecordSample
            <4>6. QED BY <1>3, <4>4, <4>5 DEF Resets
        <3>6. ASSUME NEW o \in Observers, NEW labels, NEW stream, LoadDims(o, labels, stream)
              PROVE  seen' = seen /\ s = r
            BY <1>3, <3>6 DEF LoadDims, Resets
        <3>7. UNCHANGED vars => seen' = seen /\ s = r BY <1>3 DEF vars, Resets
        <3>8. (\E o \in Observers : Guard(o)) => seen'[k] = Admitted(k, s)'
            BY <1>4, <1>5
        <3>9. QED BY <3>1, <3>2, <3>3, <3>4, <3>5, <3>6, <3>7, <3>8 DEF Next
    <2>4. QED BY <1>4, <2>2, <2>3
<1>7. QED BY <1>5, <1>6, OnlyGuardAnswers
-----------------------------------------------------------------------------
(* Folded values                                                           *)

(* The i-th answer of p, for key k in epoch e with own value v, if folded, *)
(* came after a full budget of others.                                     *)
FoldedAt(k, e, v) == Cap > 0 /\ Cardinality(Admitted(k, e) \ {v}) >= Cap

FoldedOf(p, i) ==
    FoldedAt(gens[obs[p].gen].keys[i], obs[p].epochs[i],
             obs[p].labels[gens[obs[p].gen].keys[i]])

(* Folded, answer by answer.                                               *)
LEMMA FoldedIs ==
    Folded <=> \A p \in Observers : obs[p].at # "new" =>
                   \A i \in DOMAIN obs[p].vals : obs[p].vals[i] = OverLimit => FoldedOf(p, i)
BY DEF Folded, FoldedAt, FoldedOf

(* The same, after a step.                                                 *)
LEMMA FoldedWillBe ==
    Folded' <=> \A p \in Observers : obs'[p].at # "new" =>
                    \A i \in DOMAIN obs'[p].vals :
                        obs'[p].vals[i] = OverLimit => FoldedOf(p, i)'
BY DEF Folded, FoldedAt, FoldedOf

(* Nobody sends the value that stands for the folded ones.                 *)
LEMMA NotSent ==
    ASSUME NEW c \in Call, NEW k \in Keys
    PROVE  c.labels[k] # OverLimit
BY CollectorAssumption DEF Call, Empty, OverLimit

(* A full budget of others stays full.                                     *)
LEMMA FoldedStays ==
    ASSUME Types, Relabelling, Calls, Budget, [Next]_vars, NEW k \in Keys, NEW e \in 0..Resets,
           NEW v, FoldedAt(k, e, v)
    PROVE  FoldedAt(k, e, v)'
<1>1. PICK S, T : S = Admitted(k, e) /\ T = Admitted(k, e)' OBVIOUS
<1>2. S \subseteq T
    <2>1. CASE \A p \in Observers : Quiet(p) BY <1>1, <2>1, AdmittedKept
    <2>2. CASE \E o \in Observers : Guard(o)
        <3>1. PICK o \in Observers : Guard(o) BY <2>2
        <3>2. PICK c, d, n, r : c = obs[o] /\ d = obs'[o] /\ n = Len(c.vals) /\ r = Resets
            OBVIOUS
        <3>3. PICK key : key = gens[c.gen].keys[n + 1] OBVIOUS
        <3>4. PICK got : got = Guarded(key, c.labels[key]) OBVIOUS
        <3>5. Answering(o, c, d, n, key, got, r) BY <3>2, <3>3, <3>4 DEF Answering
        <3>6. T = S \/ (k = key /\ e = r /\ T = S \cup {got})
            BY <1>1, <3>1, <3>5, AdmittedGrows
        <3>7. QED BY <3>6
    <2>3. QED BY <2>1, <2>2, OnlyGuardAnswers
<1>3. IsFiniteSet(T)
    <2>1. Budget' BY StepBudget
    <2>2. Resets \in Nat /\ Resets' \in {Resets, Resets + 1} BY Positions, Moves
    <2>3. e \in 0..Resets' BY <2>2
    <2>4. Cap > 0 BY DEF FoldedAt
    <2>5. PICK f : f = e OBVIOUS
    <2>6. IsFiniteSet(Admitted(k, f)') BY <2>1, <2>3, <2>4, <2>5 DEF Budget
    <2>7. QED BY <1>1, <2>5, <2>6
<1>4. S \ {v} \subseteq T \ {v} /\ IsFiniteSet(T \ {v})
    <2>1. T \ {v} \subseteq T OBVIOUS
    <2>2. QED BY <1>2, <1>3, <2>1, FS_Subset
<1>5. /\ IsFiniteSet(S \ {v})
      /\ Cardinality(S \ {v}) <= Cardinality(T \ {v})
    BY <1>4, FS_Subset
<1>6. Cardinality(S \ {v}) \in Nat /\ Cardinality(T \ {v}) \in Nat
    BY <1>4, <1>5, FS_CardinalityType
<1>7. Cap > 0 /\ Cardinality(S \ {v}) >= Cap BY <1>1 DEF FoldedAt
<1>8. Cap > 0 /\ Cardinality(T \ {v}) >= Cap BY <1>5, <1>6, <1>7, CollectorAssumption
<1>9. QED BY <1>1, <1>8 DEF FoldedAt

(* The key and the epoch of an answer.                                     *)
LEMMA AnswerOf ==
    ASSUME Types, Relabelling, Calls, NEW p \in Observers, obs[p].at # "new",
           NEW i \in DOMAIN obs[p].vals
    PROVE  gens[obs[p].gen].keys[i] \in Keys /\ obs[p].epochs[i] \in 0..Resets
<1>1. Observing(p) /\ obs[p] \in Call /\ obs[p].gen \in DOMAIN gens BY FillsAny DEF Calls
<1>2. obs[p].vals \in Seq(AllValues) BY <1>1, CallFacts
<1>3. gens[obs[p].gen].keys \in Seq(Keys) BY <1>1, GenFacts
<1>4. PICK s, ks : s = obs[p].vals /\ ks = gens[obs[p].gen].keys OBVIOUS
<1>5. i \in 1..Len(s) /\ Len(s) <= Len(ks) /\ Len(s) \in Nat /\ Len(ks) \in Nat
    <2>1. Len(s) <= Len(ks) BY <1>1, <1>4 DEF Observing
    <2>2. s \in Seq(AllValues) /\ ks \in Seq(Keys) /\ i \in DOMAIN s BY <1>2, <1>3, <1>4
    <2>3. QED BY <2>1, <2>2
<1>6. ks[i] \in Keys
    <2>1. i \in 1..Len(ks) BY <1>5
    <2>2. QED BY <1>3, <1>4, <2>1
<1>7. obs[p].epochs[i] \in 0..Resets BY <1>1 DEF Observing, Answer
<1>8. QED BY <1>4, <1>6, <1>7

(* A value is folded only into a full budget.                              *)
LEMMA StepFolded ==
    Types /\ Relabelling /\ Calls /\ Budget /\ Folded /\ [Next]_vars => Folded'
<1> SUFFICES ASSUME Types, Relabelling, Calls, Budget, Folded, [Next]_vars,
                    NEW p \in Observers, obs'[p].at # "new",
                    NEW i \in DOMAIN obs'[p].vals, obs'[p].vals[i] = OverLimit
             PROVE  FoldedOf(p, i)'
    BY FoldedWillBe
<1>1. ASSUME NEW k \in Keys, NEW e \in 0..Resets, NEW v, FoldedAt(k, e, v),
             k = gens[obs[p].gen].keys[i], obs'[p].epochs[i] = e, obs[p].gen \in DOMAIN gens,
             obs'[p].gen = obs[p].gen, obs'[p].labels[k] = v
      PROVE  FoldedOf(p, i)'
    <2>1. FoldedAt(k, e, v)' BY <1>1, FoldedStays
    <2>2. gens'[obs'[p].gen].keys[i] = k BY <1>1, Moves
    <2>3. QED BY <1>1, <2>1, <2>2 DEF FoldedAt, FoldedOf
<1>2. ASSUME obs[p].at # "new", i \in DOMAIN obs[p].vals, obs[p].vals[i] = OverLimit,
             obs'[p].epochs[i] = obs[p].epochs[i], obs'[p].gen = obs[p].gen,
             obs'[p].labels = obs[p].labels
      PROVE  FoldedOf(p, i)'
    <2>1. PICK k, e, v : /\ k = gens[obs[p].gen].keys[i] /\ e = obs[p].epochs[i]
                         /\ v = obs[p].labels[k]
        OBVIOUS
    <2>2. k \in Keys /\ e \in 0..Resets BY <1>2, <2>1, AnswerOf
    <2>3. FoldedOf(p, i) BY <1>2, FoldedIs
    <2>4. FoldedAt(k, e, v) BY <2>1, <2>3 DEF FoldedOf
    <2>5. obs[p].gen \in DOMAIN gens BY <1>2, FillsAny
    <2>6. QED BY <1>1, <1>2, <2>1, <2>2, <2>4, <2>5
<1>3. CASE Quiet(p)
    <2>1. CASE obs[p].at = "new"
        <3>1. obs'[p].vals = <<>> BY <1>3, <2>1 DEF Quiet
        <3>2. DOMAIN <<>> = {} OBVIOUS
        <3>3. FALSE
            <4>1. DOMAIN obs'[p].vals = {} BY <3>1, <3>2
            <4>2. QED BY <4>1
        <3>4. QED BY <3>3
    <2>2. CASE obs[p].at # "new"
        <3>1. /\ obs'[p].gen = obs[p].gen /\ obs'[p].labels = obs[p].labels
              /\ obs'[p].vals = obs[p].vals /\ obs'[p].epochs = obs[p].epochs
            BY <1>3, <2>2 DEF Quiet
        <3>2. i \in DOMAIN obs[p].vals /\ obs[p].vals[i] = OverLimit BY <3>1
        <3>3. QED BY <1>2, <2>2, <3>1, <3>2
    <2>3. QED BY <2>1, <2>2
<1>4. ASSUME NEW o \in Observers, Guard(o), ~Quiet(p)
      PROVE  FoldedOf(p, i)'
    <2>1. PICK c, d, n, r : c = obs[o] /\ d = obs'[o] /\ n = Len(c.vals) /\ r = Resets
        OBVIOUS
    <2>2. PICK key : key = gens[c.gen].keys[n + 1] OBVIOUS
    <2>3. PICK got : got = Guarded(key, c.labels[key]) OBVIOUS
    <2>4. Answering(o, c, d, n, key, got, r) BY <2>1, <2>2, <2>3 DEF Answering
    <2>5. /\ c \in Call /\ c.at = "guard" /\ c.gen \in DOMAIN gens /\ n \in Nat
          /\ DOMAIN c.vals = 1..n /\ key \in Keys
          /\ d.gen = c.gen /\ d.labels = c.labels
          /\ DOMAIN d.vals = 1..(n + 1) /\ d.vals[n + 1] = got
          /\ \A j \in 1..n : d.vals[j] = c.vals[j]
          /\ d.epochs[n + 1] = r
          /\ \A j \in 1..n : d.epochs[j] = c.epochs[j]
          /\ \A q \in Observers \ {o} : obs'[q] = obs[q]
        BY <1>4, <2>4, NextAnswer
    <2>6. p = o
        <3>1. obs'[p] = obs[p] => Quiet(p) BY DEF Quiet
        <3>2. QED BY <1>4, <2>5, <3>1
    <2>7. CASE i \in 1..n
        <3>1. /\ obs[p].at # "new" /\ i \in DOMAIN obs[p].vals
              /\ obs[p].vals[i] = OverLimit /\ obs'[p].epochs[i] = obs[p].epochs[i]
              /\ obs'[p].gen = obs[p].gen /\ obs'[p].labels = obs[p].labels
            BY <2>1, <2>5, <2>6, <2>7
        <3>2. QED BY <1>2, <3>1
    <2>8. CASE i = n + 1
        <3>1. got = OverLimit BY <2>1, <2>5, <2>6, <2>8
        <3>2. c.labels[key] # OverLimit BY <2>5, NotSent
        <3>3. /\ Cap # 0 /\ c.labels[key] \notin seen[key]
              /\ Cardinality(seen[key]) >= Cap
            BY <2>3, <3>1, <3>2 DEF Guarded
        <3>4. Cap > 0 BY <3>3, CollectorAssumption
        <3>5. seen[key] = Admitted(key, r) BY <2>1, <2>5, <3>4 DEF Budget
        <3>6. Admitted(key, r) \ {c.labels[key]} = Admitted(key, r) BY <3>3, <3>5
        <3>7. PICK v : v = c.labels[key] OBVIOUS
        <3>8. FoldedAt(key, r, v) BY <3>3, <3>4, <3>5, <3>6, <3>7 DEF FoldedAt
        <3>9. key \in Keys /\ r \in 0..Resets
            BY <2>1, <2>5, Positions
        <3>10. /\ key = gens[obs[p].gen].keys[i] /\ obs'[p].epochs[i] = r
               /\ obs[p].gen \in DOMAIN gens /\ obs'[p].gen = obs[p].gen
               /\ obs'[p].labels[key] = v
            BY <2>1, <2>2, <2>5, <2>6, <2>8, <3>7
        <3>11. QED BY <1>1, <3>8, <3>9, <3>10
    <2>9. i \in 1..(n + 1) BY <2>1, <2>5, <2>6
    <2>10. QED BY <2>5, <2>7, <2>8, <2>9
<1>5. QED BY <1>3, <1>4, OnlyGuardAnswers
-----------------------------------------------------------------------------
(* The invariant holds                                                     *)

(* A new collector has one generation, and has counted nothing.            *)
LEMMA InitInv == Init => IInv
<1> SUFFICES ASSUME Init PROVE IInv OBVIOUS
<1>1. PICK g : g = NewGen(FirstSchema) OBVIOUS
<1>2. g \in Generation /\ g.counter = {} /\ g.latency = {}
    BY <1>1, NewGenFacts, CollectorAssumption
<1>3. gens = <<g>> BY <1>1 DEF Init
<1>4. gens \in Seq(Generation) /\ gens # <<>> /\ Len(gens) = 1 /\ DOMAIN gens = {1} /\ gens[1] = g
    BY <1>2, <1>3
<1>5. obs = [o \in Observers |-> [at |-> "new"]] BY DEF Init
<1>6. \A o \in Observers : obs[o].at = "new" BY <1>5
<1>7. Types BY <1>4, <1>5 DEF Init, Types, NoneSeen
<1>8. Relabelling BY <1>4 DEF Init, Relabelling
<1>9. Done = {} BY <1>6 DEF Done
<1>10. Samples BY <1>2, <1>4, <1>9 DEF Samples, Init
<1>11. \A k, e : Admitted(k, e) = {} BY <1>6 DEF Admitted
<1>12. Budget
    <2>1. \A k \in Keys : seen[k] = {} BY DEF Init, NoneSeen
    <2>2. Cap \in Nat BY CollectorAssumption
    <2>3. IsFiniteSet({}) /\ Cardinality({}) = 0 BY FS_EmptySet
    <2>4. ASSUME NEW k, NEW e
          PROVE  IsFiniteSet(Admitted(k, e)) /\ Cardinality(Admitted(k, e)) <= Cap
        BY <1>11, <2>2, <2>3
    <2>5. QED BY <1>11, <2>1, <2>4 DEF Budget
<1>13. Calls /\ Folded BY <1>6 DEF Calls, Folded
<1>14. QED BY <1>7, <1>8, <1>10, <1>12, <1>13 DEF IInv

(* Every step keeps the invariant.                                         *)
LEMMA StepInv == IInv /\ [Next]_vars => IInv'
BY StepTypes, StepRelabelling, StepCalls, StepSamples, StepBudget, StepFolded DEF IInv

(* So it holds throughout.                                                 *)
LEMMA InvHolds == Spec => []IInv
BY InitInv, StepInv, PTL DEF Spec
-----------------------------------------------------------------------------
(* What follows                                                            *)

(* The type invariant of the module.                                       *)
LEMMA InvTypes == IInv => TypeOK
<1> SUFFICES ASSUME IInv PROVE TypeOK OBVIOUS
<1>1. Types /\ Relabelling /\ Samples BY DEF IInv
<1>2. \A g \in Generations : gens[g].keys \in Schemas BY <1>1, GenFacts DEF Generations
<1>3. {dynamic, dims} \subseteq Generations /\ dims <= dynamic
    <2>1. Len(gens) \in Nat \ {0} BY <1>1, GenFacts
    <2>2. dims \in 1..Len(gens) /\ dynamic = Len(gens)
        BY <1>1, Positions DEF Relabelling
    <2>3. QED BY <2>1, <2>2 DEF Generations
<1>4. \A k \in Keys : seen[k] \subseteq Values BY <1>1 DEF Types
<1>5. streamed \subseteq Observers BY <1>1 DEF Samples, Done
<1>6. QED BY <1>1, <1>2, <1>3, <1>4, <1>5 DEF TypeOK, Types, Relabelling

(* Counting, in every state.                                               *)
LEMMA InvCounted == IInv => CountedOnce
<1> SUFFICES ASSUME IInv PROVE CountedOnce OBVIOUS
<1>1. Types /\ Relabelling /\ Calls /\ Samples BY DEF IInv
<1>2. DOMAIN gens = Generations BY <1>1, GenFacts DEF Generations
<1>3. ASSUME NEW o \in Done
      PROVE  Cardinality({w \in Generations \X UNION {gens[g].counter : g \in Generations} :
                             w[2] \in gens[w[1]].counter /\ w[2][1] = o}) = 1
    <2>1. PICK a, s : a = obs[o].gen /\ s = <<o, obs[o].vals>> OBVIOUS
    <2>2. a \in Generations /\ obs[o].at # "new" BY <1>1, <1>2, <2>1, FillsAny DEF Done
    <2>3. s \in gens[a].counter BY <1>1, <1>2, <2>1, <2>2 DEF Samples
    <2>4. ASSUME NEW g \in Generations, NEW t \in gens[g].counter, t[1] = o
          PROVE  g = a /\ t = s
        <3>1. PICK p \in Done : obs[p].gen = g /\ t = <<p, obs[p].vals>>
            BY <1>1, <1>2 DEF Samples
        <3>2. p = o BY <2>4, <3>1
        <3>3. QED BY <2>1, <3>1, <3>2
    <2>5. PICK U : U = UNION {gens[g].counter : g \in Generations} OBVIOUS
    <2>6. s \in U BY <2>2, <2>3, <2>5
    <2>7. {w \in Generations \X U : w[2] \in gens[w[1]].counter /\ w[2][1] = o} = {<<a, s>>}
        <3>1. <<a, s>> \in Generations \X U BY <2>2, <2>6
        <3>2. s[1] = o BY <2>1
        <3>3. ASSUME NEW w \in Generations \X U, w[2] \in gens[w[1]].counter, w[2][1] = o
              PROVE  w = <<a, s>>
            BY <2>4, <3>3
        <3>4. QED BY <2>3, <3>1, <3>2, <3>3
    <2>8. QED BY <2>5, <2>7, FS_Singleton
<1>4. ASSUME NEW g \in Generations
      PROVE  /\ \A s \in gens[g].counter : Len(s[2]) = Len(gens[g].keys)
             /\ gens[g].latency = {s \in gens[g].counter : s[1] \notin streamed}
    <2>1. /\ gens[g].counter = {<<o, obs[o].vals>> : o \in {p \in Done : obs[p].gen = g}}
          /\ gens[g].latency =
                {<<o, obs[o].vals>> : o \in {p \in Done : obs[p].gen = g /\ ~obs[p].stream}}
          /\ streamed = {o \in Done : obs[o].stream}
        BY <1>1, <1>2 DEF Samples
    <2>2. ASSUME NEW s \in gens[g].counter PROVE Len(s[2]) = Len(gens[g].keys)
        <3>1. PICK p \in Done : obs[p].gen = g /\ s = <<p, obs[p].vals>> BY <2>1
        <3>2. Len(obs[p].vals) = Len(gens[obs[p].gen].keys)
            BY <1>1 DEF Calls, Observing, Done
        <3>3. QED BY <3>1, <3>2
    <2>3. \A s : s \in gens[g].latency <=> s \in gens[g].counter /\ s[1] \notin streamed
        BY <2>1
    <2>4. gens[g].latency = {s \in gens[g].counter : s[1] \notin streamed} BY <2>3
    <2>5. QED BY <2>2, <2>4
<1>5. ASSUME NEW o \in Done, obs[o].fresh, obs[o].before = Len(gens)
      PROVE  \E s \in Served.counter : s[1] = o
    <2>1. Observing(o) BY <1>1 DEF Calls, Done
    <2>2. obs[o].gen = dynamic BY <1>1, <1>5, <2>1 DEF Observing, Relabelling
    <2>3. obs[o].gen \in DOMAIN gens BY <1>1, FillsAny DEF Done
    <2>4. <<o, obs[o].vals>> \in gens[dynamic].counter BY <1>1, <2>2, <2>3 DEF Samples
    <2>5. QED BY <2>4 DEF Served
<1>6. QED BY <1>3, <1>4, <1>5, InvTypes DEF CountedOnce

(* What a schema exports whose calls all fell into its own epoch was       *)
(* admitted in that epoch.                                                 *)
LEMMA InvExported ==
    ASSUME IInv, Cap > 0, NEW g \in Generations, NEW k \in Keys, OwnEpoch(g)
    PROVE  Cardinality(Exported(g, k)) <= Cap
<1>1. Types /\ Relabelling /\ Calls /\ Samples /\ Budget BY DEF IInv
<1>2. g \in DOMAIN gens
    <2>1. PICK n : n = Len(gens) OBVIOUS
    <2>2. n \in Nat \ {0} /\ DOMAIN gens = 1..n BY <1>1, <2>1, GenFacts
    <2>3. QED BY <2>1, <2>2 DEF Generations
<1>3. PICK A : A = IF g - 1 \in 0..Resets THEN Admitted(k, g - 1) ELSE {} OBVIOUS
<1>4. IsFiniteSet(A) /\ Cardinality(A) <= Cap
    <2>1. \A e \in 0..Resets : IsFiniteSet(Admitted(k, e)) /\ Cardinality(Admitted(k, e)) <= Cap
        BY <1>1 DEF Budget
    <2>2. IsFiniteSet({}) /\ Cardinality({}) <= Cap BY FS_EmptySet, CollectorAssumption
    <2>3. CASE g - 1 \in 0..Resets BY <1>3, <2>1, <2>3
    <2>4. CASE g - 1 \notin 0..Resets BY <1>3, <2>2, <2>4
    <2>5. QED BY <2>3, <2>4
<1>5. ASSUME NEW v \in Exported(g, k) PROVE v \in A
    <2>1. PICK t \in gens[g].counter, i \in DOMAIN gens[g].keys :
              gens[g].keys[i] = k /\ v = t[2][i]
        BY <1>5 DEF Exported
    <2>2. PICK p \in Done : obs[p].gen = g /\ t = <<p, obs[p].vals>>
        BY <1>1, <1>2 DEF Samples
    <2>3. v = obs[p].vals[i] /\ v \notin {Empty, OverLimit}
        BY <1>5, <2>1, <2>2 DEF Exported
    <2>4. Observing(p) /\ obs[p].at = "done" /\ p \in Observers BY <1>1 DEF Calls, Done
    <2>5. i \in DOMAIN obs[p].vals
        <3>1. obs[p].vals \in Seq(AllValues) BY <1>1, <2>4, ObsFacts, CallFacts
        <3>2. gens[g].keys \in Seq(Keys) BY <1>1, <1>2, GenFacts
        <3>3. Len(obs[p].vals) = Len(gens[g].keys) BY <2>2, <2>4 DEF Observing
        <3>4. PICK s, ks : s = obs[p].vals /\ ks = gens[g].keys OBVIOUS
        <3>5. s \in Seq(AllValues) /\ ks \in Seq(Keys) /\ Len(s) = Len(ks) /\ i \in DOMAIN ks
            BY <2>1, <3>1, <3>2, <3>3, <3>4
        <3>6. i \in DOMAIN s BY <3>5
        <3>7. QED BY <3>4, <3>6
    <2>6. Answer(p, i) BY <2>4, <2>5 DEF Observing
    <2>7. PICK e : e = obs[p].epochs[i] OBVIOUS
    <2>8. e = g - 1 BY <2>2, <2>4, <2>5, <2>7 DEF OwnEpoch
    <2>9. v = obs[p].labels[k] /\ e \in 0..Resets
        BY <2>1, <2>2, <2>3, <2>6, <2>7 DEF Answer
    <2>10. Took(p, k, e) BY <2>1, <2>2, <2>3, <2>4, <2>5, <2>7 DEF Took
    <2>11. v \in Admitted(k, e) BY <2>4, <2>9, <2>10, AdmittedIs
    <2>12. QED BY <1>3, <2>8, <2>9, <2>11
<1>6. PICK X : X = Exported(g, k) OBVIOUS
<1>7. X \subseteq A BY <1>5, <1>6
<1>8. Cardinality(X) <= Cap
    <2>1. IsFiniteSet(X) /\ Cardinality(X) <= Cardinality(A) BY <1>4, <1>7, FS_Subset
    <2>2. Cardinality(X) \in Nat /\ Cardinality(A) \in Nat /\ Cap \in Nat
        BY <1>4, <2>1, FS_CardinalityType, CollectorAssumption
    <2>3. QED BY <1>4, <2>1, <2>2
<1>9. QED BY <1>6, <1>8

(* Every exchange is counted once, under one schema, with a latency unless *)
(* it is a stream, and in the served registry if no reload overlapped its  *)
(* load (Observe, SetLabelKeys).                                           *)
THEOREM ExchangesCounted == Spec => []CountedOnce
<1>1. IInv => CountedOnce BY InvCounted
<1>2. QED BY <1>1, InvHolds, PTL

(* No key of a schema that was guarded in its own epoch exports more than  *)
(* its budget, and a value is folded only into a full one (guard,          *)
(* SetLabelKeys).                                                          *)
THEOREM LabelsBounded == Spec => []CapExact
<1>1. IInv => CapExact
    <2>1. ASSUME IInv
          PROVE  Cap > 0 => \A g \in Generations, k \in Keys :
                     OwnEpoch(g) => Cardinality(Exported(g, k)) <= Cap
        BY <2>1, InvExported
    <2>2. IInv => Folded BY DEF IInv
    <2>3. QED BY <2>1, <2>2 DEF CapExact, Folded
<1>2. QED BY <1>1, InvHolds, PTL
=============================================================================
