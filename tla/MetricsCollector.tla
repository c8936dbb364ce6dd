-------------------------- MODULE MetricsCollector --------------------------
(***************************************************************************)
(* metrics.Collector: request goroutines call Observe without a lock while *)
(* a reload calls SetLabelKeys, which builds new vectors in a new registry *)
(* and publishes the two in two stores.  A vector set and its registry are *)
(* one "generation" here; dims is the generation Observe fills, dynamic    *)
(* the one a scrape of /metrics gathers.                                   *)
(***************************************************************************)
EXTENDS Integers, Sequences, FiniteSets

CONSTANTS
    Keys,         \* custom label names
    Values,       \* label values a request can carry
    Observers,    \* completed exchanges, each observed by its own goroutine
    FirstSchema,  \* engine.LabelKeys() at startup, a sequence of keys
    Schemas,      \* the schemas a reload can bring
    Cap,          \* max_label_values; 0 disables the guard
    MaxGens       \* bound: generations built

Empty == "(empty)"          \* the request carries no such header
OverLimit == "__over_limit__"

ASSUME CollectorAssumption ==
    /\ Cap \in Nat
    /\ FirstSchema \in Schemas /\ Schemas \subseteq Seq(Keys)
    /\ MaxGens \in Nat \ {0}
    /\ {Empty, OverLimit} \cap Values = {}

VARIABLES
    gens,       \* gens[g]: [keys, counter, latency]; the last two are sets of
                \* <<observer, label values>> pairs, the samples recorded
    dynamic,    \* c.dynamic: the generation a scrape sees
    dims,       \* c.dims: the generation Observe fills
    seen,       \* c.seen[k]: values admitted per key
    relabel,    \* SetLabelKeys between its steps
    obs,        \* obs[o]: Observe between its steps
    capped,     \* optictrace_label_capped_total, all labels
    streamed    \* observers counted as streams

vars == <<gens, dynamic, dims, seen, relabel, obs, capped, streamed>>

NewGen(keys) == [keys |-> keys, counter |-> {}, latency |-> {}]
NoneSeen == [k \in Keys |-> {}]

Init ==
    /\ gens = <<NewGen(FirstSchema)>>
    /\ dynamic = 1 /\ dims = 1
    /\ seen = NoneSeen
    /\ relabel = "idle"
    /\ obs = [o \in Observers |-> [at |-> "new"]]
    /\ capped = 0
    /\ streamed = {}
-----------------------------------------------------------------------------
(* SetLabelKeys, under rebuildMu: one at a time                            *)

(* Compare with the schema in effect; build the new vectors and registry   *)
(* and publish the registry.  An equal schema changes nothing.             *)
StoreRegistry(keys) ==
    /\ relabel = "idle"
    /\ keys # gens[dims].keys
    /\ Len(gens) < MaxGens
    /\ gens' = Append(gens, NewGen(keys))
    /\ dynamic' = Len(gens) + 1
    /\ relabel' = "dims"
    /\ UNCHANGED <<dims, seen, obs, capped, streamed>>

StoreDims ==
    /\ relabel = "dims"
    /\ dims' = Len(gens)
    /\ relabel' = "seen"
    /\ UNCHANGED <<gens, dynamic, seen, obs, capped, streamed>>

ResetSeen ==
    /\ relabel = "seen"
    /\ seen' = NoneSeen
    /\ relabel' = "idle"
    /\ UNCHANGED <<gens, dynamic, dims, obs, capped, streamed>>
-----------------------------------------------------------------------------
(* Observe                                                                 *)

(* One load of dims, for the counter and for the histogram.  fresh notes   *)
(* that no SetLabelKeys was between its stores at that moment.             *)
LoadDims(o, labels, stream) ==
    /\ obs[o].at = "new"
    /\ obs' = [obs EXCEPT ![o] = [at |-> "guard", gen |-> dims, labels |-> labels,
                                  stream |-> stream, vals |-> <<>>, epochs |-> <<>>,
                                  fresh |-> relabel = "idle", before |-> Len(gens)]]
    /\ UNCHANGED <<gens, dynamic, dims, seen, relabel, capped, streamed>>

(* guard, under cardMu: what it returns.                                   *)
Guarded(key, value) ==
    IF Cap = 0 \/ value = Empty \/ value \in seen[key] THEN value
    ELSE IF Cardinality(seen[key]) >= Cap THEN OverLimit ELSE value

(* The SetLabelKeys calls that have reset the guard so far: the epoch the  *)
(* properties attribute an admitted value to.                              *)
Resets == Len(gens) - (IF relabel = "idle" THEN 1 ELSE 2)

(* What a guard call leaves behind, given the value it returned.           *)
Answered(o, key, got) ==
    /\ obs' = [obs EXCEPT ![o].vals = Append(@, got), ![o].epochs = Append(@, Resets)]
    /\ capped' = IF got = OverLimit THEN capped + 1 ELSE capped
    /\ UNCHANGED <<gens, dynamic, dims, relabel, streamed>>

(* Mutant: an admitted value is not remembered.                            *)
GuardForgets(o) ==
    /\ obs[o].at = "guard"
    /\ Len(obs[o].vals) < Len(gens[obs[o].gen].keys)
    /\ LET key == gens[obs[o].gen].keys[Len(obs[o].vals) + 1]
       IN  Answered(o, key, Guarded(key, obs[o].labels[key]))
    /\ UNCHANGED seen

Guard(o) ==
    /\ obs[o].at = "guard"
    /\ Len(obs[o].vals) < Len(gens[obs[o].gen].keys)
    /\ LET key == gens[obs[o].gen].keys[Len(obs[o].vals) + 1]
           got == Guarded(key, obs[o].labels[key])
       IN  /\ Answered(o, key, got)
           /\ seen' = IF Cap = 0 \/ got \in {Empty, OverLimit} THEN seen
                      ELSE [seen EXCEPT ![key] = @ \cup {got}]

(* Mutant: a stream's lifetime goes into the latency histogram as well.    *)
RecordStreamLatency(o) ==
    /\ obs[o].at = "guard"
    /\ Len(obs[o].vals) = Len(gens[obs[o].gen].keys)
    /\ gens' = [gens EXCEPT ![obs[o].gen].counter = @ \cup {<<o, obs[o].vals>>},
                            ![obs[o].gen].latency = @ \cup {<<o, obs[o].vals>>}]
    /\ streamed' = IF obs[o].stream THEN streamed \cup {o} ELSE streamed
    /\ obs' = [obs EXCEPT ![o].at = "done"]
    /\ UNCHANGED <<dynamic, dims, seen, relabel, capped>>

(* The counter, then the stream metrics or the latency histogram.          *)
RecordSample(o) ==
    /\ obs[o].at = "guard"
    /\ Len(obs[o].vals) = Len(gens[obs[o].gen].keys)
    /\ LET sample == <<o, obs[o].vals>> IN
       gens' = [gens EXCEPT ![obs[o].gen].counter = @ \cup {sample},
                            ![obs[o].gen].latency =
                                IF obs[o].stream THEN @ ELSE @ \cup {sample}]
    /\ streamed' = IF obs[o].stream THEN streamed \cup {o} ELSE streamed
    /\ obs' = [obs EXCEPT ![o].at = "done"]
    /\ UNCHANGED <<dynamic, dims, seen, relabel, capped>>
-----------------------------------------------------------------------------
Next ==
    \/ \E keys \in Schemas : StoreRegistry(keys)
    \/ StoreDims \/ ResetSeen
    \/ \E o \in Observers :
        \/ \E labels \in [Keys -> Values \cup {Empty}], stream \in BOOLEAN :
               LoadDims(o, labels, stream)
        \/ Guard(o) \/ RecordSample(o)

Spec == Init /\ [][Next]_vars
-----------------------------------------------------------------------------
Generations == 1..Len(gens)

(* What a scrape of /metrics gathers, resolved at each scrape.             *)
Served == gens[dynamic]

(* The values a generation exports for a key, the fixed ones aside.        *)
Exported(g, key) ==
    {s[2][i] : s \in gens[g].counter, i \in {i \in DOMAIN gens[g].keys : gens[g].keys[i] = key}}
        \ {Empty, OverLimit}

Done == {o \in Observers : obs[o].at = "done"}

TypeOK ==
    /\ \A g \in Generations : gens[g].keys \in Schemas
    /\ {dynamic, dims} \subseteq Generations /\ dims <= dynamic
    /\ \A k \in Keys : seen[k] \subseteq Values
    /\ relabel \in {"idle", "dims", "seen"}
    /\ capped \in Nat
    /\ streamed \subseteq Observers

(* Every exchange is counted once, in one generation, with one value per   *)
(* key of that generation's schema; it has a latency sample exactly if it  *)
(* was not a stream, in the same generation and with the same values ("a   *)
(* concurrent reload must not be able to fill the counter's values from    *)
(* one schema and the histogram's from another").  One observed after      *)
(* SetLabelKeys has returned, and before the next one starts, is in the    *)
(* registry that /metrics serves, so a label added by a reload appears.    *)
CountedOnce ==
    /\ TypeOK
    /\ \A o \in Done :
          Cardinality({w \in Generations \X UNION {gens[g].counter : g \in Generations} :
                          w[2] \in gens[w[1]].counter /\ w[2][1] = o}) = 1
    /\ \A g \in Generations :
          /\ \A s \in gens[g].counter : Len(s[2]) = Len(gens[g].keys)
          /\ gens[g].latency = {s \in gens[g].counter : s[1] \notin streamed}
    /\ \A o \in Done : obs[o].fresh /\ obs[o].before = Len(gens) =>
          \E s \in Served.counter : s[1] = o

(* The values of key that were admitted between two resets of the guard.   *)
Admitted(key, epoch) ==
    {obs[o].labels[key] : o \in {o \in Observers : obs[o].at # "new" /\
        \E i \in DOMAIN obs[o].vals : /\ gens[obs[o].gen].keys[i] = key
                                      /\ obs[o].epochs[i] = epoch
                                      /\ obs[o].vals[i] \notin {Empty, OverLimit}}}

(* Every guard call for generation g came after the reset of the relabel   *)
(* that made g and before the next one's.                                  *)
OwnEpoch(g) ==
    \A o \in Observers : obs[o].at # "new" /\ obs[o].gen = g =>
        \A i \in DOMAIN obs[o].vals : obs[o].epochs[i] = g - 1

(* The guard caps the distinct values of a key: a schema exports at most   *)
(* Cap of them ("maxLabelValues caps the distinct values each may          *)
(* contribute", metrics.go:151-152).                                       *)
(* Required of a schema whose observers were all guarded between its own   *)
(* reset and the next: SetLabelKeys swaps the vectors before it resets the *)
(* guard, and a value let in between them counts against the old budget.   *)
(* And a value is folded into __over_limit__ only when Cap other values of *)
(* its key were admitted since the guard was last reset: a reload gives    *)
(* the new schema its whole budget (metrics.go, guard and SetLabelKeys).   *)
CapExact ==
    /\ Cap > 0 => \A g \in Generations, k \in Keys :
          OwnEpoch(g) => Cardinality(Exported(g, k)) <= Cap
    /\ \A o \in Observers : obs[o].at # "new" =>
          \A i \in DOMAIN obs[o].vals : obs[o].vals[i] = OverLimit =>
              LET key == gens[obs[o].gen].keys[i] IN
              Cardinality(Admitted(key, obs[o].epochs[i]) \ {obs[o].labels[key]}) >= Cap
=============================================================================
