------------------------- MODULE Dispatcher_proofs -------------------------
(***************************************************************************)
(* The dispatcher's streams, counters and drain, for every number of       *)
(* exporters, choice of log takers, queue size and batch size.             *)
(***************************************************************************)
EXTENDS Dispatcher, SequenceTheorems, FiniteSetTheorems, TLAPS

Tasks == {"flush", "flushLogs", "drain", "close"}

(* What a worker can have before it: a flush or two and back to the select,*)
(* or what is left of the way from the closed record channel to Close.     *)
Rounds == {<<>>, <<"flush">>, <<"flushLogs">>, <<"flush", "flushLogs">>}
Draining == {<<"drain", "flushLogs", "close">>, <<"flushLogs", "drain", "flushLogs", "close">>}
Drained == {<<"flushLogs", "close">>, <<"close">>}
Ending == {<<"flush", "drain", "flushLogs", "close">>} \cup Draining \cup Drained

(* Shutdown closes the lines of an exporter before its records, a channel  *)
(* that is closed and empty stays so, and each stage of the ending leaves  *)
(* nothing behind in what it has finished with.                            *)
WorkerState(e) ==
    /\ todo[e] \in Rounds \cup Ending
    /\ selecting[e] => e \in TakesLogs
    /\ closed[e]["records"] /\ e \in TakesLogs => closed[e]["lines"]
    /\ e \notin TakesLogs => queue[e]["lines"] = <<>> /\ batch[e]["lines"] = <<>>
    /\ e \in TakesLogs /\ ~selecting[e] => closed[e]["lines"] /\ queue[e]["lines"] = <<>>
    /\ todo[e] \in Ending \/ e \in exited => closed[e]["records"] /\ queue[e]["records"] = <<>>
    /\ todo[e] \in Draining \cup Drained \/ e \in exited => batch[e]["records"] = <<>>
    /\ todo[e] \in Drained \/ e \in exited => queue[e]["lines"] = <<>>
    /\ todo[e] = <<"close">> \/ e \in exited => batch[e]["lines"] = <<>>
    /\ e \in exited => todo[e] = <<>>

(* The items whose walk has left exporter e behind without a panic.        *)
Passed(e, s) == {x \in Items : StreamOf(x) = s /\ at[x] \in (e + 1)..(N + 1)}

(* The two parts of Accounted, the second one for every exporter on the    *)
(* way and not only at the end of the walk.                                *)
Counted(e) ==
    delivered[e] + failed[e] = Len(settled[e]["records"]) + Len(settled[e]["lines"])

Met(e, s) ==
    s = "records" \/ e \in TakesLogs =>
        /\ IsFiniteSet(Passed(e, s))
        /\ Cardinality(Passed(e, s)) <= Len(accepted[e][s]) + dropped[e][s]

Ledger == \A e \in Exporters : Counted(e) /\ \A s \in Streams : Met(e, s)

IInv == BoundedInOrder /\ Ledger /\ \A e \in Exporters : WorkerState(e)

(* Concatenation by a name the provers do not look into.                   *)
Cat(s, t) == s \o t
EndToEnd(d, b, q) == Cat(Cat(d, b), q)

(* What the proofs use of concatenation.                                   *)
LEMMA CatFacts ==
    ASSUME NEW S
    PROVE  /\ \A s, t \in Seq(S) : Cat(s, t) \in Seq(S) /\ Len(Cat(s, t)) = Len(s) + Len(t)
           /\ \A s \in Seq(S) : Cat(s, <<>>) = s /\ Cat(<<>>, s) = s
           /\ \A s, t, u \in Seq(S) : Cat(Cat(s, t), u) = Cat(s, Cat(t, u))
<1>1. \A s, t \in Seq(S) : Cat(s, t) \in Seq(S) /\ Len(Cat(s, t)) = Len(s) + Len(t)
    BY ConcatProperties DEF Cat
<1>2. \A s \in Seq(S) : Cat(s, <<>>) = s /\ Cat(<<>>, s) = s
    BY ConcatEmptySeq DEF Cat
<1>3. \A s, t, u \in Seq(S) : Cat(Cat(s, t), u) = Cat(s, Cat(t, u))
    BY ConcatAssociative DEF Cat
<1>4. QED BY <1>1, <1>2, <1>3

(* Appending is concatenating a sequence of one.                           *)
LEMMA AppendIsCat ==
    ASSUME NEW S, NEW s \in Seq(S), NEW x \in S
    PROVE  Append(s, x) = Cat(s, <<x>>) /\ <<x>> \in Seq(S)
<1>1. Append(s, x) = Cat(s, <<x>>) BY AppendIsConcat DEF Cat
<1>2. <<x>> \in Seq(S) OBVIOUS
<1>3. QED BY <1>1, <1>2

(* The lengths of what a channel, a batch or a plan becomes.               *)
LEMMA SeqFacts ==
    ASSUME NEW S, NEW s \in Seq(S), NEW x \in S
    PROVE  /\ <<x>> \in Seq(S) /\ Append(s, x) \in Seq(S)
           /\ Len(s) \in Nat /\ (Len(s) = 0 <=> s = <<>>)
           /\ Len(Append(s, x)) = Len(s) + 1
OBVIOUS

(* Splitting off the head of a channel or of a plan.                       *)
LEMMA HeadTailFacts ==
    ASSUME NEW S, NEW s \in Seq(S), s # <<>>
    PROVE  /\ Head(s) \in S /\ Tail(s) \in Seq(S)
           /\ Len(Tail(s)) = Len(s) - 1
           /\ s = Cat(<<Head(s)>>, Tail(s))
<1>1. Len(s) \in Nat \ {0} BY EmptySeq
<1>2. SubSeq(s, 1, Len(s)) = <<s[1]>> \o SubSeq(s, 1 + 1, Len(s))
    BY <1>1, SubSeqRecursiveFirst
<1>3. QED BY <1>1, <1>2, HeadTailProperties, TailIsSubSeq, SubSeqFull DEF Cat

(* Receiving moves the head of the channel to the end of the batch.        *)
LEMMA TakeKeepsOrder ==
    ASSUME NEW S, NEW d \in Seq(S), NEW b \in Seq(S), NEW q \in Seq(S), q # <<>>
    PROVE  EndToEnd(d, Append(b, Head(q)), Tail(q)) = EndToEnd(d, b, q)
<1> DEFINE h == <<Head(q)>>
           r == Tail(q)
<1>1. Head(q) \in S /\ r \in Seq(S) /\ q = Cat(h, r)
    BY HeadTailFacts
<1>2. h \in Seq(S) BY <1>1
<1>3. Append(b, Head(q)) = Cat(b, h) BY <1>1, AppendIsCat
<1> HIDE DEF h, r
<1>4. Cat(d, b) \in Seq(S) /\ Cat(d, Cat(b, h)) = Cat(Cat(d, b), h)
    BY <1>2, CatFacts
<1>5. Cat(Cat(Cat(d, b), h), r) = Cat(Cat(d, b), Cat(h, r))
    BY <1>1, <1>2, <1>4, CatFacts
<1>6. QED BY <1>1, <1>3, <1>4, <1>5 DEF EndToEnd, r

(* An accepted item is the last of the whole: settled, batched, queued.    *)
LEMMA OfferKeepsOrder ==
    ASSUME NEW S, NEW d \in Seq(S), NEW b \in Seq(S), NEW q \in Seq(S), NEW x \in S
    PROVE  EndToEnd(d, b, Append(q, x)) = Append(EndToEnd(d, b, q), x)
<1> DEFINE c == Cat(d, b)
           l == <<x>>
<1>1. c \in Seq(S) BY CatFacts
<1>2. l \in Seq(S) /\ Append(q, x) = Cat(q, l) BY AppendIsCat
<1> HIDE DEF c
<1>3. Cat(c, q) \in Seq(S) BY <1>1, CatFacts
<1>4. Append(Cat(c, q), x) = Cat(Cat(c, q), l) BY <1>3, AppendIsCat
<1> HIDE DEF l
<1>5. Cat(Cat(c, q), l) = Cat(c, Cat(q, l)) BY <1>1, <1>2, CatFacts
<1>6. QED BY <1>2, <1>4, <1>5 DEF EndToEnd, c

(* A flush moves the whole batch to the end of what is settled.            *)
LEMMA FlushKeepsOrder ==
    ASSUME NEW S, NEW d \in Seq(S), NEW b \in Seq(S), NEW q \in Seq(S)
    PROVE  EndToEnd(Cat(d, b), <<>>, q) = EndToEnd(d, b, q)
<1>1. Cat(d, b) \in Seq(S) BY CatFacts
<1>2. QED BY <1>1, CatFacts DEF EndToEnd

(* What is left of each plan once its first step is done.                  *)
LEMMA PlanFacts ==
    /\ Tail(<<"flush">>) = <<>> /\ Tail(<<"flushLogs">>) = <<>>
    /\ Tail(<<"flush", "flushLogs">>) = <<"flushLogs">>
    /\ Tail(<<"flushLogs", "close">>) = <<"close">>
    /\ Tail(<<"drain", "flushLogs", "close">>) = <<"flushLogs", "close">>
    /\ Tail(<<"flush", "drain", "flushLogs", "close">>) = <<"drain", "flushLogs", "close">>
    /\ Tail(<<"flushLogs", "drain", "flushLogs", "close">>) = <<"drain", "flushLogs", "close">>
    /\ <<"flushLogs">> \o <<"drain", "flushLogs", "close">>
           = <<"flushLogs", "drain", "flushLogs", "close">>
    /\ <<"flushLogs">> \o <<>> = <<"flushLogs">> /\ <<"flush">> \o <<>> = <<"flush">>
<1>1. Tail(<<"flush">>) = <<>> /\ Tail(<<"flushLogs">>) = <<>> OBVIOUS
<1>2. Tail(<<"flush", "flushLogs">>) = <<"flushLogs">> OBVIOUS
<1>3. Tail(<<"flushLogs", "close">>) = <<"close">> OBVIOUS
<1>4. Tail(<<"drain", "flushLogs", "close">>) = <<"flushLogs", "close">> OBVIOUS
<1>5. Tail(<<"flush", "drain", "flushLogs", "close">>) = <<"drain", "flushLogs", "close">> OBVIOUS
<1>6. Tail(<<"flushLogs", "drain", "flushLogs", "close">>) = <<"drain", "flushLogs", "close">>
    OBVIOUS
<1>7. <<"flushLogs">> \o <<"drain", "flushLogs", "close">>
          = <<"flushLogs", "drain", "flushLogs", "close">>
    <2> DEFINE s == <<"flushLogs", "drain", "flushLogs", "close">>
    <2>1. s \in Seq(Tasks) /\ s # <<>> /\ Head(s) = "flushLogs" BY DEF Tasks
    <2>2. s = <<Head(s)>> \o Tail(s)
        <3> HIDE DEF s
        <3>1. QED BY <2>1, HeadTailFacts DEF Cat
    <2>3. QED BY <1>6, <2>1, <2>2
<1>8. <<"flushLogs">> \o <<>> = <<"flushLogs">> /\ <<"flush">> \o <<>> = <<"flush">> OBVIOUS
<1>9. QED BY <1>1, <1>2, <1>3, <1>4, <1>5, <1>6, <1>7, <1>8

-----------------------------------------------------------------------------
(* Order: BoundedInOrder is inductive.                                     *)

Whole(e, s) == EndToEnd(settled[e][s], batch[e][s], queue[e][s]) = accepted[e][s]

Bounded(e, s) ==
    /\ Len(queue[e][s]) <= QueueSize
    /\ Len(batch[e][s]) <= BatchSize
    /\ Len(batch[e][s]) = BatchSize => Doing(e, FlushOf(s))

(* BoundedInOrder, exporter by exporter and stream by stream.              *)
LEMMA Parts ==
    BoundedInOrder <=> TypeOK /\ \A e \in Exporters, s \in Streams : Whole(e, s) /\ Bounded(e, s)
BY DEF BoundedInOrder, Whole, Bounded, EndToEnd, Cat

(* The channel, the batch and the history of one stream.                   *)
LEMMA StreamTypes ==
    ASSUME TypeOK, NEW e \in Exporters, NEW s \in Streams
    PROVE  /\ settled[e][s] \in Seq(Items) /\ batch[e][s] \in Seq(Items)
           /\ queue[e][s] \in Seq(Items) /\ accepted[e][s] \in Seq(Items)
           /\ Len(settled[e][s]) \in Nat /\ Len(batch[e][s]) \in Nat
           /\ Len(queue[e][s]) \in Nat /\ Len(accepted[e][s]) \in Nat
           /\ todo[e] \in Seq(Tasks)
<1>1. /\ settled[e][s] \in Seq(Items) /\ batch[e][s] \in Seq(Items)
      /\ queue[e][s] \in Seq(Items) /\ accepted[e][s] \in Seq(Items)
      /\ todo[e] \in Seq(Tasks)
    BY DEF TypeOK, Tasks
<1>2. QED BY <1>1, LenProperties

(* No batch is full when the worker is not about to flush it.              *)
LEMMA RoomInBatch ==
    ASSUME BoundedInOrder, NEW e \in Exporters, NEW s \in Streams, ~Doing(e, FlushOf(s))
    PROVE  Len(batch[e][s]) < BatchSize
<1>1. Len(batch[e][s]) \in Nat BY StreamTypes DEF BoundedInOrder
<1>2. Len(batch[e][s]) <= BatchSize /\ Len(batch[e][s]) # BatchSize
    BY Parts DEF Bounded
<1>3. QED BY <1>1, <1>2, DispatcherAssumption

(* Flushing next is a plan like any other.                                 *)
LEMMA FlushNext ==
    ASSUME NEW s, NEW p \in Seq(Tasks)
    PROVE  /\ <<FlushOf(s)>> \o p \in Seq(Tasks)
           /\ <<FlushOf(s)>> \o p # <<>>
           /\ Head(<<FlushOf(s)>> \o p) = FlushOf(s)
<1>1. FlushOf(s) \in Tasks BY DEF FlushOf, Tasks
<1>2. QED BY <1>1, SeqFacts

(* A move from the channel to the batch, by the select or by the drain.    *)
LEMMA TakeInLine ==
    ASSUME BoundedInOrder, NEW e \in Exporters, NEW s \in Streams, Take(e, s),
           \A t \in Streams : ~Doing(e, FlushOf(t)),
           UNCHANGED <<at, dropped, accepted, selecting, delivered, failed, exited,
                       settled, closeVars>>
    PROVE  BoundedInOrder'
<1> DEFINE q == queue[e][s]
           b == batch[e][s]
           plan == IF Len(batch'[e][s]) >= BatchSize
                   THEN <<FlushOf(s)>> \o todo[e] ELSE todo[e]
<1>0. TypeOK /\ \A f \in Exporters, t \in Streams : Whole(f, t) /\ Bounded(f, t)
    BY Parts
<1>1. /\ q \in Seq(Items) /\ b \in Seq(Items) /\ q # <<>> /\ todo[e] \in Seq(Tasks)
      /\ Len(b) \in Nat /\ Len(b) < BatchSize /\ Len(q) \in Nat
    BY <1>0, StreamTypes, RoomInBatch DEF Take
<1>11. settled' = settled /\ accepted' = accepted
    OBVIOUS
<1>12. EndToEnd(settled[e][s], Append(b, Head(q)), Tail(q)) = EndToEnd(settled[e][s], b, q)
    BY <1>0, <1>1, StreamTypes, TakeKeepsOrder
<1>2. /\ Tail(q) \in Seq(Items) /\ Len(Tail(q)) = Len(q) - 1
      /\ Append(b, Head(q)) \in Seq(Items) /\ Len(Append(b, Head(q))) = Len(b) + 1
    BY <1>1, HeadTailFacts, SeqFacts
<1>3. /\ queue' = [queue EXCEPT ![e][s] = Tail(q)]
      /\ batch' = [batch EXCEPT ![e][s] = Append(b, Head(q))]
      /\ todo' = [todo EXCEPT ![e] = plan]
    BY DEF Take
<1>4. /\ queue' \in [Exporters -> [Streams -> Seq(Items)]]
      /\ batch' \in [Exporters -> [Streams -> Seq(Items)]]
    BY <1>0, <1>2, <1>3 DEF TypeOK
<1>13. /\ queue'[e][s] = Tail(q) /\ batch'[e][s] = Append(b, Head(q))
       /\ \A f \in Exporters, t \in Streams : f # e \/ t # s =>
             queue'[f][t] = queue[f][t] /\ batch'[f][t] = batch[f][t]
    BY <1>0, <1>2, <1>3 DEF TypeOK
<1>5. plan \in Seq(Tasks) BY <1>1, FlushNext
<1>6. Len(batch'[e][s]) = BatchSize => plan # <<>> /\ Head(plan) = FlushOf(s)
    BY <1>1, FlushNext
<1> HIDE DEF q, b, plan
<1>7. todo' \in [Exporters -> Seq(Tasks)]
    BY <1>0, <1>3, <1>5 DEF TypeOK, Tasks
<1>14. /\ todo'[e] = plan
       /\ \A f \in Exporters : f # e => todo'[f] = todo[f]
    BY <1>0, <1>3, <1>5 DEF TypeOK, Tasks
<1>8. TypeOK'
    BY <1>0, <1>4, <1>7 DEF TypeOK, Tasks, closeVars
<1>9. ASSUME NEW f \in Exporters, NEW t \in Streams PROVE Whole(f, t)'
    <2>1. CASE f = e /\ t = s
        BY <1>0, <1>11, <1>12, <1>13, <2>1 DEF Whole, q, b
    <2>2. CASE f # e \/ t # s
        <3>1. /\ settled'[f][t] = settled[f][t] /\ accepted'[f][t] = accepted[f][t]
              /\ queue'[f][t] = queue[f][t] /\ batch'[f][t] = batch[f][t]
            BY <1>11, <1>13, <2>2
        <3>2. QED BY <1>0, <3>1 DEF Whole
    <2>3. QED BY <2>1, <2>2
<1>10. ASSUME NEW f \in Exporters, NEW t \in Streams PROVE Bounded(f, t)'
    <2>1. CASE f = e /\ t = s
        <3>1. Len(queue'[e][s]) <= QueueSize /\ Len(batch'[e][s]) <= BatchSize
            BY <1>0, <1>1, <1>2, <1>13, DispatcherAssumption DEF Bounded, q
        <3>2. QED BY <1>6, <1>14, <2>1, <3>1 DEF Bounded, Doing
    <2>2. CASE f = e /\ t # s
        <3>1. Len(batch[f][t]) \in Nat /\ Len(batch[f][t]) < BatchSize
            BY <1>0, <2>2, StreamTypes, RoomInBatch
        <3>2. QED BY <1>0, <1>13, <2>2, <3>1 DEF Bounded
    <2>3. CASE f # e
        BY <1>0, <1>13, <1>14, <2>3 DEF Bounded, Doing
    <2>4. QED BY <2>1, <2>2, <2>3
<1>15. QED BY <1>8, <1>9, <1>10 DEF BoundedInOrder, Whole, Bounded, EndToEnd, Cat

(* A new plan after one that was not about to flush.                       *)
LEMMA PlanInLine ==
    ASSUME BoundedInOrder, NEW e \in Exporters, NEW p \in Seq(Tasks),
           \A t \in Streams : ~Doing(e, FlushOf(t)),
           todo' = [todo EXCEPT ![e] = p],
           selecting' \in [Exporters -> BOOLEAN], exited' \in SUBSET Exporters,
           UNCHANGED <<queueVars, batch, delivered, failed, settled, closeVars>>
    PROVE  BoundedInOrder'
<1>0. TypeOK /\ \A f \in Exporters, t \in Streams : Whole(f, t) /\ Bounded(f, t)
    BY Parts
<1>1. /\ queue' = queue /\ batch' = batch /\ settled' = settled /\ accepted' = accepted
      /\ at' = at /\ dropped' = dropped /\ delivered' = delivered /\ failed' = failed
      /\ closed' = closed /\ closing' = closing /\ gaveUp' = gaveUp
    BY DEF queueVars, closeVars
<1>2. todo' \in [Exporters -> Seq(Tasks)] BY <1>0 DEF TypeOK, Tasks
<1>3. TypeOK' BY <1>0, <1>1, <1>2 DEF TypeOK, Tasks
<1>4. ASSUME NEW f \in Exporters, NEW t \in Streams PROVE Whole(f, t)'
    BY <1>0, <1>1 DEF Whole
<1>5. ASSUME NEW f \in Exporters, NEW t \in Streams PROVE Bounded(f, t)'
    <2>1. CASE f = e
        <3>1. Len(batch[f][t]) \in Nat /\ Len(batch[f][t]) < BatchSize
            BY <1>0, <2>1, StreamTypes, RoomInBatch
        <3>2. QED BY <1>0, <1>1, <3>1 DEF Bounded
    <2>2. CASE f # e
        <3>1. todo'[f] = todo[f] BY <1>0, <2>2 DEF TypeOK
        <3>2. QED BY <1>0, <1>1, <3>1 DEF Bounded, Doing
    <2>3. QED BY <2>1, <2>2
<1>6. QED BY <1>3, <1>4, <1>5 DEF BoundedInOrder, Whole, Bounded, EndToEnd, Cat

(* A flush empties one batch, and the other one was not full.              *)
LEMMA FlushInLine ==
    ASSUME BoundedInOrder, NEW e \in Exporters, NEW s \in Streams, Flush(e, s)
    PROVE  BoundedInOrder'
<1> DEFINE d == settled[e][s]
           b == batch[e][s]
<1>0. TypeOK /\ \A f \in Exporters, t \in Streams : Whole(f, t) /\ Bounded(f, t)
    BY Parts
<1>1. /\ queue' = queue /\ accepted' = accepted /\ at' = at /\ dropped' = dropped
      /\ closed' = closed /\ closing' = closing /\ gaveUp' = gaveUp
      /\ selecting' = selecting /\ exited' = exited
      /\ todo' = [todo EXCEPT ![e] = Tail(todo[e])] /\ Doing(e, FlushOf(s))
      /\ settled' = [settled EXCEPT ![e][s] = Cat(d, b)]
      /\ batch' = [batch EXCEPT ![e][s] = <<>>]
      /\ delivered' = delivered \/ delivered' = [delivered EXCEPT ![e] = delivered[e] + Len(b)]
      /\ failed' = failed \/ failed' = [failed EXCEPT ![e] = failed[e] + Len(b)]
    BY DEF Flush, queueVars, closeVars, Cat
<1>2. /\ d \in Seq(Items) /\ b \in Seq(Items) /\ queue[e][s] \in Seq(Items) /\ Len(b) \in Nat
      /\ todo[e] \in Seq(Tasks) /\ todo[e] # <<>>
    BY <1>0, <1>1, StreamTypes DEF Doing
<1>3. Cat(d, b) \in Seq(Items) /\ Tail(todo[e]) \in Seq(Tasks)
    BY <1>2, CatFacts, HeadTailFacts
<1>4. EndToEnd(Cat(d, b), <<>>, queue[e][s]) = EndToEnd(d, b, queue[e][s])
    BY <1>2, FlushKeepsOrder
<1> HIDE DEF d, b
<1>5. <<>> \in Seq(Items) /\ Len(<<>>) = 0
    OBVIOUS
<1>6. settled' \in [Exporters -> [Streams -> Seq(Items)]]
    BY <1>0, <1>1, <1>3 DEF TypeOK
<1>7. batch' \in [Exporters -> [Streams -> Seq(Items)]]
    BY <1>0, <1>1, <1>5 DEF TypeOK
<1>8. todo' \in [Exporters -> Seq(Tasks)]
    BY <1>0, <1>1, <1>3 DEF TypeOK, Tasks
<1>9. delivered' \in [Exporters -> Nat] /\ failed' \in [Exporters -> Nat]
    <2>1. delivered \in [Exporters -> Nat] /\ failed \in [Exporters -> Nat] BY <1>0 DEF TypeOK
    <2>2. delivered[e] + Len(b) \in Nat /\ failed[e] + Len(b) \in Nat
        BY <1>2, <2>1
    <2>3. /\ [delivered EXCEPT ![e] = delivered[e] + Len(b)] \in [Exporters -> Nat]
          /\ [failed EXCEPT ![e] = failed[e] + Len(b)] \in [Exporters -> Nat]
        BY <2>1, <2>2
    <2>4. QED BY <1>1, <2>1, <2>3
<1>10. TypeOK'
    BY <1>0, <1>1, <1>6, <1>7, <1>8, <1>9 DEF TypeOK, Tasks
<1>11. /\ settled'[e][s] = Cat(d, b) /\ batch'[e][s] = <<>>
       /\ \A f \in Exporters, t \in Streams : f # e \/ t # s =>
              settled'[f][t] = settled[f][t] /\ batch'[f][t] = batch[f][t]
       /\ \A f \in Exporters : f # e => todo'[f] = todo[f]
    <2>1. /\ settled \in [Exporters -> [Streams -> Seq(Items)]]
          /\ batch \in [Exporters -> [Streams -> Seq(Items)]]
          /\ todo \in [Exporters -> Seq(Tasks)]
        BY <1>0 DEF TypeOK, Tasks
    <2>2. settled'[e][s] = Cat(d, b) /\ batch'[e][s] = <<>> BY <1>1, <2>1, Zenon
    <2>3. \A f \in Exporters : f # e =>
              settled'[f] = settled[f] /\ batch'[f] = batch[f] /\ todo'[f] = todo[f]
        BY <1>1, <2>1, Zenon
    <2>4. \A t \in Streams : t # s => settled'[e][t] = settled[e][t] /\ batch'[e][t] = batch[e][t]
        BY <1>1, <2>1, Zenon
    <2>5. QED BY <2>2, <2>3, <2>4, Zenon
<1>12. ASSUME NEW f \in Exporters, NEW t \in Streams PROVE Whole(f, t)'
    <2>1. CASE f = e /\ t = s
        BY <1>0, <1>1, <1>4, <1>11, <2>1 DEF Whole, d, b
    <2>2. CASE f # e \/ t # s
        BY <1>0, <1>1, <1>11, <2>2 DEF Whole
    <2>3. QED BY <2>1, <2>2
<1>13. ASSUME NEW f \in Exporters, NEW t \in Streams PROVE Bounded(f, t)'
    <2>1. CASE f = e /\ t = s
        BY <1>0, <1>1, <1>5, <1>11, <2>1, DispatcherAssumption DEF Bounded
    <2>2. CASE f = e /\ t # s
        <3>1. ~Doing(f, FlushOf(t))
            BY <1>1, <2>2 DEF Doing, FlushOf, Streams
        <3>2. Len(batch[f][t]) \in Nat /\ Len(batch[f][t]) < BatchSize
            BY <1>0, <3>1, StreamTypes, RoomInBatch
        <3>3. QED BY <1>0, <1>1, <1>11, <2>2, <3>2 DEF Bounded
    <2>3. CASE f # e
        BY <1>0, <1>1, <1>11, <2>3 DEF Bounded, Doing
    <2>4. QED BY <2>1, <2>2, <2>3
<1>14. QED BY <1>10, <1>12, <1>13 DEF BoundedInOrder, Whole, Bounded, EndToEnd, Cat

(* An item is sent, or dropped and counted, or walks past this exporter.   *)
LEMMA EnqueueInLine ==
    ASSUME BoundedInOrder, NEW x \in Items, Enqueue(x)
    PROVE  BoundedInOrder'
<1> DEFINE e == at[x]
           s == StreamOf(x)
           q == queue[e][s]
           a == accepted[e][s]
<1>0. TypeOK /\ \A f \in Exporters, t \in Streams : Whole(f, t) /\ Bounded(f, t)
    BY Parts
<1>1. /\ closed' = closed /\ closing' = closing /\ gaveUp' = gaveUp
      /\ selecting' = selecting /\ exited' = exited /\ todo' = todo
      /\ settled' = settled /\ batch' = batch /\ delivered' = delivered /\ failed' = failed
      /\ e \in Exporters /\ s \in Streams
    BY DEF Enqueue, workVars, closeVars, StreamOf, Streams
<1>2. /\ q \in Seq(Items) /\ a \in Seq(Items) /\ Len(q) \in Nat
      /\ settled[e][s] \in Seq(Items) /\ batch[e][s] \in Seq(Items)
    BY <1>0, <1>1, StreamTypes
<1>3. /\ at' \in {[at EXCEPT ![x] = e + 1], [at EXCEPT ![x] = Panicked]}
      /\ \/ UNCHANGED <<queue, accepted, dropped>>
         \/ UNCHANGED <<queue, accepted>> /\ dropped' = [dropped EXCEPT ![e][s] = @ + 1]
         \/ /\ Len(q) < QueueSize
            /\ queue' = [queue EXCEPT ![e][s] = Append(q, x)]
            /\ accepted' = [accepted EXCEPT ![e][s] = Append(a, x)]
            /\ UNCHANGED dropped
    BY DEF Enqueue, Offer
<1>4. /\ Append(q, x) \in Seq(Items) /\ Append(a, x) \in Seq(Items)
      /\ Len(Append(q, x)) = Len(q) + 1
    BY <1>2, SeqFacts
<1>5. EndToEnd(settled[e][s], batch[e][s], Append(q, x))
          = Append(EndToEnd(settled[e][s], batch[e][s], q), x)
    <2> DEFINE d == settled[e][s]
               b == batch[e][s]
    <2>1. d \in Seq(Items) /\ b \in Seq(Items) BY <1>2
    <2> HIDE DEF d, b, q
    <2>2. EndToEnd(d, b, Append(q, x)) = Append(EndToEnd(d, b, q), x)
        BY <1>2, <2>1, OfferKeepsOrder
    <2>3. QED BY <2>2 DEF d, b
<1>6. at' \in [Items -> 1..(N + 2)]
    <2>1. e + 1 \in 1..(N + 2) /\ Panicked \in 1..(N + 2)
        BY <1>1, DispatcherAssumption DEF Exporters, Panicked
    <2>2. QED BY <1>0, <1>3, <2>1 DEF TypeOK
<1> HIDE DEF e, s, q, a
<1>7. dropped' \in [Exporters -> [Streams -> Nat]]
    <2>1. dropped \in [Exporters -> [Streams -> Nat]] BY <1>0 DEF TypeOK
    <2>2. CASE dropped' = dropped BY <2>1, <2>2
    <2>3. CASE dropped' = [dropped EXCEPT ![e][s] = @ + 1]
        <3>1. dropped[e][s] + 1 \in Nat BY <1>1, <2>1
        <3>2. QED BY <2>1, <2>3, <3>1
    <2>4. QED BY <1>3, <2>2, <2>3
<1>8. CASE UNCHANGED <<queue, accepted>>
    <2>1. TypeOK' BY <1>0, <1>1, <1>6, <1>7, <1>8 DEF TypeOK
    <2>2. \A f \in Exporters, t \in Streams : Whole(f, t)' /\ Bounded(f, t)'
        BY <1>0, <1>1, <1>8 DEF Whole, Bounded, Doing
    <2>3. QED BY <2>1, <2>2 DEF BoundedInOrder, Whole, Bounded, EndToEnd, Cat
<1>9. CASE /\ Len(q) < QueueSize
           /\ queue' = [queue EXCEPT ![e][s] = Append(q, x)]
           /\ accepted' = [accepted EXCEPT ![e][s] = Append(a, x)]
    <2>1. queue' \in [Exporters -> [Streams -> Seq(Items)]]
        BY <1>0, <1>4, <1>9 DEF TypeOK
    <2>2. accepted' \in [Exporters -> [Streams -> Seq(Items)]]
        BY <1>0, <1>4, <1>9 DEF TypeOK
    <2>3. TypeOK' BY <1>0, <1>1, <1>6, <1>7, <2>1, <2>2 DEF TypeOK
    <2>4. /\ queue'[e][s] = Append(q, x) /\ accepted'[e][s] = Append(a, x)
          /\ \A f \in Exporters, t \in Streams : f # e \/ t # s =>
                 queue'[f][t] = queue[f][t] /\ accepted'[f][t] = accepted[f][t]
        BY <1>0, <1>1, <1>9 DEF TypeOK
    <2>5. ASSUME NEW f \in Exporters, NEW t \in Streams PROVE Whole(f, t)'
        <3>1. CASE f = e /\ t = s
            BY <1>0, <1>1, <1>5, <2>4, <3>1 DEF Whole, q, a
        <3>2. CASE f # e \/ t # s
            BY <1>0, <1>1, <2>4, <3>2 DEF Whole
        <3>3. QED BY <3>1, <3>2
    <2>6. ASSUME NEW f \in Exporters, NEW t \in Streams PROVE Bounded(f, t)'
        <3>1. CASE f = e /\ t = s
            <4>1. Len(queue'[e][s]) <= QueueSize
                BY <1>2, <1>4, <1>9, <2>4, DispatcherAssumption
            <4>2. QED BY <1>0, <1>1, <3>1, <4>1 DEF Bounded, Doing
        <3>2. CASE f # e \/ t # s
            BY <1>0, <1>1, <2>4, <3>2 DEF Bounded, Doing
        <3>3. QED BY <3>1, <3>2
    <2>7. QED BY <2>3, <2>5, <2>6 DEF BoundedInOrder, Whole, Bounded, EndToEnd, Cat
<1>10. QED BY <1>3, <1>8, <1>9

(* A worker at its select is about to flush nothing.                       *)
LEMMA SelectsPlain ==
    ASSUME NEW e, Selects(e) \/ Doing(e, "drain") \/ Doing(e, "close")
    PROVE  \A t \in Streams : ~Doing(e, FlushOf(t))
BY DEF Selects, Doing, FlushOf

(* The worker and Shutdown keep every stream in order.                     *)
LEMMA WorkerInLine ==
    ASSUME BoundedInOrder, NEW e \in Exporters,
           \/ RecordsClosed(e) \/ LinesClosed(e) \/ Tick(e) \/ Drain(e) \/ CloseExporter(e)
           \/ \E s \in Streams : Receive(e, s)
    PROVE  BoundedInOrder'
<1>0. TypeOK BY DEF BoundedInOrder
<1>1. /\ <<"flush", "drain", "flushLogs", "close">> \in Seq(Tasks)
      /\ <<"flushLogs">> \in Seq(Tasks) /\ <<"flush", "flushLogs">> \in Seq(Tasks)
      /\ <<>> \in Seq(Tasks)
    BY DEF Tasks
<1>2. CASE RecordsClosed(e)
    <2>1. selecting' \in [Exporters -> BOOLEAN] /\ exited' \in SUBSET Exporters
        BY <1>0, <1>2 DEF RecordsClosed, TypeOK
    <2>2. QED BY <1>1, <1>2, <2>1, SelectsPlain, PlanInLine DEF RecordsClosed
<1>3. CASE LinesClosed(e)
    <2>1. selecting' \in [Exporters -> BOOLEAN] /\ exited' \in SUBSET Exporters
        BY <1>0, <1>3 DEF LinesClosed, TypeOK
    <2>2. QED BY <1>1, <1>3, <2>1, SelectsPlain, PlanInLine DEF LinesClosed
<1>4. CASE Tick(e)
    <2>1. selecting' \in [Exporters -> BOOLEAN] /\ exited' \in SUBSET Exporters
        BY <1>0, <1>4 DEF Tick, TypeOK
    <2>2. QED BY <1>1, <1>4, <2>1, SelectsPlain, PlanInLine DEF Tick
<1>5. CASE CloseExporter(e)
    <2>1. selecting' \in [Exporters -> BOOLEAN] /\ exited' \in SUBSET Exporters
        BY <1>0, <1>5 DEF CloseExporter, TypeOK
    <2>2. QED BY <1>1, <1>5, <2>1, SelectsPlain, PlanInLine DEF CloseExporter
<1>6. CASE Drain(e)
    <2>1. CASE Take(e, "lines")
        <3>1. "lines" \in Streams BY DEF Streams
        <3>2. QED BY <1>6, <2>1, <3>1, SelectsPlain, TakeInLine DEF Drain
    <2>2. CASE todo' = [todo EXCEPT ![e] = Tail(@)] /\ UNCHANGED <<queue, batch>>
        <3>1. selecting' \in [Exporters -> BOOLEAN] /\ exited' \in SUBSET Exporters
            BY <1>0, <1>6 DEF Drain, TypeOK
        <3>2. todo[e] \in Seq(Tasks) /\ todo[e] # <<>>
            BY <1>0, <1>6 DEF Drain, Doing, TypeOK, Tasks
        <3>3. Tail(todo[e]) \in Seq(Tasks) BY <3>2, HeadTailFacts
        <3>4. UNCHANGED <<queueVars, batch, delivered, failed, settled, closeVars>>
            BY <1>6, <2>2 DEF Drain, queueVars
        <3>5. QED BY <1>6, <2>2, <3>1, <3>3, <3>4, SelectsPlain, PlanInLine DEF Drain
    <2>3. QED BY <1>6, <2>1, <2>2 DEF Drain
<1>7. ASSUME NEW s \in Streams, Receive(e, s) PROVE BoundedInOrder'
    BY <1>7, SelectsPlain, TakeInLine DEF Receive
<1>8. QED BY <1>2, <1>3, <1>4, <1>5, <1>6, <1>7

(* Closing a channel moves no item.                                        *)
LEMMA ShutdownInLine ==
    ASSUME BoundedInOrder,
           BeginShutdown \/ ShutdownReturns \/ \E e \in Exporters : CloseQueues(e)
    PROVE  BoundedInOrder'
<1>0. TypeOK /\ \A f \in Exporters, t \in Streams : Whole(f, t) /\ Bounded(f, t)
    BY Parts
<1>1. UNCHANGED <<queueVars, workVars>>
    BY DEF BeginShutdown, ShutdownReturns, CloseQueues
<1>2. /\ closing' \in 0..(N + 2) /\ gaveUp' \in BOOLEAN
      /\ closed' \in [Exporters -> [Streams -> BOOLEAN]]
    <2>1. CASE BeginShutdown
        BY <1>0, <2>1, DispatcherAssumption DEF BeginShutdown, TypeOK
    <2>2. CASE ShutdownReturns
        <3>1. closing' = N + 2 /\ closed' = closed /\ (gaveUp' = gaveUp \/ gaveUp' = TRUE)
            BY <2>2 DEF ShutdownReturns
        <3>2. N + 2 \in 0..(N + 2) BY DispatcherAssumption
        <3>3. QED BY <1>0, <3>1, <3>2 DEF TypeOK
    <2>3. ASSUME NEW e \in Exporters, CloseQueues(e)
          PROVE  /\ closing' \in 0..(N + 2) /\ gaveUp' \in BOOLEAN
                 /\ closed' \in [Exporters -> [Streams -> BOOLEAN]]
        <3>1. closing' \in 0..(N + 2) /\ gaveUp' \in BOOLEAN
            BY SMTT(30), <1>0, <2>3, DispatcherAssumption DEF CloseQueues, TypeOK, Exporters
        <3>2. closed' \in [Exporters -> [Streams -> BOOLEAN]]
            <4>1. {"lines", "records"} \subseteq Streams BY DEF Streams
            <4>2. \/ closed' = [closed EXCEPT ![e]["lines"] = TRUE]
                  \/ closed' = [closed EXCEPT ![e]["records"] = TRUE]
                BY <2>3 DEF CloseQueues
            <4>3. closed \in [Exporters -> [Streams -> BOOLEAN]] BY <1>0 DEF TypeOK
            <4>4. ASSUME NEW s \in Streams
                  PROVE  [closed EXCEPT ![e][s] = TRUE] \in [Exporters -> [Streams -> BOOLEAN]]
                <5>1. [closed[e] EXCEPT ![s] = TRUE] \in [Streams -> BOOLEAN] BY <4>3, Zenon
                <5>2. QED BY <4>3, <5>1, Zenon
            <4>5. "lines" \in Streams /\ "records" \in Streams BY <4>1
            <4>6. QED BY <4>2, <4>4, <4>5, Zenon
        <3>3. QED BY <3>1, <3>2
    <2>4. QED BY <2>1, <2>2, <2>3
<1>3. /\ queue' = queue /\ batch' = batch /\ settled' = settled /\ accepted' = accepted
      /\ todo' = todo
    BY <1>1 DEF queueVars, workVars
<1>4. TypeOK' BY <1>0, <1>1, <1>2 DEF TypeOK, queueVars, workVars
<1>5. \A f \in Exporters, t \in Streams : Whole(f, t)' /\ Bounded(f, t)'
    BY <1>0, <1>3 DEF Whole, Bounded, Doing
<1>6. QED BY <1>4, <1>5 DEF BoundedInOrder, Whole, Bounded, EndToEnd, Cat

(* Everything starts empty.                                                *)
LEMMA InitInLine == Init => BoundedInOrder
<1> SUFFICES ASSUME Init PROVE BoundedInOrder
    OBVIOUS
<1>1. \A S : <<>> \in Seq(S) /\ Len(<<>>) = 0 /\ <<>> \o <<>> \o <<>> = <<>>
    OBVIOUS
<1>2. TypeOK
    <2>1. \A v, T : v \in T => PerStream(v) \in [Exporters -> [Streams -> T]]
        BY DEF PerStream
    <2>2. /\ queue \in [Exporters -> [Streams -> Seq(Items)]]
          /\ batch \in [Exporters -> [Streams -> Seq(Items)]]
          /\ accepted \in [Exporters -> [Streams -> Seq(Items)]]
          /\ settled \in [Exporters -> [Streams -> Seq(Items)]]
        BY <1>1, <2>1 DEF Init
    <2>3. /\ closed \in [Exporters -> [Streams -> BOOLEAN]]
          /\ dropped \in [Exporters -> [Streams -> Nat]]
        BY <2>1 DEF Init
    <2>4. /\ todo \in [Exporters -> Seq({"flush", "flushLogs", "drain", "close"})]
          /\ selecting \in [Exporters -> BOOLEAN]
        BY <1>1 DEF Init
    <2>5. delivered \in [Exporters -> Nat] /\ failed \in [Exporters -> Nat]
        BY DEF Init
    <2>6. at \in [Items -> 1..(N + 2)] /\ closing \in 0..(N + 2)
        BY DispatcherAssumption DEF Init
    <2>7. gaveUp \in BOOLEAN /\ exited \in SUBSET Exporters
        BY DEF Init
    <2>8. QED BY <2>2, <2>3, <2>4, <2>5, <2>6, <2>7 DEF TypeOK
<1>3. ASSUME NEW e \in Exporters, NEW s \in Streams
      PROVE  /\ queue[e][s] = <<>> /\ batch[e][s] = <<>>
             /\ settled[e][s] = <<>> /\ accepted[e][s] = <<>>
    BY DEF Init, PerStream
<1>4. QED
    <2>1. ASSUME NEW e \in Exporters, NEW s \in Streams
          PROVE  Whole(e, s) /\ Bounded(e, s)
        <3>1. EndToEnd(<<>>, <<>>, <<>>) = <<>> BY <1>1 DEF EndToEnd, Cat
        <3>2. 0 <= QueueSize /\ 0 <= BatchSize /\ 0 # BatchSize BY DispatcherAssumption
        <3>3. QED BY <1>1, <1>3, <3>1, <3>2 DEF Whole, Bounded
    <2>2. QED BY <1>2, <2>1, Parts

(* Every step keeps every stream in order.                                 *)
LEMMA StepInLine == BoundedInOrder /\ [Next]_vars => BoundedInOrder'
<1> SUFFICES ASSUME BoundedInOrder, [Next]_vars PROVE BoundedInOrder'
    OBVIOUS
<1>1. ASSUME NEW x \in Items, Enqueue(x) PROVE BoundedInOrder'
    BY <1>1, EnqueueInLine
<1>2. ASSUME NEW e \in Exporters, NEW s \in Streams, Flush(e, s) PROVE BoundedInOrder'
    BY <1>2, FlushInLine
<1>3. ASSUME NEW e \in Exporters,
             \/ RecordsClosed(e) \/ LinesClosed(e) \/ Tick(e) \/ Drain(e) \/ CloseExporter(e)
             \/ \E s \in Streams : Receive(e, s)
      PROVE  BoundedInOrder'
    BY <1>3, WorkerInLine
<1>4. CASE BeginShutdown \/ ShutdownReturns \/ \E e \in Exporters : CloseQueues(e)
    BY <1>4, ShutdownInLine
<1>5. CASE UNCHANGED vars
    <2>1. UNCHANGED <<queueVars, workVars, closeVars>> BY <1>5 DEF vars
    <2>2. QED BY <2>1 DEF BoundedInOrder, TypeOK, Doing, queueVars, workVars, closeVars
<1>6. QED BY <1>1, <1>2, <1>3, <1>4, <1>5 DEF Next

-----------------------------------------------------------------------------
(* The ledger.                                                             *)

(* A set that loses elements, or that gains at most one.                   *)
LEMMA AtMostOneMore ==
    ASSUME NEW S, IsFiniteSet(S), NEW x, NEW T
    PROVE  /\ Cardinality(S) \in Nat
           /\ T \subseteq S => IsFiniteSet(T) /\ Cardinality(T) <= Cardinality(S)
           /\ T \subseteq S \cup {x} =>
                 IsFiniteSet(T) /\ Cardinality(T) <= Cardinality(S) + 1
<1>1. Cardinality(S) \in Nat BY FS_CardinalityType
<1>2. T \subseteq S => IsFiniteSet(T) /\ Cardinality(T) <= Cardinality(S)
    BY FS_Subset
<1>3. /\ IsFiniteSet(S \cup {x}) /\ Cardinality(S \cup {x}) \in Nat
      /\ Cardinality(S \cup {x}) <= Cardinality(S) + 1
    BY <1>1, FS_AddElement, FS_CardinalityType
<1>4. ASSUME T \subseteq S \cup {x}
      PROVE  IsFiniteSet(T) /\ Cardinality(T) <= Cardinality(S) + 1
    <2>1. IsFiniteSet(T) /\ Cardinality(T) <= Cardinality(S \cup {x})
        BY <1>3, <1>4, FS_Subset
    <2>2. Cardinality(T) \in Nat BY <2>1, FS_CardinalityType
    <2>3. QED BY <1>1, <1>3, <2>1, <2>2
<1>5. QED BY <1>1, <1>2, <1>4

(* Nothing is settled and nobody has walked past anyone.                   *)
LEMMA InitLedger == Init => Ledger
<1> SUFFICES ASSUME Init, NEW e \in Exporters
             PROVE  Counted(e) /\ \A s \in Streams : Met(e, s)
    BY DEF Ledger
<1>1. Counted(e)
    <2>1. Len(<<>>) = 0 OBVIOUS
    <2>2. {"records", "lines"} \subseteq Streams BY DEF Streams
    <2>3. /\ settled[e]["records"] = <<>> /\ settled[e]["lines"] = <<>>
          /\ delivered[e] = 0 /\ failed[e] = 0
        BY <2>2 DEF Init, PerStream
    <2>4. QED BY <2>1, <2>3 DEF Counted
<1>2. ASSUME NEW s \in Streams PROVE Met(e, s)
    <2>1. Passed(e, s) = {}
        BY DispatcherAssumption DEF Passed, Init, Exporters
    <2>2. accepted[e][s] = <<>> /\ dropped[e][s] = 0 /\ Len(<<>>) = 0
        BY DEF Init, PerStream
    <2>3. QED BY <2>1, <2>2, FS_EmptySet DEF Met
<1>3. QED BY <1>1, <1>2

Handled(e, s) == Len(accepted[e][s]) + dropped[e][s]

(* What a walk does to the count of one exporter's stream.                 *)
LEMMA OfferHandles ==
    ASSUME TypeOK, NEW x, NEW f \in Exporters, NEW t \in Streams, Offer(x, f, t), x \in Items,
           NEW e \in Exporters, NEW s \in Streams
    PROVE  Handled(e, s)' = IF e = f /\ s = t THEN Handled(e, s) + 1 ELSE Handled(e, s)
<1>1. /\ accepted \in [Exporters -> [Streams -> Seq(Items)]]
      /\ dropped \in [Exporters -> [Streams -> Nat]]
    BY DEF TypeOK
<1>2. accepted[f][t] \in Seq(Items) /\ dropped[f][t] \in Nat /\ Len(accepted[f][t]) \in Nat
    BY <1>1, LenProperties
<1>3. Len(Append(accepted[f][t], x)) = Len(accepted[f][t]) + 1
    BY <1>2, SeqFacts
<1>4. CASE accepted' = accepted /\ dropped' = [dropped EXCEPT ![f][t] = @ + 1]
    <2>1. dropped'[e][s] = IF e = f /\ s = t THEN dropped[e][s] + 1 ELSE dropped[e][s]
        BY <1>1, <1>4
    <2>2. QED BY <1>2, <1>4, <2>1 DEF Handled
<1>5. CASE dropped' = dropped /\ accepted' = [accepted EXCEPT ![f][t] = Append(@, x)]
    <2>1. accepted'[e][s] = IF e = f /\ s = t THEN Append(accepted[f][t], x) ELSE accepted[e][s]
        BY <1>1, <1>5
    <2>2. CASE e = f /\ s = t
        <3>1. Len(accepted'[e][s]) = Len(accepted[e][s]) + 1 /\ dropped'[e][s] = dropped[e][s]
            BY <1>3, <1>5, <2>1, <2>2
        <3>2. Len(accepted[e][s]) \in Nat /\ dropped[e][s] \in Nat BY <1>2, <2>2
        <3>3. QED BY <2>2, <3>1, <3>2 DEF Handled
    <2>3. CASE ~(e = f /\ s = t) BY <1>5, <2>1, <2>3 DEF Handled
    <2>4. QED BY <2>2, <2>3
<1>6. QED BY <1>4, <1>5 DEF Offer

(* Whoever walks past an exporter has been accepted or dropped there; a    *)
(* panic takes the walker out of the account of those behind it.           *)
LEMMA EnqueueMeets ==
    ASSUME TypeOK, NEW x \in Items, Enqueue(x), NEW e \in Exporters, NEW s \in Streams,
           Met(e, s)
    PROVE  Met(e, s)'
<1> DEFINE e0 == at[x]
           s0 == StreamOf(x)
<1>0. e0 \in Exporters /\ s0 \in Streams
    BY DEF Enqueue, StreamOf, Streams
<1>1. Handled(e, s) \in Nat
    <2>1. Len(accepted[e][s]) \in Nat BY StreamTypes
    <2>2. dropped[e][s] \in Nat BY DEF TypeOK
    <2>3. QED BY <2>1, <2>2 DEF Handled
<1>2. PICK v \in {e0 + 1, N + 2} :
          /\ \A y \in Items : at'[y] = IF y = x THEN v ELSE at[y]
          /\ \/ UNCHANGED <<accepted, dropped>>
                 /\ (v = N + 2 \/ (s0 = "lines" /\ e0 \notin TakesLogs))
             \/ Offer(x, e0, s0)
    <2>1. at \in [Items -> 1..(N + 2)] BY DEF TypeOK
    <2>2. QED BY <2>1 DEF Enqueue, Offer, Panicked
<1>3. Handled(e, s)' >= Handled(e, s)
    <2>1. CASE UNCHANGED <<accepted, dropped>> BY <1>1, <2>1 DEF Handled
    <2>2. CASE Offer(x, e0, s0) BY <1>0, <1>1, <2>2, OfferHandles
    <2>3. QED BY <1>2, <2>1, <2>2
<1>4. SUFFICES ASSUME s = "records" \/ e \in TakesLogs
               PROVE  /\ IsFiniteSet(Passed(e, s)')
                      /\ Cardinality(Passed(e, s)') <= Handled(e, s)'
    BY DEF Met, Handled
<1>5. IsFiniteSet(Passed(e, s)) /\ Cardinality(Passed(e, s)) <= Handled(e, s)
    BY <1>4 DEF Met, Handled
<1>6. Handled(e, s)' \in Int
    <2>1. CASE UNCHANGED <<accepted, dropped>> BY <1>1, <2>1 DEF Handled
    <2>2. CASE Offer(x, e0, s0) BY <1>0, <1>1, <2>2, OfferHandles
    <2>3. QED BY <1>2, <2>1, <2>2
<1>7. CASE e = e0 /\ s = s0 /\ v # N + 2
    <2>1. Passed(e, s)' \subseteq Passed(e, s) \cup {x}
        BY <1>2 DEF Passed
    <2>2. Handled(e, s)' = Handled(e, s) + 1
        BY <1>0, <1>2, <1>4, <1>7, OfferHandles DEF Streams
    <2>3. QED
        <3>1. /\ IsFiniteSet(Passed(e, s)') /\ Cardinality(Passed(e, s)) \in Nat
              /\ Cardinality(Passed(e, s)') <= Cardinality(Passed(e, s)) + 1
            BY <1>5, <2>1, AtMostOneMore
        <3>2. Cardinality(Passed(e, s)') \in Nat BY <3>1, FS_CardinalityType
        <3>3. QED BY <1>1, <1>5, <2>2, <3>1, <3>2
<1>8. CASE ~(e = e0 /\ s = s0 /\ v # N + 2)
    <2>1. Passed(e, s)' \subseteq Passed(e, s)
        <3> SUFFICES ASSUME NEW y \in Items, StreamOf(y) = s, at'[y] \in (e + 1)..(N + 1)
                     PROVE  at[y] \in (e + 1)..(N + 1)
            BY DEF Passed
        <3>1. CASE y # x BY <1>2, <3>1
        <3>2. CASE y = x
            <4>1. v \in (e + 1)..(N + 1) BY <1>2, <3>2
            <4>2. e \in Nat /\ N \in Nat /\ e0 \in 1..N
                BY <1>0, DispatcherAssumption DEF Exporters
            <4>3. v = e0 + 1 /\ v # N + 2 BY <4>1, <4>2
            <4>4. e # e0 BY <1>8, <3>2, <4>3
            <4>5. QED BY <3>2, <4>1, <4>2, <4>3, <4>4
        <3>3. QED BY <3>1, <3>2
    <2>2. QED
        <3>1. /\ IsFiniteSet(Passed(e, s)') /\ Cardinality(Passed(e, s)) \in Nat
              /\ Cardinality(Passed(e, s)') <= Cardinality(Passed(e, s))
            BY <1>5, <2>1, AtMostOneMore
        <3>2. Cardinality(Passed(e, s)') \in Nat BY <3>1, FS_CardinalityType
        <3>3. QED BY <1>1, <1>3, <1>5, <1>6, <3>1, <3>2
<1>9. QED BY <1>7, <1>8

(* A flush counts its whole batch once, as delivered or as failed.         *)
LEMMA FlushCounts ==
    ASSUME TypeOK, NEW f \in Exporters, NEW t \in Streams, Flush(f, t), NEW e \in Exporters,
           Counted(e)
    PROVE  Counted(e)'
<1> DEFINE d == settled[f][t]
           b == batch[f][t]
<1>1. /\ settled \in [Exporters -> [Streams -> Seq(Items)]]
      /\ delivered \in [Exporters -> Nat] /\ failed \in [Exporters -> Nat]
    BY DEF TypeOK
<1>2. d \in Seq(Items) /\ b \in Seq(Items) /\ Len(d) \in Nat /\ Len(b) \in Nat
    BY StreamTypes
<1>3. Len(Cat(d, b)) = Len(d) + Len(b) BY ZenonT(30), <1>2, CatFacts
<1>4. /\ settled' = [settled EXCEPT ![f][t] = Cat(d, b)]
      /\ \/ delivered' = [delivered EXCEPT ![f] = delivered[f] + Len(b)] /\ failed' = failed
         \/ failed' = [failed EXCEPT ![f] = failed[f] + Len(b)] /\ delivered' = delivered
    BY DEF Flush, Cat
<1> HIDE DEF d, b
<1>5. \A s \in Streams : settled'[e][s] = IF e = f /\ s = t THEN Cat(d, b) ELSE settled[e][s]
    BY <1>1, <1>4
<1>6. {"records", "lines"} = Streams BY DEF Streams
<1>7. CASE e = f
    <2>1. delivered'[e] + failed'[e] = delivered[e] + failed[e] + Len(b)
        BY <1>1, <1>2, <1>4, <1>7
    <2>2. \A s \in Streams : Len(settled[e][s]) \in Nat
        BY StreamTypes
    <2>3. Len(settled'[e]["records"]) + Len(settled'[e]["lines"])
              = Len(settled[e]["records"]) + Len(settled[e]["lines"]) + Len(b)
        <3> DEFINE n == Len(b)
                   r == Len(settled[e]["records"])
                   l == Len(settled[e]["lines"])
                   r2 == Len(settled'[e]["records"])
                   l2 == Len(settled'[e]["lines"])
        <3>1. \A s \in Streams : Len(settled'[e][s])
                  = IF s = t THEN Len(settled[e][s]) + Len(b) ELSE Len(settled[e][s])
            BY <1>3, <1>5, <1>7 DEF d
        <3>2. (r2 = r + n /\ l2 = l) \/ (r2 = r /\ l2 = l + n)
            BY <1>6, <3>1
        <3>3. r \in Nat /\ l \in Nat /\ n \in Nat
            BY <1>2, <1>6, <2>2
        <3> HIDE DEF n, r, l, r2, l2
        <3>4. r2 + l2 = r + l + n BY <3>2, <3>3
        <3>5. QED BY <3>4 DEF n, r, l, r2, l2
    <2>4. QED BY <2>1, <2>3 DEF Counted
<1>8. CASE e # f
    <2>1. delivered'[e] = delivered[e] /\ failed'[e] = failed[e] BY <1>1, <1>4, <1>8
    <2>2. QED BY <1>5, <1>6, <1>8, <2>1 DEF Counted
<1>9. QED BY <1>7, <1>8

(* Every step keeps the two counts.                                        *)
LEMMA StepLedger == TypeOK /\ Ledger /\ [Next]_vars => Ledger'
<1> SUFFICES ASSUME TypeOK, Ledger, [Next]_vars PROVE Ledger'
    OBVIOUS
<1>1. ASSUME NEW x \in Items, Enqueue(x) PROVE Ledger'
    <2>1. \A e \in Exporters, s \in Streams : Met(e, s)'
        BY <1>1, EnqueueMeets DEF Ledger
    <2>2. UNCHANGED <<delivered, failed, settled>> BY <1>1 DEF Enqueue, workVars
    <2>3. QED BY <2>1, <2>2 DEF Ledger, Counted
<1>2. ASSUME NEW f \in Exporters, NEW t \in Streams, Flush(f, t) PROVE Ledger'
    <2>1. \A e \in Exporters : Counted(e)'
        BY <1>2, FlushCounts DEF Ledger
    <2>2. UNCHANGED <<at, accepted, dropped>> BY <1>2 DEF Flush, queueVars
    <2>3. QED BY <2>1, <2>2 DEF Ledger, Met, Passed
<1>3. CASE UNCHANGED <<at, accepted, dropped, delivered, failed, settled>>
    BY <1>3 DEF Ledger, Counted, Met, Passed
<1>4. ASSUME NEW e \in Exporters,
             \/ RecordsClosed(e) \/ LinesClosed(e) \/ Tick(e) \/ Drain(e) \/ CloseExporter(e)
             \/ CloseQueues(e) \/ \E s \in Streams : Receive(e, s)
      PROVE  UNCHANGED <<at, accepted, dropped, delivered, failed, settled>>
    BY <1>4 DEF RecordsClosed, LinesClosed, Tick, Drain, CloseExporter, CloseQueues, Receive,
                queueVars, workVars
<1>5. CASE BeginShutdown \/ ShutdownReturns \/ UNCHANGED vars
    <2>1. UNCHANGED <<at, accepted, dropped, delivered, failed, settled>>
        BY <1>5 DEF BeginShutdown, ShutdownReturns, vars, queueVars, workVars
    <2>2. QED BY <1>3, <2>1
<1>6. QED BY <1>1, <1>2, <1>3, <1>4, <1>5 DEF Next

-----------------------------------------------------------------------------
(* The drain.                                                              *)

(* Every worker starts at its select.                                      *)
LEMMA InitWorkers == Init => \A e \in Exporters : WorkerState(e)
<1> SUFFICES ASSUME Init, NEW e \in Exporters PROVE WorkerState(e)
    OBVIOUS
<1>1. {"records", "lines"} = Streams BY DEF Streams
<1>2. /\ todo[e] = <<>> /\ (selecting[e] <=> e \in TakesLogs) /\ e \notin exited
      /\ closed[e]["records"] = FALSE /\ queue[e]["lines"] = <<>> /\ batch[e]["lines"] = <<>>
    BY <1>1 DEF Init, PerStream
<1>3. QED BY <1>2 DEF WorkerState, Rounds, Ending, Draining, Drained

(* Nothing is sent on a closed channel, nor on one that is not there.      *)
LEMMA EnqueueWorkers ==
    ASSUME TypeOK, NEW x \in Items, Enqueue(x), NEW e \in Exporters, WorkerState(e)
    PROVE  WorkerState(e)'
<1>1. /\ UNCHANGED <<closed, selecting, batch, todo, exited>>
    BY DEF Enqueue, workVars, closeVars
<1>2. queue \in [Exporters -> [Streams -> Seq(Items)]] BY DEF TypeOK
<1>3. ASSUME NEW s \in Streams, closed[e][s] \/ (s = "lines" /\ e \notin TakesLogs)
      PROVE  queue'[e][s] = queue[e][s]
    <2>1. CASE UNCHANGED queue BY <2>1
    <2>2. CASE Offer(x, at[x], StreamOf(x)) /\ ~closed[at[x]][StreamOf(x)]
               /\ (StreamOf(x) = "records" \/ at[x] \in TakesLogs)
        <3>1. at[x] # e \/ StreamOf(x) # s BY <1>3, <2>2
        <3>2. \/ queue' = queue
              \/ queue' = [queue EXCEPT ![at[x]][StreamOf(x)] = Append(@, x)]
            BY <2>2 DEF Offer
        <3>3. CASE queue' = queue BY <3>3
        <3>4. CASE queue' = [queue EXCEPT ![at[x]][StreamOf(x)] = Append(@, x)]
            <4>1. CASE at[x] # e BY <1>2, <3>4, <4>1
            <4>2. CASE at[x] = e /\ StreamOf(x) # s
                <5>1. queue'[e] = [queue[e] EXCEPT ![StreamOf(x)] = Append(@, x)]
                    BY <1>2, <3>4, <4>2
                <5>2. QED BY <1>2, <4>2, <5>1
            <4>3. QED BY <3>1, <4>1, <4>2
        <3>5. QED BY <3>2, <3>3, <3>4
    <2>3. QED BY <2>1, <2>2 DEF Enqueue
<1>4. {"records", "lines"} = Streams BY DEF Streams
<1>5. /\ closed[e]["records"] => queue'[e]["records"] = queue[e]["records"]
      /\ closed[e]["lines"] \/ e \notin TakesLogs => queue'[e]["lines"] = queue[e]["lines"]
    BY <1>3, <1>4
<1>6. QED BY <1>1, <1>5 DEF WorkerState, Ending

(* The plans by kind, and what is left of one when its first step is done. *)
LEMMA PlanKinds ==
    /\ <<>> \in Rounds /\ <<"flushLogs">> \in Rounds /\ <<"flush">> \in Rounds
    /\ <<"flush", "flushLogs">> \in Rounds
    /\ <<"flush", "drain", "flushLogs", "close">> \in Ending \ (Draining \cup Drained)
    /\ Draining \subseteq Ending /\ Drained \subseteq Ending /\ <<"close">> \in Drained
    /\ Rounds \cap Ending = {} /\ Draining \cap Drained = {}
<1>1. Rounds \cap Ending = {}
    BY DEF Rounds, Ending, Draining, Drained
<1>2. Draining \cap Drained = {}
    BY DEF Draining, Drained
<1>3. <<"flush", "drain", "flushLogs", "close">> \notin Draining \cup Drained
    BY DEF Draining, Drained
<1>4. QED BY <1>1, <1>2, <1>3 DEF Rounds, Ending, Draining, Drained

(* Each step of a plan leads to one of the plans behind it.                *)
LEMMA PlanSteps ==
    ASSUME NEW p \in Rounds \cup Ending, p # <<>>
    PROVE  /\ Head(p) = "flush" => \/ p \in Rounds /\ Tail(p) \in Rounds
                                   \/ p \in Ending /\ Tail(p) \in Draining
           /\ Head(p) = "flushLogs" => \/ p \in Rounds /\ Tail(p) \in Rounds
                                       \/ p \in Draining /\ Tail(p) \in Draining
                                       \/ p \in Drained /\ Tail(p) = <<"close">>
           /\ Head(p) = "drain" => /\ p \in Draining /\ Tail(p) \in Drained
                                   /\ Tail(p) # <<"close">>
                                   /\ <<"flushLogs">> \o p \in Draining
           /\ Head(p) = "close" => p = <<"close">>
<1>1. CASE p = <<"flush">>
    BY <1>1, PlanFacts, PlanKinds
<1>2. CASE p = <<"flushLogs">>
    BY <1>2, PlanFacts, PlanKinds
<1>3. CASE p = <<"flush", "flushLogs">>
    BY <1>3, PlanFacts, PlanKinds
<1>4. CASE p = <<"flush", "drain", "flushLogs", "close">>
    BY <1>4, PlanFacts, PlanKinds DEF Draining
<1>5. CASE p = <<"drain", "flushLogs", "close">>
    BY <1>5, PlanFacts, PlanKinds DEF Draining, Drained
<1>6. CASE p = <<"flushLogs", "drain", "flushLogs", "close">>
    BY <1>6, PlanFacts, PlanKinds DEF Draining
<1>7. CASE p = <<"flushLogs", "close">>
    BY <1>7, PlanFacts, PlanKinds DEF Drained
<1>8. CASE p = <<"close">>
    BY <1>8
<1>9. QED BY <1>1, <1>2, <1>3, <1>4, <1>5, <1>6, <1>7, <1>8 DEF Rounds, Ending, Draining, Drained

(* A step that does not touch exporter e.                                  *)
LEMMA Elsewhere ==
    ASSUME NEW e, WorkerState(e),
           todo'[e] = todo[e], selecting'[e] = selecting[e], closed'[e] = closed[e],
           queue'[e] = queue[e], batch'[e] = batch[e], e \in exited' <=> e \in exited
    PROVE  WorkerState(e)'
BY DEF WorkerState

(* The steps of worker e itself.                                           *)
LEMMA WorkerWorks ==
    ASSUME TypeOK, NEW e \in Exporters, WorkerState(e),
           \/ RecordsClosed(e) \/ LinesClosed(e) \/ Tick(e) \/ Drain(e) \/ CloseExporter(e)
           \/ \E s \in Streams : Receive(e, s) \/ Flush(e, s)
    PROVE  WorkerState(e)'
<1> DEFINE p == todo[e]
<1>0. /\ todo \in [Exporters -> Seq(Tasks)]
      /\ queue \in [Exporters -> [Streams -> Seq(Items)]]
      /\ batch \in [Exporters -> [Streams -> Seq(Items)]]
      /\ DOMAIN selecting = Exporters /\ Streams = {"records", "lines"}
    BY DEF TypeOK, Tasks, Streams
<1>1. CASE RecordsClosed(e)
    <2>1. /\ todo'[e] = <<"flush", "drain", "flushLogs", "close">> /\ todo[e] = <<>>
          /\ e \notin exited /\ closed[e]["records"] /\ queue[e]["records"] = <<>>
          /\ UNCHANGED <<queue, selecting, batch, exited, closed>>
        BY <1>0, <1>1 DEF RecordsClosed, Selects, queueVars, closeVars
    <2>2. QED BY <2>1, PlanKinds DEF WorkerState
<1>2. CASE LinesClosed(e)
    <2>1. /\ todo'[e] = <<"flushLogs">> /\ todo[e] = <<>> /\ e \notin exited
          /\ selecting[e] /\ ~selecting'[e] /\ closed[e]["lines"] /\ queue[e]["lines"] = <<>>
          /\ UNCHANGED <<queue, batch, exited, closed>>
        BY <1>0, <1>2 DEF LinesClosed, Selects, queueVars, closeVars
    <2>2. QED BY <2>1, PlanKinds DEF WorkerState
<1>3. CASE Tick(e)
    <2>1. /\ todo'[e] = <<"flush", "flushLogs">> /\ todo[e] = <<>> /\ e \notin exited
          /\ UNCHANGED <<queue, selecting, batch, exited, closed>>
        BY <1>0, <1>3 DEF Tick, Selects, queueVars, closeVars
    <2>2. QED BY <2>1, PlanKinds DEF WorkerState
<1>4. CASE CloseExporter(e)
    <2>1. /\ todo'[e] = <<>> /\ todo[e] # <<>> /\ Head(todo[e]) = "close" /\ e \in exited'
          /\ UNCHANGED <<queue, selecting, batch, closed>>
        BY <1>0, <1>4 DEF CloseExporter, Doing, queueVars, closeVars
    <2>2. p \in Rounds \cup Ending BY DEF WorkerState
    <2>3. p = <<"close">> BY <2>1, <2>2, PlanSteps
    <2>4. QED BY <2>1, <2>3, PlanKinds DEF WorkerState
<1>5. ASSUME NEW s \in Streams, Receive(e, s) PROVE WorkerState(e)'
    <2>1. /\ p = <<>> /\ e \notin exited /\ (s = "lines" => selecting[e])
          /\ UNCHANGED <<selecting, exited, closed>>
          /\ queue[e][s] # <<>>
        BY <1>5 DEF Receive, Selects, Take, closeVars
    <2>2. /\ \A t \in Streams : t # s => queue'[e][t] = queue[e][t] /\ batch'[e][t] = batch[e][t]
          /\ todo'[e] \in {<<>>, <<FlushOf(s)>> \o <<>>}
        BY <1>0, <1>5, <2>1 DEF Receive, Take
    <2>3. todo'[e] \in Rounds
        BY <2>2, PlanFacts, PlanKinds DEF FlushOf
    <2>4. CASE s = "records"
        BY <1>0, <2>1, <2>2, <2>3, <2>4, PlanKinds DEF WorkerState
    <2>5. CASE s = "lines"
        BY <1>0, <2>1, <2>2, <2>3, <2>5, PlanKinds DEF WorkerState
    <2>6. QED BY <1>0, <2>4, <2>5
<1>6. ASSUME NEW s \in Streams, Flush(e, s) PROVE WorkerState(e)'
    <2>1. /\ p # <<>> /\ Head(p) = FlushOf(s) /\ todo'[e] = Tail(p)
          /\ batch'[e][s] = <<>> /\ \A t \in Streams : t # s => batch'[e][t] = batch[e][t]
          /\ UNCHANGED <<queue, selecting, exited, closed>>
        BY <1>0, <1>6 DEF Flush, Doing, queueVars, closeVars
    <2>2. p \in Rounds \cup Ending /\ e \notin exited BY <2>1 DEF WorkerState
    <2>3. CASE s = "records"
        <3>1. \/ p \in Rounds /\ Tail(p) \in Rounds
              \/ p \in Ending /\ Tail(p) \in Draining
            BY <2>1, <2>2, <2>3, PlanSteps DEF FlushOf
        <3>2. QED BY <1>0, <2>1, <2>2, <2>3, <3>1, PlanKinds DEF WorkerState
    <2>4. CASE s = "lines"
        <3>1. \/ p \in Rounds /\ Tail(p) \in Rounds
              \/ p \in Draining /\ Tail(p) \in Draining
              \/ p \in Drained /\ Tail(p) = <<"close">>
            BY <2>1, <2>2, <2>4, PlanSteps DEF FlushOf
        <3>2. QED BY <1>0, <2>1, <2>2, <2>4, <3>1, PlanKinds DEF WorkerState
    <2>5. QED BY <1>0, <2>3, <2>4
<1>7. CASE Drain(e)
    <2>1. /\ p # <<>> /\ Head(p) = "drain" /\ UNCHANGED <<selecting, exited, closed>>
        BY <1>7 DEF Drain, Doing, closeVars
    <2>2. p \in Rounds \cup Ending /\ e \notin exited BY <2>1 DEF WorkerState
    <2>3. /\ p \in Draining /\ Tail(p) \in Drained /\ Tail(p) # <<"close">>
          /\ <<"flushLogs">> \o p \in Draining
        BY <2>1, <2>2, PlanSteps
    <2>4. CASE selecting[e] /\ Take(e, "lines")
        <3>1. /\ queue'[e]["records"] = queue[e]["records"]
              /\ batch'[e]["records"] = batch[e]["records"]
              /\ todo'[e] \in {p, <<"flushLogs">> \o p}
            BY <1>0, <2>4 DEF Take, FlushOf
        <3>2. todo'[e] \in Draining BY <2>3, <3>1
        <3>3. QED BY <2>1, <2>2, <2>3, <2>4, <3>1, <3>2, PlanKinds DEF WorkerState
    <2>5. CASE /\ ~selecting[e] \/ (closed[e]["lines"] /\ queue[e]["lines"] = <<>>)
               /\ todo' = [todo EXCEPT ![e] = Tail(@)]
               /\ UNCHANGED <<queue, batch>>
        <3>1. todo'[e] = Tail(p) BY <1>0, <2>5
        <3>2. QED BY <2>1, <2>2, <2>3, <2>5, <3>1, PlanKinds DEF WorkerState
    <2>6. QED BY <1>7, <2>4, <2>5 DEF Drain
<1>8. QED BY <1>1, <1>2, <1>3, <1>4, <1>5, <1>6, <1>7

(* A worker's steps and Shutdown's two close calls touch one exporter.     *)
LEMMA OneAtATime ==
    ASSUME TypeOK, NEW f \in Exporters, NEW e \in Exporters, e # f,
           \/ RecordsClosed(f) \/ LinesClosed(f) \/ Tick(f) \/ Drain(f) \/ CloseExporter(f)
           \/ CloseQueues(f)
           \/ \E s \in Streams : Receive(f, s) \/ Flush(f, s)
    PROVE  /\ todo'[e] = todo[e] /\ selecting'[e] = selecting[e] /\ closed'[e] = closed[e]
           /\ queue'[e] = queue[e] /\ batch'[e] = batch[e]
           /\ e \in exited' <=> e \in exited
<1>0. /\ DOMAIN todo = Exporters /\ DOMAIN selecting = Exporters /\ DOMAIN closed = Exporters
      /\ DOMAIN queue = Exporters /\ DOMAIN batch = Exporters
    BY DEF TypeOK
<1> USE <1>0 DEF queueVars, workVars, closeVars
<1>1. CASE RecordsClosed(f) BY <1>1 DEF RecordsClosed
<1>2. CASE LinesClosed(f) BY <1>2 DEF LinesClosed
<1>3. CASE Tick(f) BY <1>3 DEF Tick
<1>4. CASE Drain(f)
    <2>1. /\ todo'[e] = todo[e] /\ queue'[e] = queue[e] /\ batch'[e] = batch[e]
        BY <1>4 DEF Drain, Take
    <2>2. UNCHANGED <<selecting, closed, exited>> BY <1>4 DEF Drain
    <2>3. QED BY <2>1, <2>2
<1>5. CASE CloseExporter(f) BY <1>5 DEF CloseExporter
<1>6. CASE CloseQueues(f)
    <2>1. closed'[e] = closed[e] BY <1>6 DEF CloseQueues
    <2>2. UNCHANGED <<todo, selecting, queue, batch, exited>> BY <1>6 DEF CloseQueues
    <2>3. QED BY <2>1, <2>2
<1>7. ASSUME NEW s \in Streams, Receive(f, s)
      PROVE  /\ todo'[e] = todo[e] /\ queue'[e] = queue[e] /\ batch'[e] = batch[e]
             /\ UNCHANGED <<selecting, closed, exited>>
    BY <1>7 DEF Receive, Take
<1>8. ASSUME NEW s \in Streams, Flush(f, s)
      PROVE  /\ todo'[e] = todo[e] /\ batch'[e] = batch[e]
             /\ UNCHANGED <<queue, selecting, closed, exited>>
    BY <1>8 DEF Flush
<1>9. QED BY <1>1, <1>2, <1>3, <1>4, <1>5, <1>6, <1>7, <1>8

(* Every step keeps every worker in its state.                             *)
LEMMA StepWorkers ==
    TypeOK /\ (\A e \in Exporters : WorkerState(e)) /\ [Next]_vars
        => (\A e \in Exporters : WorkerState(e))'
<1> SUFFICES ASSUME TypeOK, \A f \in Exporters : WorkerState(f), [Next]_vars,
                    NEW e \in Exporters
             PROVE  WorkerState(e)'
    OBVIOUS
<1>1. ASSUME NEW x \in Items, Enqueue(x) PROVE WorkerState(e)'
    BY <1>1, EnqueueWorkers
<1>2. ASSUME NEW f \in Exporters,
             \/ RecordsClosed(f) \/ LinesClosed(f) \/ Tick(f) \/ Drain(f) \/ CloseExporter(f)
             \/ \E s \in Streams : Receive(f, s) \/ Flush(f, s)
      PROVE  WorkerState(e)'
    <2>1. CASE e = f BY <1>2, <2>1, WorkerWorks
    <2>2. CASE e # f BY <1>2, <2>2, OneAtATime, Elsewhere
    <2>3. QED BY <2>1, <2>2
<1>3. ASSUME NEW f \in Exporters, CloseQueues(f) PROVE WorkerState(e)'
    <2>1. CASE e = f
        <3>1. UNCHANGED <<todo, selecting, queue, batch, exited>>
            BY <1>3 DEF CloseQueues, queueVars, workVars
        <3>2. /\ closed[e]["lines"] => closed'[e]["lines"]
              /\ closed[e]["records"] => closed'[e]["records"]
              /\ closed'[e]["records"] /\ e \in TakesLogs => closed'[e]["lines"]
            <4>1. closed \in [Exporters -> [Streams -> BOOLEAN]] /\ Streams = {"records", "lines"}
                BY DEF TypeOK, Streams
            <4>2. CASE e \in TakesLogs /\ ~closed[e]["lines"]
                BY <1>3, <2>1, <4>1, <4>2 DEF CloseQueues
            <4>3. CASE ~(e \in TakesLogs /\ ~closed[e]["lines"])
                BY <1>3, <2>1, <4>1, <4>3 DEF CloseQueues
            <4>4. QED BY <4>2, <4>3
        <3>3. QED BY <3>1, <3>2 DEF WorkerState
    <2>2. CASE e # f BY <1>3, <2>2, OneAtATime, Elsewhere
    <2>3. QED BY <2>1, <2>2
<1>4. CASE BeginShutdown \/ ShutdownReturns \/ UNCHANGED vars
    <2>1. UNCHANGED <<todo, selecting, closed, queue, batch, exited>>
        BY <1>4 DEF BeginShutdown, ShutdownReturns, vars, queueVars, workVars, closeVars
    <2>2. QED BY <2>1, Elsewhere
<1>5. QED BY <1>1, <1>2, <1>3, <1>4 DEF Next

-----------------------------------------------------------------------------
(* The inductive invariant holds.                                          *)
LEMMA InvHolds == Spec => []IInv
<1>1. Init => IInv BY InitInLine, InitLedger, InitWorkers DEF IInv
<1>2. IInv /\ [Next]_vars => IInv'
    BY StepInLine, StepLedger, StepWorkers DEF IInv, BoundedInOrder
<1>3. QED BY <1>1, <1>2, PTL DEF Spec

(* Per exporter and stream, what was exported or failed, what is batched   *)
(* and what is queued is, end to end, what the channel accepted: nothing   *)
(* is exported twice, out of order or skipped, and memory stays within the *)
(* queue and one batch, for any number of exporters (export.go: run,       *)
(* flush, Enqueue, EnqueueAppLog).                                         *)
THEOREM StreamsCorrect == Spec => []BoundedInOrder
<1>1. IInv => BoundedInOrder BY DEF IInv
<1>2. QED BY <1>1, InvHolds, PTL

(* Stat's delivered and failed are exactly the settled items, and no full  *)
(* or closed exporter keeps an item from the ones after it: each exporter  *)
(* has accepted or dropped every item whose walk came past it.             *)
THEOREM CountersCorrect == Spec => []Accounted
<1>1. ASSUME IInv PROVE Accounted
    <2>0. TypeOK /\ Ledger BY <1>1 DEF IInv, BoundedInOrder
    <2> SUFFICES ASSUME NEW e \in Exporters, NEW s \in Streams, s = "records" \/ e \in TakesLogs
                 PROVE  Cardinality({x \in Items : StreamOf(x) = s /\ at[x] = N + 1})
                            <= Len(accepted[e][s]) + dropped[e][s]
        BY <2>0 DEF Ledger, Counted, Accounted
    <2> DEFINE T == {x \in Items : StreamOf(x) = s /\ at[x] = N + 1}
    <2>1. /\ IsFiniteSet(Passed(e, s))
          /\ Cardinality(Passed(e, s)) <= Len(accepted[e][s]) + dropped[e][s]
        BY <2>0 DEF Ledger, Met
    <2>2. T \subseteq Passed(e, s)
        BY DispatcherAssumption DEF Passed, Exporters
    <2>3. /\ Cardinality(T) <= Cardinality(Passed(e, s)) /\ Cardinality(T) \in Nat
          /\ Cardinality(Passed(e, s)) \in Nat
        BY <2>1, <2>2, FS_Subset, FS_CardinalityType
    <2>4. Len(accepted[e][s]) + dropped[e][s] \in Nat
        <3>1. Len(accepted[e][s]) \in Nat BY <2>0, StreamTypes
        <3>2. dropped[e][s] \in Nat BY <2>0 DEF TypeOK
        <3>3. QED BY <3>1, <3>2
    <2> HIDE DEF T
    <2>5. Cardinality(T) <= Len(accepted[e][s]) + dropped[e][s]
        BY <2>1, <2>3, <2>4
    <2>6. QED BY <2>5 DEF T
<1>2. QED BY <1>1, InvHolds, PTL

(* A worker leaves only when it has settled all that either of its queues  *)
(* accepted, and when it ranges over the line channel that channel is      *)
(* closed already, so that Shutdown never waits for a producer.            *)
THEOREM DrainCorrect == Spec => []DrainComplete
<1>1. ASSUME IInv PROVE DrainComplete
    <2>0. /\ TypeOK /\ \A e \in Exporters, s \in Streams : Whole(e, s)
          /\ \A e \in Exporters : WorkerState(e)
        BY <1>1, Parts DEF IInv
    <2>1. ASSUME NEW e \in exited, NEW s \in Streams PROVE settled[e][s] = accepted[e][s]
        <3>1. e \in Exporters BY <2>0 DEF TypeOK
        <3>2. queue[e][s] = <<>> /\ batch[e][s] = <<>>
            BY <2>0, <3>1 DEF WorkerState, Streams
        <3>3. settled[e][s] \in Seq(Items) BY <2>0, <3>1, StreamTypes
        <3>4. EndToEnd(settled[e][s], <<>>, <<>>) = settled[e][s]
            BY <3>3, CatFacts DEF EndToEnd
        <3>5. QED BY <2>0, <3>1, <3>2, <3>4 DEF Whole
    <2>2. ASSUME NEW e \in Exporters, Doing(e, "drain"), selecting[e] PROVE closed[e]["lines"]
        <3>1. todo[e] \in Draining BY <2>0, <2>2, PlanSteps DEF WorkerState, Doing
        <3>2. QED BY <2>0, <2>2, <3>1, PlanKinds DEF WorkerState
    <2>3. QED BY <2>1, <2>2 DEF DrainComplete
<1>2. QED BY <1>1, InvHolds, PTL
=============================================================================
