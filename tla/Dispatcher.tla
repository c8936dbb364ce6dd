----------------------------- MODULE Dispatcher -----------------------------
(***************************************************************************)
(* export.Dispatcher: every exporter has a bounded record queue, when it   *)
(* implements ext.AppLogExporter a bounded log-line queue, and one worker  *)
(* that batches both.  Enqueue and EnqueueAppLog walk over the exporters   *)
(* without blocking; Shutdown closes the queues one exporter after the     *)
(* other and waits for the workers at most twenty seconds.                 *)
(*                                                                         *)
(* Both streams of an exporter are held in functions over Streams, since   *)
(* the code treats them alike except where an action below says otherwise. *)
(***************************************************************************)
EXTENDS Integers, Sequences, FiniteSets

CONSTANTS
    N,           \* number of configured exporters; they are visited in order
    TakesLogs,   \* the exporters implementing ext.AppLogExporter
    Records,     \* the records the request goroutines emit
    Lines,       \* the governed log lines the collector fans out
    Hung,        \* the exporters whose Export never returns
    QueueSize,   \* telemetry.exporters[].queue_size
    BatchSize    \* telemetry.exporters[].batch_size

Exporters == 1..N
Streams == {"records", "lines"}
Items == Records \cup Lines
StreamOf(x) == IF x \in Records THEN "records" ELSE "lines"

ASSUME DispatcherAssumption ==
    /\ N \in Nat \ {0}
    /\ TakesLogs \subseteq Exporters
    /\ Hung \subseteq Exporters
    /\ Records \cap Lines = {}
    /\ QueueSize \in Nat \ {0}          \* config.go replaces anything <= 0
    /\ BatchSize \in Nat \ {0}

VARIABLES
    at,         \* at[x]: the exporter the Enqueue of item x tries next
    queue,      \* queue[e][s]: the channel, oldest first
    closed,     \* closed[e][s]
    selecting,  \* selecting[e]: logQueue is not (yet) nil
    batch,      \* batch[e][s]: items received and not yet exported
    todo,       \* todo[e]: what the worker still does before the next select
    delivered,  \* the counters of Stat, over both streams
    failed,
    dropped,    \* dropped[e][s]: dropped and logDrop
    closing,    \* the exporter Shutdown closes next; N + 1: it waits; N + 2: back
    exited,     \* workers that closed their exporter and returned
    gaveUp,     \* Shutdown timed out
    accepted,   \* history: accepted[e][s], in channel order
    settled     \* history: settled[e][s], exported or failed, in order

queueVars == <<at, queue, dropped, accepted>>
workVars == <<selecting, batch, todo, delivered, failed, exited, settled>>
closeVars == <<closed, closing, gaveUp>>
vars == <<queueVars, workVars, closeVars>>

PerStream(v) == [e \in Exporters |-> [s \in Streams |-> v]]

(* New: no channel, and a nil logQueue, without app-log support.           *)
Init ==
    /\ at = [x \in Items |-> 1]
    /\ queue = PerStream(<<>>)
    /\ closed = PerStream(FALSE)
    /\ selecting = [e \in Exporters |-> e \in TakesLogs]
    /\ batch = PerStream(<<>>)
    /\ todo = [e \in Exporters |-> <<>>]
    /\ delivered = [e \in Exporters |-> 0]
    /\ failed = [e \in Exporters |-> 0]
    /\ dropped = PerStream(0)
    /\ closing = 0
    /\ exited = {}
    /\ gaveUp = FALSE
    /\ accepted = PerStream(<<>>)
    /\ settled = PerStream(<<>>)

Panicked == N + 2
-----------------------------------------------------------------------------
(* The producers                                                           *)

(* Mutant: one full exporter ends the walk, and the next ones miss the item. *)
OfferOrGiveUp(x, e, s) ==
    IF Len(queue[e][s]) < QueueSize
    THEN /\ queue' = [queue EXCEPT ![e][s] = Append(@, x)]
         /\ accepted' = [accepted EXCEPT ![e][s] = Append(@, x)]
         /\ at' = [at EXCEPT ![x] = e + 1]
         /\ UNCHANGED dropped
    ELSE /\ dropped' = [dropped EXCEPT ![e][s] = @ + 1]
         /\ at' = [at EXCEPT ![x] = N + 1]
         /\ UNCHANGED <<queue, accepted>>

(* select { case q <- x: default: drop and count }, then the next exporter *)
Offer(x, e, s) ==
    /\ at' = [at EXCEPT ![x] = e + 1]
    /\ IF Len(queue[e][s]) < QueueSize
       THEN /\ queue' = [queue EXCEPT ![e][s] = Append(@, x)]
            /\ accepted' = [accepted EXCEPT ![e][s] = Append(@, x)]
            /\ UNCHANGED dropped
       ELSE /\ dropped' = [dropped EXCEPT ![e][s] = @ + 1]
            /\ UNCHANGED <<queue, accepted>>

(* One iteration of Enqueue or EnqueueAppLog: skip an exporter without the *)
(* stream, panic on a closed channel, otherwise send or drop.              *)
Enqueue(x) ==
    LET e == at[x]
        s == StreamOf(x)
    IN  /\ e \in Exporters
        /\ \/ /\ s = "lines" /\ e \notin TakesLogs
              /\ at' = [at EXCEPT ![x] = e + 1]
              /\ UNCHANGED <<queue, accepted, dropped>>
           \/ /\ s = "records" \/ e \in TakesLogs
              /\ closed[e][s]
              /\ at' = [at EXCEPT ![x] = Panicked]
              /\ UNCHANGED <<queue, accepted, dropped>>
           \/ /\ s = "records" \/ e \in TakesLogs
              /\ ~closed[e][s]
              /\ Offer(x, e, s)
        /\ UNCHANGED <<workVars, closeVars>>
-----------------------------------------------------------------------------
(* The worker of exporter e.  It selects when it has nothing left to do.   *)

Selects(e) == e \notin exited /\ todo[e] = <<>>

FlushOf(s) == IF s = "records" THEN "flush" ELSE "flushLogs"

(* Move the head of a channel into its batch; a full batch is flushed next.*)
Take(e, s) ==
    /\ queue[e][s] # <<>>
    /\ queue' = [queue EXCEPT ![e][s] = Tail(@)]
    /\ batch' = [batch EXCEPT ![e][s] = Append(@, Head(queue[e][s]))]
    /\ todo' = [todo EXCEPT ![e] =
                   IF Len(batch'[e][s]) >= BatchSize THEN <<FlushOf(s)>> \o @ ELSE @]

(* case rec := <-w.queue and case l := <-logQueue, with a value            *)
Receive(e, s) ==
    /\ Selects(e)
    /\ s = "lines" => selecting[e]
    /\ Take(e, s)
    /\ UNCHANGED <<at, dropped, accepted, selecting, delivered, failed, exited,
                   settled, closeVars>>

(* Mutant: the record arm closes the exporter without draining the lines.  *)
CloseWithoutDrain(e) ==
    /\ Selects(e)
    /\ closed[e]["records"] /\ queue[e]["records"] = <<>>
    /\ todo' = [todo EXCEPT ![e] = <<"flush", "flushLogs", "close">>]
    /\ UNCHANGED <<queueVars, selecting, batch, delivered, failed, exited,
                   settled, closeVars>>

(* The record channel is closed and empty: flush, drain the lines, close.  *)
RecordsClosed(e) ==
    /\ Selects(e)
    /\ closed[e]["records"] /\ queue[e]["records"] = <<>>
    /\ todo' = [todo EXCEPT ![e] = <<"flush", "drain", "flushLogs", "close">>]
    /\ UNCHANGED <<queueVars, selecting, batch, delivered, failed, exited,
                   settled, closeVars>>

(* The line channel is closed and empty: stop selecting on it.             *)
LinesClosed(e) ==
    /\ Selects(e)
    /\ selecting[e]
    /\ closed[e]["lines"] /\ queue[e]["lines"] = <<>>
    /\ selecting' = [selecting EXCEPT ![e] = FALSE]
    /\ todo' = [todo EXCEPT ![e] = <<"flushLogs">>]
    /\ UNCHANGED <<queueVars, batch, delivered, failed, exited, settled, closeVars>>

(* case <-ticker.C                                                         *)
Tick(e) ==
    /\ Selects(e)
    /\ todo' = [todo EXCEPT ![e] = <<"flush", "flushLogs">>]
    /\ UNCHANGED <<queueVars, selecting, batch, delivered, failed, exited,
                   settled, closeVars>>

Doing(e, step) == todo[e] # <<>> /\ Head(todo[e]) = step

(* Mutant: a failed batch is kept for the next flush.                      *)
KeepFailedBatch(e, s) ==
    /\ Doing(e, FlushOf(s))
    /\ e \notin Hung \/ batch[e][s] = <<>>
    /\ todo' = [todo EXCEPT ![e] = Tail(@)]
    /\ \/ /\ delivered' = [delivered EXCEPT ![e] = @ + Len(batch[e][s])]
          /\ batch' = [batch EXCEPT ![e][s] = <<>>]
          /\ UNCHANGED failed
       \/ /\ failed' = [failed EXCEPT ![e] = @ + Len(batch[e][s])]
          /\ UNCHANGED <<delivered, batch>>
    /\ settled' = [settled EXCEPT ![e][s] = @ \o batch[e][s]]
    /\ UNCHANGED <<queueVars, selecting, exited, closeVars>>

(* flush and flushLogs: the whole batch is delivered or has failed (the    *)
(* exporter's error, or its fifteen seconds are up); either way it is gone.*)
(* An exporter that ignores its context may never come back.               *)
Flush(e, s) ==
    /\ Doing(e, FlushOf(s))
    /\ e \notin Hung \/ batch[e][s] = <<>>
    /\ todo' = [todo EXCEPT ![e] = Tail(@)]
    /\ \/ /\ delivered' = [delivered EXCEPT ![e] = @ + Len(batch[e][s])]
          /\ UNCHANGED failed
       \/ /\ failed' = [failed EXCEPT ![e] = @ + Len(batch[e][s])]
          /\ UNCHANGED delivered
    /\ settled' = [settled EXCEPT ![e][s] = @ \o batch[e][s]]
    /\ batch' = [batch EXCEPT ![e][s] = <<>>]
    /\ UNCHANGED <<queueVars, selecting, exited, closeVars>>

(* Mutant: the nil check is missing; ranging over nil never returns.       *)
DrainNilToo(e) ==
    /\ Doing(e, "drain")
    /\ \/ selecting[e] /\ Take(e, "lines")
       \/ /\ selecting[e] /\ closed[e]["lines"] /\ queue[e]["lines"] = <<>>
          /\ todo' = [todo EXCEPT ![e] = Tail(@)]
          /\ UNCHANGED <<queue, batch>>
    /\ UNCHANGED <<at, dropped, accepted, selecting, delivered, failed, exited,
                   settled, closeVars>>

(* if logQueue != nil { for l := range logQueue ... }: range blocks while  *)
(* the channel is open and empty, and ends once it is closed and empty.    *)
Drain(e) ==
    /\ Doing(e, "drain")
    /\ \/ selecting[e] /\ Take(e, "lines")
       \/ /\ ~selecting[e] \/ (closed[e]["lines"] /\ queue[e]["lines"] = <<>>)
          /\ todo' = [todo EXCEPT ![e] = Tail(@)]
          /\ UNCHANGED <<queue, batch>>
    /\ UNCHANGED <<at, dropped, accepted, selecting, delivered, failed, exited,
                   settled, closeVars>>

(* w.exp.Close and return; its error is only logged.                       *)
CloseExporter(e) ==
    /\ Doing(e, "close")
    /\ todo' = [todo EXCEPT ![e] = <<>>]
    /\ exited' = exited \cup {e}
    /\ UNCHANGED <<queueVars, selecting, batch, delivered, failed, settled, closeVars>>
-----------------------------------------------------------------------------
(* Shutdown                                                                *)

BeginShutdown ==
    /\ closing = 0
    /\ closing' = 1
    /\ UNCHANGED <<queueVars, workVars, closed, gaveUp>>

(* The two close calls of one iteration: the lines first, when there are   *)
(* any, then the records.                                                  *)
CloseQueues(e) ==
    /\ closing = e
    /\ IF e \in TakesLogs /\ ~closed[e]["lines"]
       THEN /\ closed' = [closed EXCEPT ![e]["lines"] = TRUE]
            /\ UNCHANGED closing
       ELSE /\ closed' = [closed EXCEPT ![e]["records"] = TRUE]
            /\ closing' = e + 1
    /\ UNCHANGED <<queueVars, workVars, gaveUp>>

(* wg.Wait returned, or the twenty seconds are over.                       *)
ShutdownReturns ==
    /\ closing = N + 1
    /\ \/ exited = Exporters /\ UNCHANGED gaveUp
       \/ gaveUp' = TRUE
    /\ closing' = N + 2
    /\ UNCHANGED <<queueVars, workVars, closed>>
-----------------------------------------------------------------------------
Next ==
    \/ \E x \in Items : Enqueue(x)
    \/ \E e \in Exporters, s \in Streams : Receive(e, s) \/ Flush(e, s)
    \/ \E e \in Exporters : RecordsClosed(e) \/ LinesClosed(e) \/ Tick(e)
    \/ \E e \in Exporters : Drain(e) \/ CloseExporter(e)
    \/ BeginShutdown
    \/ \E e \in Exporters : CloseQueues(e)
    \/ ShutdownReturns

Spec == Init /\ [][Next]_vars

(* What the scheduler owes a worker whose Export calls come back: the arms *)
(* of its select are chosen at random among the ready ones, hence SF, and  *)
(* between two selects it has one thing to do at a time.                   *)
WorkerFairness(e) ==
    /\ \A s \in Streams : SF_vars(Receive(e, s))
    /\ SF_vars(RecordsClosed(e)) /\ SF_vars(LinesClosed(e)) /\ SF_vars(Tick(e))
    /\ WF_vars(Drain(e) \/ CloseExporter(e) \/ \E s \in Streams : Flush(e, s))

ShutdownFairness ==
    WF_vars(ShutdownReturns \/ \E e \in Exporters : CloseQueues(e))

(* A hung exporter's worker is owed nothing.                               *)
LiveSpec ==
    /\ Spec
    /\ ShutdownFairness
    /\ \A e \in Exporters \ Hung : WorkerFairness(e)
-----------------------------------------------------------------------------
TypeOK ==
    /\ at \in [Items -> 1..(N + 2)]
    /\ queue \in [Exporters -> [Streams -> Seq(Items)]]
    /\ closed \in [Exporters -> [Streams -> BOOLEAN]]
    /\ selecting \in [Exporters -> BOOLEAN]
    /\ batch \in [Exporters -> [Streams -> Seq(Items)]]
    /\ todo \in [Exporters -> Seq({"flush", "flushLogs", "drain", "close"})]
    /\ delivered \in [Exporters -> Nat]
    /\ failed \in [Exporters -> Nat]
    /\ dropped \in [Exporters -> [Streams -> Nat]]
    /\ closing \in 0..(N + 2)
    /\ exited \in SUBSET Exporters
    /\ gaveUp \in BOOLEAN
    /\ accepted \in [Exporters -> [Streams -> Seq(Items)]]
    /\ settled \in [Exporters -> [Streams -> Seq(Items)]]

(* At most once and in order, per exporter and stream: what was exported   *)
(* (or failed), what is batched and what is queued is, end to end, what    *)
(* the channel accepted (export.go: "Delivery model: at-most-once"); and   *)
(* memory is bounded by the queue and one batch, which is full only while  *)
(* its flush is the worker's next step.                                    *)
BoundedInOrder ==
    TypeOK /\ \A e \in Exporters, s \in Streams :
        /\ settled[e][s] \o batch[e][s] \o queue[e][s] = accepted[e][s]
        /\ Len(queue[e][s]) <= QueueSize
        /\ Len(batch[e][s]) <= BatchSize
        /\ Len(batch[e][s]) = BatchSize => Doing(e, FlushOf(s))

(* The published counters agree with what happened: delivered plus failed  *)
(* is the number of settled items of both streams (Stats, metrics); and    *)
(* every exporter has met every item whose Enqueue ended normally, as      *)
(* accepted or as dropped, whatever the exporters before it did ("can      *)
(* never ... starve other exporters").                                     *)
Accounted ==
    \A e \in Exporters :
        /\ delivered[e] + failed[e] =
              Len(settled[e]["records"]) + Len(settled[e]["lines"])
        /\ \A s \in Streams : s = "records" \/ e \in TakesLogs =>
              Cardinality({x \in Items : StreamOf(x) = s /\ at[x] = N + 1})
                  <= Len(accepted[e][s]) + dropped[e][s]

(* A worker that has closed its exporter has settled everything that was   *)
(* accepted on either queue ("relying on close ORDER here would lose the   *)
(* last batch about half the time"), and on its way there it never waits   *)
(* for a producer: when it ranges over the line channel that channel has   *)
(* already been closed, because Shutdown closes w.logs before w.queue.     *)
DrainComplete ==
    /\ \A e \in exited, s \in Streams : settled[e][s] = accepted[e][s]
    /\ \A e \in Exporters :
          Doing(e, "drain") /\ selecting[e] => closed[e]["lines"]

(* A hanging exporter delays nobody else: whatever another exporter has    *)
(* accepted is eventually settled, by size, by the ticker or at shutdown;  *)
(* and once Shutdown has begun it returns, and every worker whose exporter *)
(* does not hang closes it and exits.                                      *)
OthersUnhindered ==
    /\ []<>(\A e \in Exporters \ Hung, s \in Streams : settled[e][s] = accepted[e][s])
    /\ closing = 1 ~> closing = N + 2 /\ Exporters \ Hung \subseteq exited
=============================================================================
