---------------------------- MODULE AsyncWriter ----------------------------
(***************************************************************************)
(* store.AsyncWriter: request goroutines hand governed records to a        *)
(* bounded channel without blocking, one worker drains it into the         *)
(* LogStore and runs the retention pass on a ticker, and Close closes the  *)
(* channel, waits for the worker at most ten seconds and closes the store. *)
(***************************************************************************)
EXTENDS Retention, Sequences

CONSTANTS
    Records,      \* the records the request goroutines will emit, one each
    QueueSize,    \* telemetry.store.queue_size
    Horizons      \* the age limits that are on: a subset of AgeLimits

(* WithMaxAge, WithAppLogMaxAge and WithSpanMaxAge, named by their table.  *)
AgeLimits == {"logs", "app_logs", "spans"}

ASSUME WriterAssumption ==
    /\ QueueSize \in Nat \ {0}          \* config.go replaces anything <= 0
    /\ MaxRows \in Nat
    /\ Horizons \subseteq AgeLimits

VARIABLES
    caller,     \* caller[r]: how the Enqueue of record r ended
    queue,      \* the buffered channel, oldest first
    closed,     \* the channel has been closed
    worker,     \* the goroutine `run`: its place in the select loop
    inHand,     \* the record the worker has received and not yet saved
    saved,      \* every record ever inserted; the index is the row id
    live,       \* row ids still in the logs table
    old,        \* what is past its horizon: records, "app_logs", "spans"
    drops,      \* calls of onDrop
    closer,     \* the goroutine in Close
    timedOut,   \* Close gave up waiting
    accepted,   \* history: records the channel took, in order
    attempted   \* history: records the worker called Save with, in order

queueVars == <<caller, queue, closed, drops, accepted>>
storeVars == <<saved, live, old>>
closeVars == <<closer, timedOut>>
writerVars == <<queueVars, worker, inHand, attempted, storeVars, closeVars>>

(* The four parts of the retention arm, in the order the code runs them.   *)
PruneStages == {"rows", "logs", "app_logs", "spans"}
AfterStage == [s \in PruneStages |->
    CASE s = "rows" -> "logs"
      [] s = "logs" -> "app_logs"
      [] s = "app_logs" -> "spans"
      [] s = "spans" -> "select"]

WriterInit ==
    /\ caller = [r \in Records |-> "running"]
    /\ queue = <<>>
    /\ closed = FALSE
    /\ worker = "select"
    /\ inHand = <<>>
    /\ saved = <<>>
    /\ live = {}
    /\ old = {}
    /\ drops = 0
    /\ closer = "open"
    /\ timedOut = FALSE
    /\ accepted = <<>>
    /\ attempted = <<>>

StoreOpen == closer # "closed"
-----------------------------------------------------------------------------
(* The request side                                                        *)

(* Mutant: the default arm returns without calling onDrop.                 *)
SilentDrop(r) ==
    /\ caller[r] = "running"
    /\ IF closed
       THEN caller' = [caller EXCEPT ![r] = "panicked"] /\ UNCHANGED <<queue, accepted>>
       ELSE /\ caller' = [caller EXCEPT ![r] = "returned"]
            /\ IF Len(queue) < QueueSize
               THEN queue' = Append(queue, r) /\ accepted' = Append(accepted, r)
               ELSE UNCHANGED <<queue, accepted>>
    /\ UNCHANGED <<closed, drops, worker, inHand, attempted, storeVars, closeVars>>

(* The select of Enqueue: a send on a closed channel panics, a send into   *)
(* spare capacity succeeds, anything else takes the default arm.           *)
Enqueue(r) ==
    /\ caller[r] = "running"
    /\ \/ /\ closed
          /\ caller' = [caller EXCEPT ![r] = "panicked"]
          /\ UNCHANGED <<queue, accepted, drops>>
       \/ /\ ~closed
          /\ Len(queue) < QueueSize
          /\ caller' = [caller EXCEPT ![r] = "returned"]
          /\ queue' = Append(queue, r)
          /\ accepted' = Append(accepted, r)
          /\ UNCHANGED drops
       \/ /\ ~closed
          /\ Len(queue) >= QueueSize
          /\ caller' = [caller EXCEPT ![r] = "returned"]
          /\ drops' = drops + 1
          /\ UNCHANGED <<queue, accepted>>
    /\ UNCHANGED <<closed, worker, inHand, attempted, storeVars, closeVars>>
-----------------------------------------------------------------------------
(* The worker                                                              *)

(* Mutant: the newest record is taken first.                               *)
ReceiveNewest ==
    /\ worker = "select"
    /\ queue # <<>>
    /\ inHand' = <<queue[Len(queue)]>>
    /\ queue' = SubSeq(queue, 1, Len(queue) - 1)
    /\ worker' = "save"
    /\ UNCHANGED <<caller, closed, drops, accepted, attempted, storeVars, closeVars>>

(* case rec, ok := <-w.queue with ok: buffered records are received even   *)
(* after the channel has been closed.                                      *)
Receive ==
    /\ worker = "select"
    /\ queue # <<>>
    /\ inHand' = <<Head(queue)>>
    /\ queue' = Tail(queue)
    /\ worker' = "save"
    /\ UNCHANGED <<caller, closed, drops, accepted, attempted, storeVars, closeVars>>

(* Mutant: the worker leaves as soon as the channel is closed.             *)
ExitOnClose ==
    /\ worker = "select"
    /\ closed
    /\ worker' = "exited"
    /\ UNCHANGED <<queueVars, inHand, attempted, storeVars, closeVars>>

(* case rec, ok := <-w.queue with !ok: closed and drained.                 *)
ReceiveClosed ==
    /\ worker = "select"
    /\ closed
    /\ queue = <<>>
    /\ worker' = "exited"
    /\ UNCHANGED <<queueVars, inHand, attempted, storeVars, closeVars>>

(* Save inserts a row, or fails (its 5s context, a full disk, a store that *)
(* is already closed); a failure is logged and the record is gone.         *)
SaveInHand ==
    /\ worker = "save"
    /\ \/ /\ StoreOpen
          /\ saved' = saved \o inHand
          /\ live' = live \cup {Len(saved) + 1}
       \/ UNCHANGED <<saved, live>>
    /\ attempted' = attempted \o inHand
    /\ inHand' = <<>>
    /\ worker' = "select"
    /\ UNCHANGED <<queueVars, old, closeVars>>

(* case <-prune.C                                                          *)
PruneTick ==
    /\ worker = "select"
    /\ worker' = "rows"
    /\ UNCHANGED <<queueVars, inHand, attempted, storeVars, closeVars>>

(* What a stage deletes: rows by id, records by age, lines and spans by    *)
(* their own age; nothing when its limit is off.                           *)
Delete(stage) ==
    CASE stage = "rows" ->
            /\ live' = IF MaxRows > 0 THEN live \ PrunedIds(live, MaxRows) ELSE live
            /\ UNCHANGED old
      [] stage = "logs" ->
            /\ live' = IF "logs" \in Horizons
                       THEN {i \in live : saved[i] \notin old} ELSE live
            /\ UNCHANGED old
      [] OTHER ->
            /\ old' = IF stage \in Horizons THEN old \ {stage} ELSE old
            /\ UNCHANGED live

(* One stage of the retention arm.  An error is logged and the next stage  *)
(* runs all the same.                                                      *)
PruneOk ==
    /\ worker \in PruneStages
    /\ StoreOpen
    /\ Delete(worker)
    /\ worker' = AfterStage[worker]
    /\ UNCHANGED <<queueVars, inHand, attempted, saved, closeVars>>

PruneFails ==
    /\ worker \in PruneStages
    /\ worker' = AfterStage[worker]
    /\ UNCHANGED <<queueVars, inHand, attempted, storeVars, closeVars>>

(* Time passes: a stored record, or something in a side table, falls       *)
(* behind its horizon (environment).                                       *)
Expire ==
    /\ \E x \in {saved[i] : i \in live} \cup {"app_logs", "spans"} :
          x \notin old /\ old' = old \cup {x}
    /\ UNCHANGED <<queueVars, worker, inHand, attempted, saved, live, closeVars>>
-----------------------------------------------------------------------------
(* Close                                                                   *)

CloseQueue ==
    /\ closer = "open"
    /\ closer' = "draining"
    /\ closed' = TRUE
    /\ UNCHANGED <<caller, queue, drops, accepted, worker, inHand, attempted,
                   storeVars, timedOut>>

(* Mutant: the store is closed without waiting for the worker.             *)
CloseWithoutWaiting ==
    /\ closer = "draining"
    /\ closer' = "closed"
    /\ UNCHANGED <<queueVars, worker, inHand, attempted, storeVars, timedOut>>

(* case <-w.done, then store.Close                                         *)
CloseDrained ==
    /\ closer = "draining"
    /\ worker = "exited"
    /\ closer' = "closed"
    /\ UNCHANGED <<queueVars, worker, inHand, attempted, storeVars, timedOut>>

(* case <-time.After(10s), then store.Close with the worker still running  *)
CloseTimedOut ==
    /\ closer = "draining"
    /\ closer' = "closed"
    /\ timedOut' = TRUE
    /\ UNCHANGED <<queueVars, worker, inHand, attempted, storeVars>>
-----------------------------------------------------------------------------
WriterNext ==
    \/ \E r \in Records : Enqueue(r)
    \/ Receive \/ ReceiveClosed \/ SaveInHand
    \/ PruneTick \/ PruneOk \/ PruneFails \/ Expire
    \/ CloseQueue \/ CloseDrained \/ CloseTimedOut

WriterSpec == WriterInit /\ [][WriterNext]_writerVars

(* The Go scheduler runs a runnable goroutine, and select chooses among    *)
(* its ready arms at random, so an arm that is ready again and again is    *)
(* taken: hence SF for the two receive arms, which the ticker can disable. *)
(* The goroutine in Close is only owed progress once it has started.       *)
WorkerFairness ==
    /\ SF_writerVars(Receive) /\ SF_writerVars(ReceiveClosed)
    /\ WF_writerVars(SaveInHand) /\ WF_writerVars(PruneOk \/ PruneFails)
    /\ WF_writerVars(CloseDrained \/ CloseTimedOut)

LiveSpec == WriterSpec /\ WorkerFairness
-----------------------------------------------------------------------------
WriterTypeOK ==
    /\ caller \in [Records -> {"running", "returned", "panicked"}]
    /\ queue \in Seq(Records)
    /\ closed \in BOOLEAN
    /\ worker \in {"select", "save", "exited"} \cup PruneStages
    /\ inHand \in Seq(Records)
    /\ saved \in Seq(Records)
    /\ live \in SUBSET (1..Len(saved))
    /\ old \in SUBSET (Records \cup {"app_logs", "spans"})
    /\ drops \in Nat
    /\ closer \in {"open", "draining", "closed"}
    /\ timedOut \in BOOLEAN
    /\ accepted \in Seq(Records)
    /\ attempted \in Seq(Records)

(* The queue never holds more than queue_size records, and everything the  *)
(* channel accepted is offered to the store exactly once and in the order  *)
(* it was accepted: what the worker has attempted, what it has in hand and *)
(* what is still queued is, end to end, the sequence of accepted records   *)
(* (async.go, Enqueue and run).                                            *)
InOrder ==
    /\ Len(queue) <= QueueSize
    /\ attempted \o inHand \o queue = accepted

(* The records whose Enqueue has returned to the request goroutine.        *)
Returned == {r \in Records : caller[r] = "returned"}

(* Every Enqueue that returned is accounted for: its record is in the      *)
(* accepted sequence or was reported through onDrop, so the drop counter   *)
(* is exactly the difference (async.go: "DROPPED (and counted)").          *)
DropsCounted == Cardinality(Returned) = Len(accepted) + drops

(* A Close that did not time out closed the store only after every         *)
(* accepted record had been offered to it ("Close drains outstanding       *)
(* records, then closes the underlying store").                            *)
DrainedBeforeClose ==
    closer = "closed" /\ ~timedOut => attempted = accepted

(* Retention never deletes under a limit the operator has not set: without *)
(* a row limit a record leaves the table only once it is past max_age, and *)
(* without max_age only when it is not among the newest MaxRows ids; lines *)
(* and spans go only by their own horizon (async.go, the four ifs).        *)
OnlyConfiguredRetention ==
    [][/\ \A i \in live \ live' :
             \/ "logs" \in Horizons /\ saved[i] \in old
             \/ MaxRows > 0 /\ i <= Len(saved) - MaxRows
       /\ \A t \in old \ old' : t \in Horizons]_writerVars

(* What the worker goroutine owes: whatever fails and however often the    *)
(* retention ticker fires, every record the channel accepted is eventually *)
(* offered to the store; once Close has closed the channel the worker      *)
(* leaves its loop, even when Close itself timed out; and its retention    *)
(* stays within the configured limits.                                     *)
WorkerDuties ==
    /\ OnlyConfiguredRetention
    /\ closed ~> worker = "exited"
    /\ \A n \in 1..Cardinality(Records) : Len(accepted) >= n ~> Len(attempted) >= n
=============================================================================
