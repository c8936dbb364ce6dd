----------------------------- MODULE Exporters ------------------------------
(***************************************************************************)
(* The built-in exporters behind one worker of the Dispatcher: what an     *)
(* Export, an ExportAppLogs and the Close of a file, webhook, OTLP or      *)
(* command exporter do to the disk, to the receiver and to the plugin      *)
(* process.  The Dispatcher module sees only the outcome of each call, and *)
(* only its worker makes them, one after the other.                        *)
(*                                                                         *)
(* The lines of both streams are numbered in the order the worker exports  *)
(* them.  A line in a file is two halves, so that a write cut short can    *)
(* leave the first one.                                                    *)
(***************************************************************************)
EXTENDS Integers, Sequences, FiniteSets

CONSTANTS
    Kinds,       \* telemetry.exporters[].type: the built-in types to choose from
    BatchSize,   \* telemetry.exporters[].batch_size
    MaxBytes,    \* max_size_mb, in half lines
    PipeSize,    \* what the plugin's stdin pipe holds, in lines
    MaxItems,    \* bound: lines exported
    MaxPosted,   \* bound: lines exported where they are posted
    MaxFlight,   \* bound: POSTs under way without an answer
    MaxChildren  \* bound: plugin processes started

ASSUME ExportersAssumption ==
    /\ Kinds \subseteq {"file", "webhook", "otlp", "command"}
    /\ {BatchSize, MaxBytes, PipeSize, MaxItems, MaxPosted, MaxFlight, MaxChildren}
          \subseteq Nat \ {0}

VARIABLES
    kind,       \* the exporter New built
    op,         \* "idle", "starting", "sending", "closing" or "returned"
    stream,     \* the call is Export ("records") or ExportAppLogs ("lines")
    batch,      \* the lines of the call
    rest,       \* those not written yet
    next,       \* the next line's number
    delivered,  \* lines of the calls that returned nil
    failed,     \* lines of the calls that returned an error
    attempt,    \* Export's loop variable
    flight,     \* POSTs the client gave up on that may still reach the receiver
    received,   \* history: the POSTs the receiver got, and the answer the agent got
    live,       \* the file at path
    old,        \* the file at path.1
    lost,       \* history: what rotations overwrote
    open,       \* e.f is usable
    written,    \* e.written
    cmd,        \* the current child, 0 while e.cmd is nil
    alive,      \* children that run
    reaped,     \* children whose exited channel is closed
    deaf,       \* children that closed their stdin
    killed,     \* children that were sent SIGKILL
    pipe,       \* lines in the current child's stdin
    eof,        \* Close closed stdin
    got,        \* history: what the plugin processes read
    cooled      \* three seconds have passed since lastStart

callVars == <<kind, op, stream, batch, rest, next, delivered, failed>>
httpVars == <<attempt, flight, received>>
fileVars == <<live, old, lost, open, written>>
pluginVars == <<cmd, alive, reaped, deaf, killed, pipe, eof, got, cooled>>
vars == <<callVars, httpVars, fileVars, pluginVars>>

Children == 1..MaxChildren
Answers == {"2xx", "other", "none"}
Posts == [lines : SUBSET (1..MaxItems), try : 1..2, answer : Answers]
Halves(x) == <<<<x, 1>>, <<x, 2>>>>

(* New; a file may be left from an earlier run only through Restart.       *)
Init ==
    /\ kind \in Kinds
    /\ op = "idle" /\ stream = "records" /\ batch = <<>> /\ rest = <<>> /\ next = 1
    /\ delivered = {} /\ failed = {}
    /\ attempt = 0 /\ flight = {} /\ received = <<>>
    /\ live = <<>> /\ old = <<>> /\ lost = <<>> /\ open = TRUE /\ written = 0
    /\ cmd = 0 /\ alive = {} /\ reaped = {} /\ deaf = {} /\ killed = {}
    /\ pipe = <<>> /\ eof = FALSE /\ got = <<>> /\ cooled = TRUE
-----------------------------------------------------------------------------
(* The calls                                                               *)

(* flush or flushLogs: only the file and the command exporter take lines.  *)
(* The command exporter begins with ensureRunning.                         *)
Call(s, k) ==
    /\ op = "idle" /\ next + k - 1 <= MaxItems
    /\ kind \in {"webhook", "otlp"} => next + k - 1 <= MaxPosted
    /\ s = "lines" => kind \in {"file", "command"}
    /\ op' = IF kind = "command" THEN "starting" ELSE "sending"
    /\ stream' = s
    /\ batch' = [i \in 1..k |-> next + i - 1]
    /\ rest' = batch'
    /\ next' = next + k
    /\ attempt' = 0
    /\ UNCHANGED <<kind, delivered, failed, flight, received, fileVars, pluginVars>>

Lines == {batch[i] : i \in DOMAIN batch}

Return ==
    /\ op' = "idle" /\ batch' = <<>> /\ rest' = <<>>
    /\ UNCHANGED <<kind, stream, next>>

Succeed == Return /\ delivered' = delivered \cup Lines /\ UNCHANGED failed
Fail == Return /\ failed' = failed \cup Lines /\ UNCHANGED delivered

WriteNext ==
    /\ rest' = Tail(rest)
    /\ UNCHANGED <<kind, op, stream, batch, next, delivered, failed>>

Sending(kinds) == op = "sending" /\ kind \in kinds
-----------------------------------------------------------------------------
(* The webhook and the OTLP exporter                                       *)

Attempts == IF kind = "webhook" THEN 2 ELSE 1

(* Mutant: any answer counts as success.                                   *)
AnyAnswer(answer) == answer # "none"

Accepts(answer) == answer = "2xx"

ThisPost(answer) == [lines |-> Lines, try |-> attempt + 1, answer |-> answer]

(* An answered POST has arrived; one without an answer (refused, reset or  *)
(* timed out at the client) never arrives, or at any later time.           *)
Transport(answer) ==
    \/ /\ answer # "none"
       /\ received' = Append(received, ThisPost(answer))
       /\ UNCHANGED flight
    \/ /\ answer = "none"
       /\ \/ UNCHANGED flight
          \/ Cardinality(flight) < MaxFlight /\ flight' = flight \cup {ThisPost(answer)}
       /\ UNCHANGED received

(* client.Do and what its result leads to.  The batch may not marshal, the *)
(* request may not be made, and between two attempts the context may end.  *)
Post ==
    /\ Sending({"webhook", "otlp"})
    /\ \/ \E answer \in Answers :
            /\ Transport(answer)
            /\ attempt' = attempt + 1
            /\ \/ Accepts(answer) /\ Succeed
               \/ ~Accepts(answer) /\ attempt' = Attempts /\ Fail
               \/ ~Accepts(answer) /\ attempt' < Attempts /\ UNCHANGED callVars
       \/ Fail /\ UNCHANGED httpVars
    /\ UNCHANGED <<fileVars, pluginVars>>

(* The network: a POST nobody waits for any more reaches the receiver,     *)
(* between, before or after any others.                                    *)
ArriveLate ==
    /\ \E post \in flight :
          /\ received' = Append(received, post)
          /\ flight' = flight \ {post}
    /\ UNCHANGED <<attempt, callVars, fileVars, pluginVars>>
-----------------------------------------------------------------------------
(* The file exporter                                                       *)

(* e.f.Write: the whole line; or an error, with nothing or a part written  *)
(* that e.written does not count.  A closed file only fails.               *)
WriteFile ==
    /\ Sending({"file"}) /\ rest # <<>>
    /\ \/ /\ open
          /\ live' = live \o Halves(Head(rest))
          /\ written' = written + 2
          /\ WriteNext
       \/ /\ live' \in {live} \cup (IF open THEN {Append(live, <<Head(rest), 1>>)} ELSE {})
          /\ UNCHANGED written
          /\ Fail
    /\ UNCHANGED <<old, lost, open, httpVars, pluginVars>>

(* Mutant: open does not take the size of the file it opened.              *)
ReopenKeepsWritten == open' = TRUE /\ UNCHANGED written

(* open: O_CREATE and O_APPEND, and e.written is the file's size.          *)
Reopen == open' = TRUE /\ written' = Len(live')

(* rotate: Close, Rename, open.  When Close or Rename fails the file stays *)
(* where it is and e.f stays closed; so it does when open fails.           *)
Rotate ==
    \/ /\ old' = live /\ live' = <<>> /\ lost' = lost \o old
       /\ \/ Reopen /\ Succeed
          \/ open' = FALSE /\ UNCHANGED written /\ Fail
    \/ open' = FALSE /\ UNCHANGED <<live, old, lost, written>> /\ Fail

(* After the last line: rotate a file that has grown too large, and return *)
(* what rotate returns.                                                    *)
FinishFile ==
    /\ Sending({"file"}) /\ rest = <<>>
    /\ \/ written < MaxBytes /\ Succeed /\ UNCHANGED fileVars
       \/ written >= MaxBytes /\ Rotate
    /\ UNCHANGED <<httpVars, pluginVars>>

(* The agent dies or is stopped, and newFileExporter opens the file again. *)
RestartFile ==
    /\ kind = "file"
    /\ op' = "idle" /\ batch' = <<>> /\ rest' = <<>>
    /\ live' = live /\ Reopen
    /\ UNCHANGED <<kind, stream, next, delivered, failed, old, lost, httpVars, pluginVars>>
-----------------------------------------------------------------------------
(* The command exporter                                                    *)

(* Mutant: a child that was killed counts as gone.                         *)
RunningUnlessKilled == cmd # 0 /\ cmd \notin reaped \cup killed

Running == cmd # 0 /\ cmd \notin reaped

(* ensureRunning: a child that is not reaped is taken to run; otherwise    *)
(* one start every three seconds, which may fail.                          *)
EnsureRunning ==
    /\ op = "starting"
    /\ \/ /\ Running
          /\ op' = "sending"
          /\ UNCHANGED <<kind, stream, batch, rest, next, delivered, failed, pluginVars>>
       \/ ~Running /\ ~cooled /\ Fail /\ UNCHANGED pluginVars
       \/ /\ ~Running /\ cooled
          /\ cooled' = FALSE
          /\ \/ /\ cmd < MaxChildren
                /\ cmd' = cmd + 1
                /\ alive' = alive \cup {cmd'}
                /\ pipe' = <<>>
                /\ op' = "sending"
                /\ UNCHANGED <<kind, stream, batch, rest, next, delivered, failed>>
             \/ Fail /\ UNCHANGED <<cmd, alive, pipe>>
          /\ UNCHANGED <<reaped, deaf, killed, eof, got>>
    /\ UNCHANGED <<httpVars, fileVars>>

Reads(c) == c \in alive /\ c \notin deaf

(* stdin.Write: blocks while the pipe is full, whatever the context says;  *)
(* fails once nobody reads it.  Only Export then kills the child.          *)
WritePlugin ==
    /\ Sending({"command"}) /\ rest # <<>>
    /\ \/ /\ Reads(cmd) /\ Len(pipe) < PipeSize
          /\ pipe' = Append(pipe, Head(rest))
          /\ WriteNext
          /\ UNCHANGED killed
       \/ /\ ~Reads(cmd)
          /\ killed' = IF stream = "records" THEN killed \cup {cmd} ELSE killed
          /\ Fail
          /\ UNCHANGED pipe
    /\ UNCHANGED <<cmd, alive, reaped, deaf, eof, got, cooled, httpVars, fileVars>>

FinishPlugin ==
    /\ Sending({"command"}) /\ rest = <<>>
    /\ Succeed
    /\ UNCHANGED <<httpVars, fileVars, pluginVars>>

(* The plugin, which may stop reading or exit whenever it likes, and dies  *)
(* when it is killed.                                                      *)
PluginReads ==
    /\ Reads(cmd) /\ pipe # <<>>
    /\ got' = Append(got, Head(pipe))
    /\ pipe' = Tail(pipe)
    /\ UNCHANGED <<cmd, alive, reaped, deaf, killed, eof, cooled, callVars, httpVars, fileVars>>

PluginClosesStdin ==
    /\ cmd \in alive \ deaf
    /\ deaf' = deaf \cup {cmd}
    /\ UNCHANGED <<cmd, alive, reaped, killed, pipe, eof, got, cooled,
                   callVars, httpVars, fileVars>>

PluginExits(c) ==
    /\ c \in alive
    /\ alive' = alive \ {c}
    /\ UNCHANGED <<cmd, reaped, deaf, killed, pipe, eof, got, cooled, callVars, httpVars, fileVars>>

(* The reaper goroutine: cmd.Wait returned, close(exited).                 *)
Reap(c) ==
    /\ c \in 1..cmd \ (alive \cup reaped)
    /\ reaped' = reaped \cup {c}
    /\ UNCHANGED <<cmd, alive, deaf, killed, pipe, eof, got, cooled, callVars, httpVars, fileVars>>

BackoffEnds ==
    /\ ~cooled
    /\ cooled' = TRUE
    /\ UNCHANGED <<cmd, alive, reaped, deaf, killed, pipe, eof, got, callVars, httpVars, fileVars>>
-----------------------------------------------------------------------------
(* Close                                                                   *)

BeginClose ==
    /\ op = "idle"
    /\ op' = IF cmd # 0 THEN "closing" ELSE "returned"
    /\ eof' = (cmd # 0)
    /\ open' = FALSE
    /\ UNCHANGED <<kind, stream, batch, rest, next, delivered, failed, httpVars,
                   live, old, lost, written,
                   cmd, alive, reaped, deaf, killed, pipe, got, cooled>>

(* Mutant: a plugin that ignores the end of its input is left behind.      *)
LeaveChild ==
    /\ op = "closing"
    /\ op' = "returned"
    /\ UNCHANGED <<kind, stream, batch, rest, next, delivered, failed,
                   httpVars, fileVars, pluginVars>>

(* The child has exited, or five seconds are over and it is killed.        *)
EndClose ==
    /\ op = "closing"
    /\ op' = "returned"
    /\ \/ cmd \in reaped /\ UNCHANGED killed
       \/ killed' = killed \cup {cmd}
    /\ UNCHANGED <<kind, stream, batch, rest, next, delivered, failed, httpVars, fileVars,
                   cmd, alive, reaped, deaf, pipe, eof, got, cooled>>
-----------------------------------------------------------------------------
Next ==
    \/ \E s \in {"records", "lines"}, k \in 1..BatchSize : Call(s, k)
    \/ Post \/ ArriveLate
    \/ WriteFile \/ FinishFile \/ RestartFile
    \/ EnsureRunning \/ WritePlugin \/ FinishPlugin
    \/ PluginReads \/ PluginClosesStdin \/ BackoffEnds
    \/ \E c \in Children : PluginExits(c) \/ Reap(c)
    \/ BeginClose \/ EndClose

(* Close comes back by its timer, and the kernel ends a killed process.    *)
Fairness ==
    /\ WF_vars(EndClose)
    /\ \A c \in Children : WF_vars(c \in killed /\ PluginExits(c))

Spec == Init /\ [][Next]_vars /\ Fairness
-----------------------------------------------------------------------------
TypeOK ==
    /\ kind \in Kinds
    /\ op \in {"idle", "starting", "sending", "closing", "returned"}
    /\ stream \in {"records", "lines"}
    /\ batch \in Seq(1..MaxItems) /\ rest \in Seq(1..MaxItems)
    /\ next \in 1..(MaxItems + 1)
    /\ delivered \cup failed \subseteq 1..MaxItems
    /\ attempt \in 0..2 /\ flight \subseteq Posts /\ received \in Seq(Posts)
    /\ {live, old, lost} \subseteq Seq((1..MaxItems) \X {1, 2})
    /\ written \in Nat
    /\ cmd \in 0..MaxChildren
    /\ alive \cup reaped \cup deaf \cup killed \subseteq Children
    /\ pipe \in Seq(1..MaxItems) /\ got \in Seq(1..MaxItems)
    /\ {open, eof, cooled} \subseteq BOOLEAN

(* POSTs of different batches, or q is another attempt at p's batch that   *)
(* was not made after p was confirmed.                                     *)
Apart(p, q) ==
    \/ p.lines \cap q.lines = {}
    \/ /\ p.lines = q.lines /\ p.try # q.try
       /\ p.answer = "2xx" => q.try < p.try

(* q is of a later batch, or the retry of p.                               *)
Follows(p, q) ==
    \/ \A x \in p.lines, y \in q.lines : x < y
    \/ p.lines = q.lines /\ p.try < q.try

Confirmed ==
    {x \in 1..MaxItems :
        \E i \in DOMAIN received : received[i].answer = "2xx" /\ x \in received[i].lines}

(* The receiver's view of a webhook or of OTLP spans, although a POST may  *)
(* arrive long after its client gave up on it.  Two POSTs it gets are of   *)
(* different batches with no line in common, or different attempts at one  *)
(* batch, none later than the attempt that was confirmed, and none beyond  *)
(* the one retry (webhook.go: "One retry on failure").  The answered ones  *)
(* come in the order of the batches.  The lines counted delivered are      *)
(* those of the confirmed POSTs, neither more nor fewer.  That a batch     *)
(* arrives at most once is not among this: the code does not do that.      *)
ReceiverConfirms ==
    /\ \A i \in DOMAIN received : received[i].try <= Attempts
    /\ \A i, j \in DOMAIN received : i # j =>
          Apart(received[i], received[j]) /\ Apart(received[j], received[i])
    /\ \A i, j \in DOMAIN received :
          i < j /\ received[i].answer # "none" /\ received[j].answer # "none" =>
              Follows(received[i], received[j])
    /\ kind \in {"webhook", "otlp"} => delivered = Confirmed

(* A line whose export succeeded is whole in path or in path.1 until at    *)
(* least a full file has been written after it: one generation is kept,    *)
(* and neither a failed write, a failed rotation nor a restart makes a     *)
(* rotation come early (file.go, rotate and open).                         *)
RotationWindow ==
    LET disk == lost \o old \o live
    IN  kind = "file" =>
          \A x \in delivered :
              \E i \in 1..(Len(disk) - 1) :
                  /\ disk[i] = <<x, 1>> /\ disk[i + 1] = <<x, 2>>
                  /\ i <= Len(lost) => Len(disk) - (i + 1) >= MaxBytes

(* Whatever crashes, kills and respawns there are, at most one plugin      *)
(* process runs at a time, and what the plugin processes read between them *)
(* is in export order with no line twice (command.go, ensureRunning).      *)
PluginStream ==
    /\ TypeOK
    /\ Cardinality(alive) <= 1
    /\ \A i, j \in DOMAIN got : i < j => got[i] < got[j]

(* Close leaves no plugin behind, not even one that ignores the end of its *)
(* input or has been told to die already (command.go, Close).              *)
ClosedChildGone == op = "closing" ~> alive = {}
=============================================================================
