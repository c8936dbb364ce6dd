-------------------------- MODULE Exporters_proofs --------------------------
(***************************************************************************)
(* The plugin process, the receiver's view of a webhook and the disk of    *)
(* the file exporter, for every batch size, pipe size, size limit and      *)
(* number of lines and processes.                                          *)
(***************************************************************************)
EXTENDS Exporters, SequenceTheorems, FiniteSetTheorems, TLAPS

Rising(s) == \A i, j \in DOMAIN s : i < j => s[i] < s[j]
Before(s, t) == \A i \in DOMAIN s, j \in DOMAIN t : s[i] < t[j]
Under(s, n) == \A i \in DOMAIN s : s[i] < n

(* The line numbers of a call follow all earlier ones.                     *)
Numbered ==
    /\ op \in {"starting", "sending"} =>
          /\ batch # <<>>
          /\ \A i \in DOMAIN batch : batch[1] <= batch[i] /\ batch[i] < next
          /\ \A x \in delivered \cup failed : x < batch[1]
    /\ op \notin {"starting", "sending"} => batch = <<>> /\ rest = <<>>
    /\ \A x \in delivered \cup failed : x < next
    /\ op = "starting" => kind = "command"

(* The processes: a new one is started only when the last was reaped.      *)
OneChild ==
    /\ alive \subseteq {cmd}
    /\ alive \cap reaped = {}
    /\ reaped \subseteq 1..cmd
    /\ (kind = "command" /\ op = "sending") \/ op = "closing" => cmd # 0

(* What was read, is in the pipe and is still to be written comes in the   *)
(* order of its numbers.                                                   *)
InOrder ==
    /\ Rising(got) /\ Rising(pipe) /\ Rising(rest)
    /\ Before(got, pipe) /\ Before(got, rest) /\ Before(pipe, rest)
    /\ Under(got, next) /\ Under(pipe, next) /\ Under(rest, next)

(* The POSTs that arrived or may still do so.                              *)
Sent == {received[i] : i \in DOMAIN received} \cup flight

Http == kind \in {"webhook", "otlp"}

(* What was sent for earlier batches, and for this one so far.             *)
Earlier(p) == \A x \in p.lines : x < batch[1]
OfThis(p) == p.lines = Lines /\ p.try <= attempt /\ p.answer # "2xx"

Posted ==
    /\ ~Http => received = <<>> /\ flight = {}
    /\ \A i, j \in DOMAIN received : received[i] = received[j] => i = j
    /\ \A i \in DOMAIN received : received[i] \notin flight
    /\ \A p \in flight : p.answer = "none"
    /\ \A p \in Sent : p.try <= Attempts /\ \A x \in p.lines : x < next
    /\ \A p, q \in Sent : p # q => Apart(p, q)
    /\ \A i, j \in DOMAIN received :
          i < j /\ received[i].answer # "none" /\ received[j].answer # "none" =>
              Follows(received[i], received[j])
    /\ Http => delivered = Confirmed
    /\ Http /\ op = "sending" =>
          attempt < Attempts /\ \A p \in Sent : Earlier(p) \/ OfThis(p)

(* A line is whole on the disk, no file boundary goes through it, and it   *)
(* is overwritten only when a full file was written after it.              *)
Placed(x) ==
    LET disk == lost \o old \o live
    IN  \E i \in 1..(Len(disk) - 1) :
            /\ disk[i] = <<x, 1>> /\ disk[i + 1] = <<x, 2>>
            /\ i # Len(lost) /\ i # Len(lost) + Len(old)
            /\ i <= Len(lost) => Len(disk) - (i + 1) >= MaxBytes

OnDisk ==
    kind = "file" =>
        /\ \A x \in delivered : Placed(x)
        /\ \A x \in Lines : Placed(x) \/ \E j \in DOMAIN rest : rest[j] = x
        /\ open => written <= Len(live)
        /\ op = "sending" /\ rest = <<>> => open

IInv == TypeOK /\ Numbered /\ OneChild /\ InOrder /\ Posted /\ OnDisk
-----------------------------------------------------------------------------
(* Sequences                                                               *)

(* The elements of a sequence.                                             *)
LEMMA Elements ==
    ASSUME NEW S, NEW s \in Seq(S)
    PROVE  \A i \in DOMAIN s : s[i] \in S /\ i \in Nat \ {0}
OBVIOUS

(* A sequence over a set is one over a larger set.                         *)
LEMMA WiderSeq ==
    ASSUME NEW S, NEW T, S \subseteq T, NEW s \in Seq(S)
    PROVE  s \in Seq(T)
OBVIOUS

(* The elements of a sequence that grows at its end.                       *)
LEMMA AppendFacts ==
    ASSUME NEW S, NEW s \in Seq(S), NEW x \in S
    PROVE  /\ Append(s, x) \in Seq(S) /\ Len(s) \in Nat /\ DOMAIN s = 1..Len(s)
           /\ DOMAIN Append(s, x) = 1..(Len(s) + 1)
           /\ \A i \in 1..Len(s) : Append(s, x)[i] = s[i]
           /\ Append(s, x)[Len(s) + 1] = x
OBVIOUS

(* The elements of a sequence that loses its head.                         *)
LEMMA TailFacts ==
    ASSUME NEW S, NEW s \in Seq(S), s # <<>>
    PROVE  /\ Head(s) = s[1] /\ Head(s) \in S /\ 1 \in DOMAIN s
           /\ Tail(s) \in Seq(S)
           /\ \A i \in DOMAIN Tail(s) :
                 /\ i \in Nat \ {0} /\ i + 1 \in DOMAIN s
                 /\ Tail(s)[i] = s[i + 1]
           /\ \A i \in DOMAIN s : i # 1 => i - 1 \in DOMAIN Tail(s)
OBVIOUS

(* What a sequence gains at its end, whatever the order of its elements.   *)
LEMMA GrowsAtEnd ==
    ASSUME NEW s, NEW a, NEW x,
           \A i \in DOMAIN a :
              \/ i \in DOMAIN s /\ a[i] = s[i]
              \/ i \notin DOMAIN s /\ a[i] = x /\ \A j \in DOMAIN a : ~(i < j)
    PROVE  /\ Rising(s) /\ Under(s, x) => Rising(a)
           /\ \A u : Before(u, s) /\ Under(u, x) => Before(u, a)
           /\ \A u : Before(s, u) /\ (\A j \in DOMAIN u : x < u[j]) => Before(a, u)
           /\ \A n : Under(s, n) /\ x < n => Under(a, n)
<1>1. Rising(s) /\ Under(s, x) => Rising(a) BY DEF Rising, Under
<1>2. \A u : Before(u, s) /\ Under(u, x) => Before(u, a) BY DEF Before, Under
<1>3. \A u : Before(s, u) /\ (\A j \in DOMAIN u : x < u[j]) => Before(a, u) BY DEF Before
<1>4. \A n : Under(s, n) /\ x < n => Under(a, n) BY DEF Under
<1>5. QED BY <1>1, <1>2, <1>3, <1>4

(* Losing the head.                                                        *)
LEMMA DropHead ==
    ASSUME NEW t \in Seq(Nat), t # <<>>
    PROVE  /\ Rising(t) => Rising(Tail(t)) /\ \A j \in DOMAIN Tail(t) : t[1] < Tail(t)[j]
           /\ \A u : Before(u, t) => Before(u, Tail(t)) /\ Under(u, t[1])
           /\ \A u : Before(t, u) => Before(Tail(t), u) /\ \A j \in DOMAIN u : t[1] < u[j]
           /\ \A n : Under(t, n) => Under(Tail(t), n) /\ t[1] < n
<1> DEFINE r == Tail(t)
<1>1. /\ 1 \in DOMAIN t
      /\ \A i \in DOMAIN r : i \in Nat \ {0} /\ i + 1 \in DOMAIN t /\ r[i] = t[i + 1]
    BY TailFacts
<1> HIDE DEF r
<1>2. Rising(t) => Rising(r) /\ \A j \in DOMAIN r : t[1] < r[j]
    <2>1. ASSUME Rising(t), NEW i \in DOMAIN r, NEW j \in DOMAIN r, i < j PROVE r[i] < r[j]
        <3>1. i + 1 \in DOMAIN t /\ j + 1 \in DOMAIN t /\ i + 1 < j + 1 BY <1>1, <2>1
        <3>2. QED BY <1>1, <2>1, <3>1 DEF Rising
    <2>2. ASSUME Rising(t), NEW j \in DOMAIN r PROVE t[1] < r[j]
        <3>1. j + 1 \in DOMAIN t /\ 1 < j + 1 BY <1>1
        <3>2. QED BY <1>1, <2>2, <3>1 DEF Rising
    <2>3. QED BY <2>1, <2>2 DEF Rising
<1>3. \A u : Before(u, t) => Before(u, r) /\ Under(u, t[1]) BY <1>1 DEF Before, Under
<1>4. \A u : Before(t, u) => Before(r, u) /\ \A j \in DOMAIN u : t[1] < u[j]
    BY <1>1 DEF Before
<1>5. \A n : Under(t, n) => Under(r, n) /\ t[1] < n BY <1>1 DEF Under
<1>6. QED BY <1>2, <1>3, <1>4, <1>5 DEF r

(* Moving the head of one sequence to the end of another one.              *)
LEMMA MoveHead ==
    ASSUME NEW s \in Seq(Nat), NEW t \in Seq(Nat), t # <<>>,
           Rising(s), Rising(t), Before(s, t)
    PROVE  /\ Rising(Append(s, Head(t))) /\ Rising(Tail(t))
           /\ Before(Append(s, Head(t)), Tail(t))
           /\ \A u : Before(u, s) /\ Before(u, t) =>
                 Before(u, Append(s, Head(t))) /\ Before(u, Tail(t))
           /\ \A u : Before(s, u) /\ Before(t, u) =>
                 Before(Append(s, Head(t)), u) /\ Before(Tail(t), u)
           /\ \A n : Under(s, n) /\ Under(t, n) =>
                 Under(Append(s, Head(t)), n) /\ Under(Tail(t), n)
<1> DEFINE a == Append(s, Head(t))
           r == Tail(t)
           x == t[1]
<1>1. Head(t) = x /\ x \in Nat BY TailFacts
<1>2. \A i \in DOMAIN a :
              \/ i \in DOMAIN s /\ a[i] = s[i]
              \/ i \notin DOMAIN s /\ a[i] = x /\ \A j \in DOMAIN a : ~(i < j)
    <2> DEFINE n == Len(s)
    <2>1. n \in Nat /\ DOMAIN s = 1..n /\ DOMAIN a = 1..(n + 1) BY <1>1, AppendFacts
    <2>2. (\A i \in 1..n : a[i] = s[i]) /\ a[n + 1] = x BY <1>1, AppendFacts
    <2> HIDE DEF n, a, x
    <2>3. \A i \in 1..(n + 1) : \/ i \in 1..n
                                \/ i = n + 1 /\ i \notin 1..n /\ \A j \in 1..(n + 1) : ~(i < j)
        BY <2>1
    <2>4. QED BY <2>1, <2>2, <2>3
<1>3. /\ Rising(r) /\ Before(s, r) /\ Under(s, x) /\ \A j \in DOMAIN r : x < r[j]
      /\ \A u : Before(u, t) => Before(u, r) /\ Under(u, x)
      /\ \A u : Before(t, u) => Before(r, u) /\ \A j \in DOMAIN u : x < u[j]
      /\ \A n : Under(t, n) => Under(r, n) /\ x < n
    BY DropHead
<1> HIDE DEF a, r, x
<1>4. /\ Rising(s) /\ Under(s, x) => Rising(a)
      /\ \A u : Before(u, s) /\ Under(u, x) => Before(u, a)
      /\ \A u : Before(s, u) /\ (\A j \in DOMAIN u : x < u[j]) => Before(a, u)
      /\ \A n : Under(s, n) /\ x < n => Under(a, n)
    BY <1>2, GrowsAtEnd
<1>5. QED BY <1>3, <1>4 DEF a, r

Numbers(n, k) == [i \in 1..k |-> n + i - 1]

(* The numbers of a new call.                                              *)
LEMMA NewBatch ==
    ASSUME NEW n \in Nat \ {0}, NEW k \in Nat \ {0}, NEW m \in Nat, n + k - 1 <= m,
           NEW b, b = Numbers(n, k)
    PROVE  /\ b \in Seq(1..m) /\ b # <<>> /\ b[1] = n /\ DOMAIN b = 1..k
           /\ \A i \in DOMAIN b : n <= b[i] /\ b[i] < n + k
           /\ Rising(b) /\ Under(b, n + k)
           /\ \A u \in Seq(Nat) : Under(u, n) => Before(u, b) /\ Under(u, n + k)
<1>1. \A i \in 1..k : n + i - 1 \in 1..m /\ n <= n + i - 1 /\ n + i - 1 < n + k
    OBVIOUS
<1>2. b \in Seq(1..m) /\ Len(b) = k /\ DOMAIN b = 1..k /\ 1 \in 1..k BY <1>1 DEF Numbers
<1>3. \A i \in 1..k : b[i] = n + i - 1 BY DEF Numbers
<1>4. b # <<>> /\ b[1] = n BY <1>2, <1>3
<1>5. Rising(b) /\ Under(b, n + k) BY <1>1, <1>2, <1>3 DEF Rising, Under
<1>6. ASSUME NEW u \in Seq(Nat), Under(u, n) PROVE Before(u, b) /\ Under(u, n + k)
    <2>1. \A i \in DOMAIN u : u[i] \in Nat OBVIOUS
    <2>2. \A i \in DOMAIN u : u[i] < n BY <1>6 DEF Under
    <2>3. \A i \in DOMAIN u, j \in DOMAIN b : u[i] < b[j] BY <1>1, <1>2, <1>3, <2>1, <2>2
    <2>4. \A i \in DOMAIN u : u[i] < n + k BY <2>1, <2>2
    <2>5. QED BY <2>3, <2>4 DEF Before, Under
<1>7. QED BY <1>1, <1>2, <1>3, <1>4, <1>5, <1>6
-----------------------------------------------------------------------------
(* Types and numbers                                                       *)

(* The first line of a call.                                               *)
LEMMA FirstLine ==
    ASSUME NEW s \in Seq(1..MaxItems), s # <<>>
    PROVE  Head(s) = s[1] /\ s[1] \in 1..MaxItems /\ s[1] \in Nat /\ 1 \in DOMAIN s
<1> DEFINE S == 1..MaxItems
<1>1. s \in Seq(S) OBVIOUS
<1>2. \A x \in S : x \in Nat OBVIOUS
<1> HIDE DEF S
<1>3. Head(s) = s[1] /\ Head(s) \in S /\ 1 \in DOMAIN s BY <1>1, TailFacts
<1>4. QED BY <1>2, <1>3 DEF S

(* The whole of a call's variables as Return, Succeed and Fail leave them. *)
LEMMA CallEnds ==
    ASSUME TypeOK, Numbered, Succeed \/ Fail
    PROVE  /\ kind' = kind /\ stream' = stream /\ next' = next
           /\ op' = "idle" /\ batch' = <<>> /\ rest' = <<>>
           /\ delivered' \cup failed' \subseteq 1..MaxItems
           /\ batch' \in Seq(1..MaxItems) /\ rest' \in Seq(1..MaxItems)
           /\ op \in {"starting", "sending"} => \A x \in delivered' \cup failed' : x < next
<1>1. /\ kind' = kind /\ stream' = stream /\ next' = next
      /\ op' = "idle" /\ batch' = <<>> /\ rest' = <<>>
      /\ delivered' \cup failed' = delivered \cup failed \cup Lines
    BY DEF Succeed, Fail, Return
<1>2. Lines \subseteq 1..MaxItems
    <2>1. batch \in Seq(1..MaxItems) BY DEF TypeOK
    <2>2. \A i \in DOMAIN batch : batch[i] \in 1..MaxItems BY <2>1, Elements
    <2>3. QED BY <2>2 DEF Lines
<1>3. op \in {"starting", "sending"} => \A x \in Lines : x < next BY DEF Numbered, Lines
<1>4. /\ batch' \in Seq(1..MaxItems) /\ rest' \in Seq(1..MaxItems) BY <1>1
<1>5. QED BY <1>1, <1>2, <1>3, <1>4 DEF TypeOK, Numbered

(* A new call.                                                             *)
LEMMA CallBegins ==
    ASSUME TypeOK, NEW s \in {"records", "lines"}, NEW k \in 1..BatchSize, Call(s, k)
    PROVE  /\ next \in Nat \ {0} /\ k \in Nat \ {0} /\ next' = next + k
           /\ next' \in 1..(MaxItems + 1)
           /\ batch' \in Seq(1..MaxItems) /\ rest' = batch'
           /\ batch' # <<>> /\ batch'[1] = next
           /\ \A i \in DOMAIN batch' : next <= batch'[i] /\ batch'[i] < next'
           /\ Rising(batch') /\ Under(batch', next')
           /\ \A u \in Seq(Nat) : Under(u, next) => Before(u, batch') /\ Under(u, next')
<1>1. next \in Nat \ {0} /\ k \in Nat \ {0} /\ MaxItems \in Nat
    BY SMTT(30), ExportersAssumption DEF TypeOK
<1>2. /\ next + k - 1 <= MaxItems /\ next' = next + k /\ rest' = batch'
      /\ batch' = [i \in 1..k |-> next + i - 1]
    BY DEF Call
<1>3. next' \in 1..(MaxItems + 1) BY <1>1, <1>2
<1> DEFINE b == batch'
<1>4. b = Numbers(next, k) BY <1>2 DEF Numbers
<1> HIDE DEF b
<1>5. /\ b \in Seq(1..MaxItems) /\ b # <<>> /\ b[1] = next
      /\ \A i \in DOMAIN b : next <= b[i] /\ b[i] < next + k
      /\ Rising(b) /\ Under(b, next + k)
      /\ \A u \in Seq(Nat) : Under(u, next) => Before(u, b) /\ Under(u, next + k)
    BY <1>1, <1>2, <1>4, NewBatch
<1>6. QED BY <1>1, <1>2, <1>3, <1>5 DEF b

(* The numbers of a call follow all earlier ones, at every step.           *)
LEMMA StepNumbered == TypeOK /\ Numbered /\ [Next]_vars => Numbered'
<1> SUFFICES ASSUME TypeOK, Numbered, [Next]_vars PROVE Numbered' OBVIOUS
<1>1. ASSUME NEW s \in {"records", "lines"}, NEW k \in 1..BatchSize, Call(s, k)
      PROVE  Numbered'
    <2>1. /\ next \in Nat \ {0} /\ k \in Nat \ {0} /\ next' = next + k
          /\ batch' # <<>> /\ batch'[1] = next
          /\ \A i \in DOMAIN batch' : next <= batch'[i] /\ batch'[i] < next'
        BY <1>1, CallBegins
    <2>2. /\ delivered' = delivered /\ failed' = failed /\ kind' = kind
          /\ op' = IF kind = "command" THEN "starting" ELSE "sending"
        BY <1>1 DEF Call
    <2>3. \A x \in delivered \cup failed : x \in Nat /\ x < next BY DEF TypeOK, Numbered
    <2>4. \A x \in delivered \cup failed : x < next + k BY <2>1, <2>3
    <2>5. QED BY <2>1, <2>2, <2>3, <2>4 DEF Numbered
<1>2. CASE (Succeed \/ Fail) /\ op \in {"starting", "sending"}
    BY <1>2, CallEnds DEF Numbered
<1>3. CASE WriteNext /\ op = "sending" BY <1>3 DEF WriteNext, Numbered
<1>4. CASE EnsureRunning
    <2>1. CASE Fail BY <1>2, <1>4, <2>1 DEF EnsureRunning
    <2>2. CASE ~Fail
        <3>1. /\ op = "starting" /\ op' = "sending"
              /\ UNCHANGED <<kind, batch, rest, next, delivered, failed>>
            BY <1>4, <2>2 DEF EnsureRunning
        <3>2. QED BY <3>1 DEF Numbered
    <2>3. QED BY <2>1, <2>2
<1>5. CASE RestartFile BY <1>5 DEF RestartFile, Numbered
<1>6. CASE BeginClose \/ EndClose BY <1>6 DEF BeginClose, EndClose, Numbered
<1>7. CASE UNCHANGED callVars BY <1>7 DEF callVars, Numbered
<1>8. Post => UNCHANGED callVars \/ ((Succeed \/ Fail) /\ op \in {"starting", "sending"})
    BY DEF Post, Sending
<1>9. WriteFile \/ FinishFile \/ WritePlugin \/ FinishPlugin =>
          \/ (Succeed \/ Fail) /\ op \in {"starting", "sending"}
          \/ WriteNext /\ op = "sending"
    BY DEF WriteFile, FinishFile, Rotate, WritePlugin, FinishPlugin, Sending
<1>10. PluginReads \/ PluginClosesStdin \/ BackoffEnds
          \/ (\E c \in Children : PluginExits(c) \/ Reap(c)) => UNCHANGED callVars
    BY DEF PluginReads, PluginClosesStdin, BackoffEnds, PluginExits, Reap
<1>11. ArriveLate => UNCHANGED callVars BY DEF ArriveLate
<1>12. QED BY <1>1, <1>2, <1>3, <1>4, <1>5, <1>6, <1>7, <1>8, <1>9, <1>10,
        <1>11 DEF Next, vars

(* The types by the part of the exporter they belong to.                   *)
CallTypes ==
    /\ kind \in Kinds
    /\ op \in {"idle", "starting", "sending", "closing", "returned"}
    /\ stream \in {"records", "lines"}
    /\ batch \in Seq(1..MaxItems) /\ rest \in Seq(1..MaxItems)
    /\ next \in 1..(MaxItems + 1)
    /\ delivered \cup failed \subseteq 1..MaxItems

HttpTypes == attempt \in 0..2 /\ flight \subseteq Posts /\ received \in Seq(Posts)

FileTypes ==
    /\ live \in Seq((1..MaxItems) \X {1, 2}) /\ old \in Seq((1..MaxItems) \X {1, 2})
    /\ lost \in Seq((1..MaxItems) \X {1, 2})
    /\ written \in Nat /\ open \in BOOLEAN

PluginTypes ==
    /\ cmd \in 0..MaxChildren
    /\ alive \subseteq Children /\ reaped \subseteq Children
    /\ deaf \subseteq Children /\ killed \subseteq Children
    /\ pipe \in Seq(1..MaxItems) /\ got \in Seq(1..MaxItems)
    /\ eof \in BOOLEAN /\ cooled \in BOOLEAN

(* TypeOK by its parts.                                                    *)
LEMMA TypeParts == TypeOK <=> CallTypes /\ HttpTypes /\ FileTypes /\ PluginTypes
BY DEF TypeOK, CallTypes, HttpTypes, FileTypes, PluginTypes

(* The variables of a call stay well typed.                                *)
LEMMA StepCallTypes == TypeOK /\ Numbered /\ [Next]_vars => CallTypes'
<1> SUFFICES ASSUME TypeOK, Numbered, [Next]_vars PROVE CallTypes' OBVIOUS
<1>0. CallTypes BY TypeParts
<1>1. ASSUME NEW s \in {"records", "lines"}, NEW k \in 1..BatchSize, Call(s, k)
      PROVE  CallTypes'
    <2>1. /\ next' \in 1..(MaxItems + 1) /\ batch' \in Seq(1..MaxItems) /\ rest' = batch'
        BY <1>1, CallBegins
    <2>2. /\ stream' = s /\ kind' = kind /\ delivered' = delivered /\ failed' = failed
          /\ op' \in {"starting", "sending"}
        BY <1>1 DEF Call
    <2>3. QED BY <1>0, <2>1, <2>2 DEF CallTypes
<1>2. CASE Succeed \/ Fail BY <1>0, <1>2, CallEnds DEF CallTypes
<1>3. CASE WriteNext /\ rest # <<>>
    <2>1. Tail(rest) \in Seq(1..MaxItems) BY <1>0, <1>3, TailFacts DEF CallTypes
    <2>2. QED BY <1>0, <1>3, <2>1 DEF WriteNext, CallTypes
<1>4. CASE EnsureRunning
    <2>1. CASE Fail BY <1>2, <2>1
    <2>2. CASE ~Fail
        <3>1. op' = "sending" /\ UNCHANGED <<kind, stream, batch, rest, next, delivered, failed>>
            BY <1>4, <2>2 DEF EnsureRunning
        <3>2. QED BY <1>0, <3>1 DEF CallTypes
    <2>3. QED BY <2>1, <2>2
<1>5. CASE RestartFile BY <1>0, <1>5 DEF RestartFile, CallTypes
<1>6. CASE BeginClose \/ EndClose BY <1>0, <1>6 DEF BeginClose, EndClose, CallTypes
<1>7. CASE UNCHANGED callVars BY <1>0, <1>7 DEF callVars, CallTypes
<1>8. Post => UNCHANGED callVars \/ Succeed \/ Fail
    BY DEF Post, Sending
<1>9. WriteFile \/ FinishFile \/ WritePlugin \/ FinishPlugin =>
          Succeed \/ Fail \/ (WriteNext /\ rest # <<>>)
    <2>1. WriteFile => Succeed \/ Fail \/ (WriteNext /\ rest # <<>>) BY DEF WriteFile
    <2>2. FinishFile => Succeed \/ Fail BY DEF FinishFile, Rotate
    <2>3. WritePlugin => Succeed \/ Fail \/ (WriteNext /\ rest # <<>>) BY DEF WritePlugin
    <2>4. FinishPlugin => Succeed \/ Fail BY DEF FinishPlugin
    <2>5. QED BY <2>1, <2>2, <2>3, <2>4
<1>10. PluginReads \/ PluginClosesStdin \/ BackoffEnds
          \/ (\E c \in Children : PluginExits(c) \/ Reap(c)) => UNCHANGED callVars
    BY DEF PluginReads, PluginClosesStdin, BackoffEnds, PluginExits, Reap
<1>11. ArriveLate => UNCHANGED callVars BY DEF ArriveLate
<1>12. QED BY <1>1, <1>2, <1>3, <1>4, <1>5, <1>6, <1>7, <1>8, <1>9, <1>10,
        <1>11 DEF Next, vars

(* What is not the plugin's leaves its variables alone.                    *)
LEMMA PluginAlone ==
    ASSUME NEW s, NEW k,
           \/ Call(s, k) \/ Post \/ ArriveLate \/ WriteFile \/ FinishFile \/ RestartFile
           \/ FinishPlugin
    PROVE  UNCHANGED pluginVars
BY DEF Call, Post, ArriveLate, WriteFile, FinishFile, RestartFile, FinishPlugin

(* The variables of the plugin stay well typed.                            *)
LEMMA StepPluginTypes == TypeOK /\ OneChild /\ [Next]_vars => PluginTypes'
<1> SUFFICES ASSUME TypeOK, OneChild, [Next]_vars PROVE PluginTypes' OBVIOUS
<1>0. PluginTypes /\ CallTypes BY TypeParts
<1>1. MaxChildren \in Nat BY ExportersAssumption
<1>2. CASE UNCHANGED pluginVars BY <1>0, <1>2 DEF pluginVars, PluginTypes
<1>3. CASE EnsureRunning
    <2>1. \/ cmd' = cmd /\ alive' = alive /\ pipe' = pipe
          \/ cmd < MaxChildren /\ cmd' = cmd + 1 /\ alive' = alive \cup {cmd'} /\ pipe' = <<>>
        BY <1>3 DEF EnsureRunning, pluginVars
    <2>2. UNCHANGED <<reaped, deaf, killed, eof, got>> /\ cooled' \in BOOLEAN
        BY <1>0, <1>3 DEF EnsureRunning, pluginVars, PluginTypes
    <2>3. CASE cmd' = cmd /\ alive' = alive /\ pipe' = pipe
        BY <1>0, <2>2, <2>3 DEF PluginTypes
    <2>4. CASE cmd < MaxChildren /\ cmd' = cmd + 1 /\ alive' = alive \cup {cmd'} /\ pipe' = <<>>
        <3>1. cmd' \in 0..MaxChildren /\ cmd' \in Children
            BY <1>0, <1>1, <2>4 DEF PluginTypes, Children
        <3>2. alive' \subseteq Children BY <1>0, <2>4, <3>1 DEF PluginTypes
        <3>3. pipe' \in Seq(1..MaxItems) BY <2>4
        <3>4. QED BY <1>0, <2>2, <3>1, <3>2, <3>3 DEF PluginTypes
    <2>5. QED BY <2>1, <2>3, <2>4
<1>4. CASE WritePlugin
    <2>1. rest \in Seq(1..MaxItems) /\ rest # <<>> /\ pipe \in Seq(1..MaxItems)
        BY <1>0, <1>4 DEF WritePlugin, CallTypes, PluginTypes
    <2>2. Append(pipe, Head(rest)) \in Seq(1..MaxItems) BY <2>1, TailFacts, AppendFacts
    <2>3. pipe' \in Seq(1..MaxItems) BY <1>4, <2>1, <2>2 DEF WritePlugin
    <2>4. killed' = killed \/ killed' = killed \cup {cmd} BY <1>4 DEF WritePlugin
    <2>5. cmd # 0 BY <1>4 DEF WritePlugin, Sending, OneChild
    <2>6. cmd \in Children BY <1>0, <1>1, <2>5 DEF PluginTypes, Children
    <2>7. UNCHANGED <<cmd, alive, reaped, deaf, eof, got, cooled>> BY <1>4 DEF WritePlugin
    <2>8. QED BY <1>0, <2>3, <2>4, <2>6, <2>7 DEF PluginTypes
<1>5. CASE PluginReads
    <2>1. pipe \in Seq(1..MaxItems) /\ pipe # <<>> /\ got \in Seq(1..MaxItems)
        BY <1>0, <1>5 DEF PluginReads, PluginTypes
    <2>2. Append(got, Head(pipe)) \in Seq(1..MaxItems) /\ Tail(pipe) \in Seq(1..MaxItems)
        BY <2>1, TailFacts, AppendFacts
    <2>3. QED BY <1>0, <1>5, <2>2 DEF PluginReads, PluginTypes
<1>6. CASE PluginClosesStdin BY <1>0, <1>6 DEF PluginClosesStdin, PluginTypes
<1>7. CASE \E c \in Children : PluginExits(c) \/ Reap(c)
    BY <1>0, <1>7 DEF PluginExits, Reap, PluginTypes
<1>8. CASE BackoffEnds BY <1>0, <1>8 DEF BackoffEnds, PluginTypes
<1>9. CASE BeginClose BY <1>0, <1>9 DEF BeginClose, PluginTypes
<1>10. CASE EndClose
    <2>1. cmd # 0 BY <1>10 DEF EndClose, OneChild
    <2>2. cmd \in Children BY <1>0, <1>1, <2>1 DEF PluginTypes, Children
    <2>3. killed' = killed \/ killed' = killed \cup {cmd} BY <1>10 DEF EndClose
    <2>4. UNCHANGED <<cmd, alive, reaped, deaf, pipe, eof, got, cooled>> BY <1>10 DEF EndClose
    <2>5. QED BY <1>0, <2>2, <2>3, <2>4 DEF PluginTypes
<1>11. QED BY <1>2, <1>3, <1>4, <1>5, <1>6, <1>7, <1>8, <1>9, <1>10, PluginAlone DEF Next, vars

(* What a POST carries.                                                    *)
LEMMA PostIsPost ==
    ASSUME TypeOK, attempt + 1 \in 1..2, NEW answer \in Answers
    PROVE  /\ ThisPost(answer) \in Posts
           /\ ThisPost(answer).lines = Lines
           /\ ThisPost(answer).try = attempt + 1
           /\ ThisPost(answer).answer = answer
<1>1. batch \in Seq(1..MaxItems) BY DEF TypeOK
<1>2. \A i \in DOMAIN batch : batch[i] \in 1..MaxItems BY <1>1, Elements
<1>3. Lines \in SUBSET (1..MaxItems) BY <1>2 DEF Lines
<1>4. QED BY <1>3 DEF ThisPost, Posts

(* The variables of the POSTs stay well typed.                             *)
LEMMA StepHttpTypes == TypeOK /\ Numbered /\ Posted /\ [Next]_vars => HttpTypes'
<1> SUFFICES ASSUME TypeOK, Numbered, Posted, [Next]_vars PROVE HttpTypes' OBVIOUS
<1>0. HttpTypes /\ CallTypes BY TypeParts
<1>1. CASE \E s \in {"records", "lines"}, k \in 1..BatchSize : Call(s, k)
    BY <1>0, <1>1 DEF Call, HttpTypes
<1>2. CASE Post
    <2>1. /\ attempt < Attempts /\ attempt \in 0..2 /\ Attempts \in 1..2
        BY <1>0, <1>2 DEF Post, Sending, Posted, Http, HttpTypes, Attempts
    <2>2. attempt + 1 \in 0..2 BY <2>1
    <2>3. \A answer \in Answers : ThisPost(answer) \in Posts
        <3>1. attempt + 1 \in 1..2 BY <2>1
        <3>2. QED BY <3>1, PostIsPost
    <2>4. \/ UNCHANGED httpVars
          \/ /\ attempt' = attempt + 1
             /\ \E answer \in Answers : Transport(answer)
        BY <1>2 DEF Post
    <2>5. ASSUME NEW answer \in Answers, Transport(answer)
          PROVE  flight' \subseteq Posts /\ received' \in Seq(Posts)
        <3>1. ThisPost(answer) \in Posts BY <2>3
        <3>2. Append(received, ThisPost(answer)) \in Seq(Posts)
            BY <1>0, <3>1, AppendFacts DEF HttpTypes
        <3>3. QED BY <1>0, <2>5, <3>1, <3>2 DEF Transport, HttpTypes
    <2>6. QED BY <1>0, <2>2, <2>4, <2>5 DEF HttpTypes, httpVars
<1>3. CASE UNCHANGED httpVars BY <1>0, <1>3 DEF httpVars, HttpTypes
<1>4. CASE ArriveLate
    <2>1. PICK p \in flight : received' = Append(received, p) /\ flight' = flight \ {p}
        BY <1>4 DEF ArriveLate
    <2>2. p \in Posts BY <1>0 DEF HttpTypes
    <2>3. Append(received, p) \in Seq(Posts) BY <1>0, <2>2, AppendFacts DEF HttpTypes
    <2>4. QED BY <1>0, <1>4, <2>1, <2>3 DEF ArriveLate, HttpTypes
<1>5. \/ \E s \in {"records", "lines"}, k \in 1..BatchSize : Call(s, k)
      \/ Post \/ ArriveLate \/ UNCHANGED httpVars
    BY DEF Next, vars, WriteFile, FinishFile, RestartFile, EnsureRunning, WritePlugin,
           FinishPlugin, PluginReads, PluginClosesStdin, BackoffEnds, PluginExits, Reap,
           BeginClose, EndClose
<1>6. QED BY <1>1, <1>2, <1>3, <1>4, <1>5

(* What an action does to the files.                                       *)
FileSteps ==
    \/ UNCHANGED fileVars
    \/ BeginClose
    \/ WriteFile
    \/ FinishFile /\ Rotate
    \/ RestartFile

(* Every step is one of these to the files.                                *)
LEMMA FileStep == [Next]_vars => FileSteps
BY DEF FileSteps, Next, vars, Call, Post, ArriveLate, EnsureRunning, WritePlugin, FinishFile,
       FinishPlugin, PluginReads, PluginClosesStdin, BackoffEnds, PluginExits, Reap, EndClose

(* The variables of the files stay well typed.                             *)
LEMMA StepFileTypes == TypeOK /\ Numbered /\ [Next]_vars => FileTypes'
<1> SUFFICES ASSUME TypeOK, Numbered, [Next]_vars PROVE FileTypes' OBVIOUS
<1> DEFINE H == (1..MaxItems) \X {1, 2}
<1>0. /\ live \in Seq(H) /\ old \in Seq(H) /\ lost \in Seq(H)
      /\ written \in Nat /\ open \in BOOLEAN
    BY TypeParts DEF FileTypes
<1>1. CASE UNCHANGED fileVars BY <1>0, <1>1 DEF fileVars, FileTypes
<1>2. CASE BeginClose BY <1>0, <1>2 DEF BeginClose, FileTypes
<1>3. CASE WriteFile
    <2>1. rest # <<>> /\ rest \in Seq(1..MaxItems)
        BY <1>3, TypeParts DEF WriteFile, CallTypes
    <2> DEFINE x == Head(rest)
    <2>2. x \in 1..MaxItems BY <2>1, TailFacts
    <2> HIDE DEF x
    <2>3. <<x, 1>> \in H /\ Halves(x) \in Seq(H) BY <2>2 DEF Halves
    <2>4. live \o Halves(x) \in Seq(H) /\ Append(live, <<x, 1>>) \in Seq(H)
        <3> HIDE DEF H
        <3>1. QED BY <1>0, <2>3, ConcatProperties, AppendFacts
    <2>5. \/ live' = live \o Halves(x) \/ live' = live \/ live' = Append(live, <<x, 1>>)
        BY <1>3 DEF WriteFile, x
    <2>6. UNCHANGED <<old, lost, open>> /\ written' \in Nat BY <1>0, <1>3 DEF WriteFile
    <2>7. QED BY <1>0, <2>4, <2>5, <2>6 DEF FileTypes
<1>4. CASE FinishFile /\ Rotate
    <2>1. /\ live' = live \/ live' = <<>>
          /\ old' = old \/ old' = live
          /\ lost' = lost \/ lost' = lost \o old
          /\ open' = TRUE \/ open' = FALSE
          /\ written' = written \/ written' = Len(live')
        BY <1>4 DEF Rotate, Reopen
    <2>2. lost \o old \in Seq(H) /\ <<>> \in Seq(H)
        <3> HIDE DEF H
        <3>1. QED BY <1>0, ConcatProperties
    <2>3. live' \in Seq(H) BY <1>0, <2>1, <2>2
    <2>4. Len(live') \in Nat BY <2>3
    <2>5. QED BY <1>0, <2>1, <2>2, <2>3, <2>4 DEF FileTypes
<1>5. CASE RestartFile
    <2>1. Len(live) \in Nat BY <1>0
    <2>2. QED BY <1>0, <1>5, <2>1 DEF RestartFile, Reopen, FileTypes
<1>6. QED BY <1>1, <1>2, <1>3, <1>4, <1>5, FileStep DEF FileSteps
-----------------------------------------------------------------------------
(* The plugin                                                              *)

(* There is no second process, whatever dies, is killed or is started.     *)
LEMMA StepOneChild == TypeOK /\ Numbered /\ OneChild /\ [Next]_vars => OneChild'
<1> SUFFICES ASSUME TypeOK, Numbered, OneChild, [Next]_vars PROVE OneChild' OBVIOUS
<1>0. cmd \in Nat /\ alive \subseteq {cmd} /\ alive \cap reaped = {} /\ reaped \subseteq 1..cmd
    BY DEF TypeOK, OneChild
<1>1. CASE UNCHANGED <<cmd, alive, reaped>> /\ kind' = kind
           /\ (op' # "sending" \/ op = "sending" \/ kind # "command")
           /\ (op' # "closing" \/ op = "closing")
    BY <1>1 DEF OneChild
<1>2. CASE EnsureRunning
    <2>1. CASE Fail /\ UNCHANGED <<cmd, alive, pipe>>
        BY <1>2, <2>1 DEF EnsureRunning, OneChild, Fail, Return, pluginVars
    <2>2. CASE Running /\ UNCHANGED pluginVars
        BY <1>2, <2>2 DEF EnsureRunning, OneChild, Running, pluginVars
    <2>3. CASE /\ ~Running /\ cmd' = cmd + 1 /\ alive' = alive \cup {cmd'} /\ reaped' = reaped
               /\ kind' = kind /\ op' = "sending"
        <3>1. alive = {} BY <1>0, <2>3 DEF Running, TypeOK, Children
        <3>2. alive' = {cmd + 1} /\ cmd + 1 \notin reaped /\ reaped \subseteq 1..(cmd + 1)
            BY <1>0, <2>3, <3>1
        <3>3. cmd + 1 # 0 BY <1>0
        <3>4. QED BY <2>3, <3>2, <3>3 DEF OneChild
    <2>4. QED BY <1>2, <2>1, <2>2, <2>3 DEF EnsureRunning, Fail, Return, pluginVars
<1>3. CASE \E c \in Children : PluginExits(c) \/ Reap(c)
    BY <1>0, <1>3 DEF PluginExits, Reap, OneChild, callVars
<1>4. CASE BeginClose BY <1>0, <1>4 DEF BeginClose, OneChild
<1>5. QED BY <1>1, <1>2, <1>3, <1>4 DEF Next, vars, callVars, pluginVars, Call, Post, ArriveLate,
             WriteFile, FinishFile, Rotate, RestartFile, WritePlugin, FinishPlugin, PluginReads,
             PluginClosesStdin, BackoffEnds, EndClose, Succeed, Fail, Return, WriteNext

(* The empty sequence is in any order.                                     *)
LEMMA EmptyInOrder ==
    /\ Rising(<<>>) /\ \A n : Under(<<>>, n)
    /\ \A s : Before(s, <<>>) /\ Before(<<>>, s)
<1>1. DOMAIN <<>> = {} OBVIOUS
<1>2. QED BY <1>1 DEF Rising, Under, Before

(* What the plugin reads is in order: a call's lines come last, a write    *)
(* and a read move a head to the end, and the rest only forgets.           *)
LEMMA StepInOrder == TypeOK /\ Numbered /\ InOrder /\ [Next]_vars => InOrder'
<1> SUFFICES ASSUME TypeOK, Numbered, InOrder, [Next]_vars PROVE InOrder' OBVIOUS
<1>0. /\ rest \in Seq(1..MaxItems) /\ pipe \in Seq(1..MaxItems) /\ got \in Seq(1..MaxItems)
      /\ next \in Nat
    BY TypeParts DEF CallTypes, PluginTypes
<1>1. /\ rest \in Seq(Nat) /\ pipe \in Seq(Nat) /\ got \in Seq(Nat)
    <2>1. 1..MaxItems \subseteq Nat OBVIOUS
    <2>2. QED BY <1>0, <2>1, WiderSeq
<1>2. ASSUME NEW s \in {"records", "lines"}, NEW k \in 1..BatchSize, Call(s, k)
      PROVE  InOrder'
    <2>1. /\ pipe' = pipe /\ got' = got BY <1>2 DEF Call, pluginVars
    <2>2. /\ rest' = batch' /\ Rising(batch') /\ Under(batch', next')
          /\ \A u \in Seq(Nat) : Under(u, next) => Before(u, batch') /\ Under(u, next')
        BY <1>2, CallBegins
    <2>3. /\ Before(got, batch') /\ Under(got, next') /\ Before(pipe, batch') /\ Under(pipe, next')
        BY <1>1, <2>2 DEF InOrder
    <2>4. QED BY <2>1, <2>2, <2>3 DEF InOrder
<1>3. CASE /\ next' = next /\ got' = got
           /\ rest' = rest \/ rest' = <<>>
           /\ pipe' = pipe \/ pipe' = <<>>
    <2>1. Rising(pipe') /\ Before(got, pipe') /\ Under(pipe', next)
        BY <1>3, EmptyInOrder DEF InOrder
    <2>2. Rising(rest') /\ Before(got, rest') /\ Under(rest', next)
        BY <1>3, EmptyInOrder DEF InOrder
    <2>3. Before(pipe', rest') BY <1>3, EmptyInOrder DEF InOrder
    <2>4. QED BY <1>3, <2>1, <2>2, <2>3 DEF InOrder
<1>4. CASE /\ next' = next /\ pipe' = pipe /\ got' = got
           /\ rest # <<>> /\ rest' = Tail(rest)
    BY <1>1, <1>4, DropHead DEF InOrder
<1>5. CASE /\ next' = next /\ got' = got
           /\ rest # <<>> /\ rest' = Tail(rest) /\ pipe' = Append(pipe, Head(rest))
    BY <1>0, <1>1, <1>5, MoveHead DEF InOrder
<1>6. CASE /\ next' = next /\ rest' = rest
           /\ pipe # <<>> /\ pipe' = Tail(pipe) /\ got' = Append(got, Head(pipe))
    BY <1>0, <1>1, <1>6, MoveHead DEF InOrder
<1>7. CASE Post \/ ArriveLate \/ FinishFile \/ RestartFile \/ FinishPlugin \/ PluginClosesStdin
           \/ BackoffEnds \/ BeginClose \/ EndClose \/ UNCHANGED vars
           \/ \E c \in Children : PluginExits(c) \/ Reap(c)
    BY <1>3, <1>7 DEF vars, callVars, pluginVars, Post, ArriveLate, FinishFile, Rotate,
        RestartFile, FinishPlugin, PluginClosesStdin, BackoffEnds, BeginClose, EndClose,
        PluginExits, Reap,
        Succeed, Fail, Return
<1>8. CASE EnsureRunning
    BY <1>3, <1>8 DEF EnsureRunning, Fail, Return, pluginVars
<1>9. CASE WriteFile
    BY <1>3, <1>4, <1>9 DEF WriteFile, WriteNext, Fail, Return, pluginVars
<1>10. CASE WritePlugin
    BY <1>3, <1>5, <1>10 DEF WritePlugin, WriteNext, Fail, Return
<1>11. CASE PluginReads
    BY <1>6, <1>11 DEF PluginReads, callVars
<1>12. QED BY <1>2, <1>7, <1>8, <1>9, <1>10, <1>11 DEF Next
-----------------------------------------------------------------------------
(* The receiver                                                            *)

(* What POSTs are made of.                                                 *)
LEMMA SentTypes ==
    ASSUME TypeOK, NEW p \in Sent
    PROVE  /\ p \in Posts /\ p.lines \subseteq 1..MaxItems /\ p.try \in 1..2
           /\ \A x \in p.lines : x \in Nat
<1>1. received \in Seq(Posts) /\ flight \subseteq Posts BY DEF TypeOK
<1>2. \A i \in DOMAIN received : received[i] \in Posts BY <1>1, Elements
<1>3. p \in Posts BY <1>1, <1>2 DEF Sent
<1>4. p.lines \subseteq 1..MaxItems /\ p.try \in 1..2 BY <1>3 DEF Posts
<1>5. QED BY <1>3, <1>4

(* One more POST is received.                                              *)
LEMMA OneReceived ==
    ASSUME received \in Seq(Posts), NEW p \in Posts, received' = Append(received, p)
    PROVE  /\ Len(received) \in Nat /\ DOMAIN received = 1..Len(received)
           /\ \A i \in DOMAIN received' : i \in DOMAIN received \/ i = Len(received) + 1
           /\ \A i \in DOMAIN received :
                 /\ i \in DOMAIN received' /\ received'[i] = received[i]
                 /\ i < Len(received) + 1 /\ ~(Len(received) + 1 < i)
           /\ Len(received) + 1 \in DOMAIN received' /\ received'[Len(received) + 1] = p
           /\ ~(Len(received) + 1 < Len(received) + 1)
<1> DEFINE n == Len(received)
<1>1. /\ n \in Nat /\ DOMAIN received = 1..n
      /\ DOMAIN received' = 1..(n + 1)
      /\ \A i \in 1..n : received'[i] = received[i]
      /\ received'[n + 1] = p
    BY AppendFacts
<1> HIDE DEF n
<1>2. /\ \A i \in 1..(n + 1) : i \in 1..n \/ i = n + 1
      /\ n + 1 \in 1..(n + 1)
      /\ \A i \in 1..n : i \in 1..(n + 1) /\ i < n + 1 /\ ~(n + 1 < i)
      /\ ~(n + 1 < n + 1)
    BY <1>1
<1>3. QED BY <1>1, <1>2 DEF n

(* What a receipt adds to what the invariant says of single receipts, of   *)
(* pairs and of the confirmed lines.                                       *)
LEMMA ReceiptFacts ==
    ASSUME TypeOK, Posted, NEW p \in Posts, received' = Append(received, p),
           p \notin {received[i] : i \in DOMAIN received},
           p.answer # "none" => \A q \in Sent : q.answer # "none" => Follows(q, p)
    PROVE  /\ \A i, j \in DOMAIN received' : received'[i] = received'[j] => i = j
           /\ {received'[i] : i \in DOMAIN received'}
                  = {received[i] : i \in DOMAIN received} \cup {p}
           /\ \A i, j \in DOMAIN received' :
                 i < j /\ received'[i].answer # "none" /\ received'[j].answer # "none" =>
                     Follows(received'[i], received'[j])
           /\ Confirmed' = Confirmed \cup (IF p.answer = "2xx" THEN p.lines ELSE {})
<1> DEFINE n == Len(received)
           D == DOMAIN received
           E == DOMAIN received'
<1>1. received \in Seq(Posts) BY DEF TypeOK
<1>2. /\ \A i \in E : i \in D \/ i = n + 1
      /\ \A i \in D : i \in E /\ received'[i] = received[i] /\ i < n + 1 /\ ~(n + 1 < i)
      /\ n + 1 \in E /\ received'[n + 1] = p
      /\ ~(n + 1 < n + 1)
    BY <1>1, OneReceived
<1>3. \A i \in D : received[i] \in Sent /\ received[i] # p BY DEF Sent
<1>4. p.lines \subseteq 1..MaxItems BY DEF Posts
<1> HIDE DEF n
<1>5. \A i, j \in E : received'[i] = received'[j] => i = j
    BY <1>2, <1>3 DEF Posted
<1>6. {received'[i] : i \in E} = {received[i] : i \in D} \cup {p}
    BY <1>2
<1>7. ASSUME NEW i \in E, NEW j \in E, i < j,
             received'[i].answer # "none", received'[j].answer # "none"
      PROVE  Follows(received'[i], received'[j])
    <2>1. CASE i = n + 1 BY <1>2, <1>7, <2>1
    <2>2. CASE i \in D /\ j \in D BY <1>2, <1>7, <2>2 DEF Posted
    <2>3. CASE i \in D /\ j = n + 1 BY <1>2, <1>3, <1>7, <2>3
    <2>4. QED BY <1>2, <2>1, <2>2, <2>3
<1>8. Confirmed' = Confirmed \cup (IF p.answer = "2xx" THEN p.lines ELSE {})
    <2>1. \A x \in 1..MaxItems : x \in Confirmed' <=>
              x \in Confirmed \/ (p.answer = "2xx" /\ x \in p.lines)
        BY <1>2 DEF Confirmed
    <2>2. Confirmed \subseteq 1..MaxItems /\ Confirmed' \subseteq 1..MaxItems BY DEF Confirmed
    <2>3. QED BY <1>4, <2>1, <2>2
<1>9. QED BY <1>5, <1>6, <1>7, <1>8

(* A POST of the batch that is being sent goes with all those before it.   *)
LEMMA NewPost ==
    ASSUME TypeOK, Numbered, Posted, Http, op = "sending", NEW answer \in Answers
    PROVE  LET p == ThisPost(answer)
           IN  /\ p \in Posts /\ p \notin Sent /\ p.answer = answer /\ p.lines = Lines
               /\ p.try = attempt + 1 /\ p.try <= Attempts
               /\ \A x \in p.lines : x < next
               /\ \A q \in Sent : Apart(p, q) /\ Apart(q, p) /\ Follows(q, p)
<1> DEFINE p == ThisPost(answer)
<1>1. /\ batch \in Seq(1..MaxItems) /\ batch # <<>> /\ attempt \in 0..2 /\ attempt < Attempts
    BY DEF Numbered, TypeOK, Posted
<1>2. Attempts \in 1..2 BY DEF Attempts
<1>3. attempt + 1 \in 1..2 /\ attempt + 1 <= Attempts BY <1>1, <1>2
<1>4. /\ p \in Posts /\ p.lines = Lines /\ p.try = attempt + 1 /\ p.answer = answer
    BY <1>3, PostIsPost
<1> HIDE DEF p
<1>5. batch[1] \in Nat /\ 1 \in DOMAIN batch BY <1>1, FirstLine
<1>6. \A x \in Lines : batch[1] <= x /\ x < next BY DEF Lines, Numbered
<1>7. batch[1] \in Lines BY <1>5 DEF Lines
<1>8. \A x \in Lines : x \in Nat
    <2>1. \A i \in DOMAIN batch : batch[i] \in 1..MaxItems BY <1>1, Elements
    <2>2. QED BY <2>1 DEF Lines
<1>9. ASSUME NEW q \in Sent PROVE q # p /\ Apart(p, q) /\ Apart(q, p) /\ Follows(q, p)
    <2>1. q.try \in 1..2 /\ \A x \in q.lines : x \in Nat BY SentTypes
    <2>2. CASE Earlier(q)
        <3>1. \A x \in q.lines, y \in Lines : x < y
            BY <1>5, <1>6, <1>8, <2>1, <2>2 DEF Earlier
        <3>2. q.lines \cap Lines = {}
            <4>1. \A x \in Lines : ~(x < x) BY <1>8
            <4>2. QED BY <3>1, <4>1
        <3>3. q # p BY <1>4, <1>7, <3>2
        <3>4. QED BY <1>4, <3>1, <3>2, <3>3 DEF Apart, Follows
    <2>3. CASE OfThis(q)
        <3>1. q.lines = Lines /\ q.try <= attempt /\ q.answer # "2xx" BY <2>3 DEF OfThis
        <3>2. q.try < attempt + 1 /\ q.try # attempt + 1 BY <1>1, <2>1, <3>1
        <3>3. QED BY <1>4, <3>1, <3>2 DEF Apart, Follows
    <2>4. QED BY <2>2, <2>3 DEF Posted
<1>10. QED BY <1>3, <1>4, <1>6, <1>9 DEF p

(* A POST leaves what was sent before and at most its own.                 *)
LEMMA TransportSent ==
    ASSUME TypeOK, Numbered, Posted, Http, op = "sending", NEW answer \in Answers,
           Transport(answer)
    PROVE  /\ \A i, j \in DOMAIN received' : received'[i] = received'[j] => i = j
           /\ \A i \in DOMAIN received' : received'[i] \notin flight'
           /\ \A q \in flight' : q.answer = "none"
           /\ Sent' = Sent \/ Sent' = Sent \cup {ThisPost(answer)}
           /\ \A i, j \in DOMAIN received' :
                 i < j /\ received'[i].answer # "none" /\ received'[j].answer # "none" =>
                     Follows(received'[i], received'[j])
           /\ Confirmed' = Confirmed \cup (IF answer = "2xx" THEN Lines ELSE {})
<1> DEFINE p == ThisPost(answer)
           R == {received[i] : i \in DOMAIN received}
<1>1. /\ p \in Posts /\ p \notin Sent /\ p.answer = answer /\ p.lines = Lines
      /\ \A q \in Sent : Follows(q, p)
    BY NewPost
<1>2. R \subseteq Sent /\ flight \subseteq Sent /\ Sent = R \cup flight BY DEF Sent
<1> HIDE DEF p
<1>3. CASE answer # "none" /\ received' = Append(received, p) /\ flight' = flight
    <2>1. /\ \A i, j \in DOMAIN received' : received'[i] = received'[j] => i = j
          /\ {received'[i] : i \in DOMAIN received'} = R \cup {p}
          /\ \A i, j \in DOMAIN received' :
                 i < j /\ received'[i].answer # "none" /\ received'[j].answer # "none" =>
                     Follows(received'[i], received'[j])
          /\ Confirmed' = Confirmed \cup (IF p.answer = "2xx" THEN p.lines ELSE {})
        BY <1>1, <1>2, <1>3, ReceiptFacts
    <2>2. Sent' = Sent \cup {p} BY <1>2, <1>3, <2>1 DEF Sent
    <2>3. \A i \in DOMAIN received' : received'[i] \notin flight'
        <3>1. \A q \in R \cup {p} : q \notin flight BY <1>1, <1>2 DEF Posted
        <3>2. QED BY <1>3, <2>1, <3>1
    <2>4. \A q \in flight' : q.answer = "none" BY <1>3 DEF Posted
    <2>5. Confirmed' = Confirmed \cup (IF answer = "2xx" THEN Lines ELSE {})
        BY <1>1, <2>1
    <2>6. QED BY <2>1, <2>2, <2>3, <2>4, <2>5 DEF p
<1>4. CASE answer = "none" /\ received' = received
           /\ (flight' = flight \/ flight' = flight \cup {p})
    <2>1. Sent' = Sent \/ Sent' = Sent \cup {p} BY <1>2, <1>4 DEF Sent
    <2>2. \A i \in DOMAIN received' : received'[i] \notin flight'
        <3>1. \A i \in DOMAIN received : received[i] \notin flight /\ received[i] # p
            BY <1>1, <1>2 DEF Posted
        <3>2. QED BY <1>4, <3>1
    <2>3. \A q \in flight' : q.answer = "none" BY <1>1, <1>4 DEF Posted
    <2>4. Confirmed' = Confirmed BY <1>4 DEF Confirmed
    <2>5. /\ \A i, j \in DOMAIN received' : received'[i] = received'[j] => i = j
          /\ \A i, j \in DOMAIN received' :
                 i < j /\ received'[i].answer # "none" /\ received'[j].answer # "none" =>
                     Follows(received'[i], received'[j])
        BY <1>4 DEF Posted
    <2>6. QED BY <1>4, <2>1, <2>2, <2>3, <2>4, <2>5 DEF p
<1>5. QED BY <1>3, <1>4 DEF Transport, p

(* A POST is made, whatever is answered.                                   *)
LEMMA PostMade ==
    ASSUME TypeOK, Numbered, Posted, Http, op = "sending", NEW answer \in Answers,
           Transport(answer), attempt' = attempt + 1,
           \/ answer = "2xx" /\ Succeed
           \/ answer # "2xx" /\ Fail
           \/ answer # "2xx" /\ attempt' < Attempts /\ UNCHANGED callVars
    PROVE  Posted'
<1>0. PICK p : p = ThisPost(answer) OBVIOUS
<1>1. /\ p.answer = answer /\ p.lines = Lines
      /\ p.try = attempt + 1 /\ p.try <= Attempts
      /\ \A x \in p.lines : x < next
      /\ \A q \in Sent : Apart(p, q) /\ Apart(q, p)
    BY <1>0, NewPost
<1>2. Sent' = Sent \/ Sent' = Sent \cup {p} BY <1>0, TransportSent
<1>3. /\ kind' = kind /\ next' = next /\ attempt \in 0..2
      /\ answer = "2xx" => delivered' = delivered \cup Lines
      /\ answer # "2xx" => delivered' = delivered
    BY DEF Succeed, Fail, Return, callVars, TypeOK
<1>4. Http' /\ Attempts' = Attempts BY <1>3 DEF Http, Attempts
<1>5. \A q \in Sent' : q.try <= Attempts /\ \A x \in q.lines : x < next
    BY <1>1, <1>2 DEF Posted
<1>6. \A q, r \in Sent' : q # r => Apart(q, r)
    BY <1>1, <1>2 DEF Posted
<1>7. delivered' = Confirmed'
    <2>1. Confirmed' = Confirmed \cup (IF answer = "2xx" THEN Lines ELSE {}) BY TransportSent
    <2>2. delivered = Confirmed BY DEF Posted
    <2>3. QED BY <1>3, <2>1, <2>2
<1>8. ASSUME op' = "sending"
      PROVE  attempt' < Attempts' /\ \A q \in Sent' : (Earlier(q) \/ OfThis(q))'
    <2>1. answer # "2xx" /\ attempt' < Attempts /\ UNCHANGED <<batch>>
        BY <1>8 DEF Succeed, Fail, Return, callVars
    <2>2. Lines' = Lines BY <2>1 DEF Lines
    <2>3. OfThis(p)' BY <1>1, <1>3, <2>1, <2>2 DEF OfThis
    <2>4. ASSUME NEW q \in Sent PROVE (Earlier(q) \/ OfThis(q))'
        <3>1. q.try \in 1..2 BY SentTypes
        <3>2. CASE Earlier(q) BY <2>1, <3>2 DEF Earlier
        <3>3. CASE OfThis(q)
            <4>1. q.try <= attempt' BY <1>3, <3>1, <3>3 DEF OfThis
            <4>2. QED BY <2>2, <3>3, <4>1 DEF OfThis
        <3>4. QED BY <3>2, <3>3 DEF Posted
    <2>5. QED BY <1>2, <1>4, <2>1, <2>3, <2>4
<1>9. /\ \A i, j \in DOMAIN received' : received'[i] = received'[j] => i = j
      /\ \A i \in DOMAIN received' : received'[i] \notin flight'
      /\ \A q \in flight' : q.answer = "none"
      /\ \A i, j \in DOMAIN received' :
             i < j /\ received'[i].answer # "none" /\ received'[j].answer # "none" =>
                 Follows(received'[i], received'[j])
    BY TransportSent
<1>10. QED BY <1>3, <1>4, <1>5, <1>6, <1>7, <1>8, <1>9 DEF Posted

(* A POST nobody waits for arrives.                                        *)
LEMMA LateArrives ==
    ASSUME TypeOK, Posted, ArriveLate
    PROVE  Posted'
<1> DEFINE R == {received[i] : i \in DOMAIN received}
<1>1. PICK p \in flight : received' = Append(received, p) /\ flight' = flight \ {p}
    BY DEF ArriveLate
<1>2. /\ p \in Posts /\ p.answer = "none" /\ p \notin R /\ Sent = R \cup flight
    BY DEF TypeOK, Posted, Sent
<1>3. /\ \A i, j \in DOMAIN received' : received'[i] = received'[j] => i = j
      /\ {received'[i] : i \in DOMAIN received'} = R \cup {p}
      /\ \A i, j \in DOMAIN received' :
             i < j /\ received'[i].answer # "none" /\ received'[j].answer # "none" =>
                 Follows(received'[i], received'[j])
      /\ Confirmed' = Confirmed \cup (IF p.answer = "2xx" THEN p.lines ELSE {})
    BY <1>1, <1>2, ReceiptFacts
<1>4. Sent' = Sent BY <1>1, <1>2, <1>3 DEF Sent
<1>5. Confirmed' = Confirmed BY <1>2, <1>3
<1>6. UNCHANGED <<kind, op, batch, next, delivered, attempt>> BY DEF ArriveLate, callVars
<1>7. /\ Http' = Http /\ Attempts' = Attempts
      /\ \A q : Earlier(q)' = Earlier(q) /\ OfThis(q)' = OfThis(q)
    BY <1>6 DEF Http, Attempts, Earlier, OfThis, Lines
<1>8. Http BY <1>1 DEF Posted
<1>9. \A i \in DOMAIN received' : received'[i] \notin flight'
    <2>1. \A q \in R \cup {p} : q \notin flight \ {p} BY DEF Posted
    <2>2. QED BY <1>1, <1>3, <2>1
<1>10. \A q \in flight' : q.answer = "none" BY <1>1 DEF Posted
<1>11. /\ \A q \in Sent' : q.try <= Attempts' /\ \A x \in q.lines : x < next'
       /\ \A q, r \in Sent' : q # r => Apart(q, r)
    BY <1>4, <1>6, <1>7 DEF Posted
<1>12. /\ delivered' = Confirmed'
       /\ op' = "sending" => /\ attempt' < Attempts'
                             /\ \A q \in Sent' : (Earlier(q) \/ OfThis(q))'
    <2>1. delivered = Confirmed BY <1>8 DEF Posted
    <2>2. op = "sending" => attempt < Attempts /\ \A q \in Sent : Earlier(q) \/ OfThis(q)
        BY <1>8 DEF Posted
    <2>3. QED BY <1>4, <1>5, <1>6, <1>7, <2>1, <2>2
<1>13. QED BY <1>3, <1>7, <1>8, <1>9, <1>10, <1>11, <1>12 DEF Posted

(* A step that posts nothing and leaves what arrives alone.                *)
LEMMA PostedStays ==
    ASSUME Posted, UNCHANGED <<kind, next, delivered, flight, received>>,
           Http => \/ op' = op /\ batch' = batch /\ attempt' = attempt
                   \/ op' # "sending"
    PROVE  Posted'
<1>1. /\ Sent' = Sent /\ Confirmed' = Confirmed /\ Http' = Http /\ Attempts' = Attempts
    BY DEF Sent, Confirmed, Http, Attempts
<1>2. Http /\ op' = "sending" =>
          /\ op = "sending" /\ attempt' = attempt
          /\ \A q : Earlier(q)' = Earlier(q) /\ OfThis(q)' = OfThis(q)
    BY DEF Earlier, OfThis, Lines
<1>3. Http' /\ op' = "sending" =>
          attempt' < Attempts' /\ \A q \in Sent' : (Earlier(q) \/ OfThis(q))'
    BY <1>1, <1>2 DEF Posted
<1>4. QED BY <1>1, <1>3 DEF Posted

(* An exporter without a receiver has nothing to show.                     *)
LEMMA NoReceipts ==
    ASSUME ~Http, kind' = kind, received' = <<>>, flight' = {}
    PROVE  Posted'
<1>1. ~Http' /\ DOMAIN received' = {} BY DEF Http
<1>2. Sent' = {} BY <1>1 DEF Sent
<1>3. QED BY <1>1, <1>2 DEF Posted

(* The receiver's view stays what the properties say, at every step.       *)
LEMMA StepPosted == TypeOK /\ Numbered /\ Posted /\ [Next]_vars => Posted'
<1> SUFFICES ASSUME TypeOK, Numbered, Posted, [Next]_vars PROVE Posted' OBVIOUS
<1>1. ASSUME NEW s \in {"records", "lines"}, NEW k \in 1..BatchSize, Call(s, k)
      PROVE  Posted'
    <2>1. /\ next \in Nat \ {0} /\ k \in Nat \ {0} /\ next' = next + k /\ batch'[1] = next
        BY <1>1, CallBegins
    <2>2. UNCHANGED <<kind, delivered, flight, received>> /\ attempt' = 0
        BY <1>1 DEF Call
    <2>3. Sent' = Sent /\ Confirmed' = Confirmed /\ Http' = Http /\ Attempts' = Attempts
        BY <2>2 DEF Sent, Confirmed, Http, Attempts
    <2>4. ASSUME NEW q \in Sent
          PROVE  Earlier(q)' /\ q.try <= Attempts' /\ \A x \in q.lines : x < next'
        <3>1. q.try <= Attempts /\ \A x \in q.lines : x \in Nat /\ x < next
            BY SentTypes DEF Posted
        <3>2. \A x \in q.lines : x < next + k BY <2>1, <3>1
        <3>3. QED BY <2>1, <2>3, <3>1, <3>2 DEF Earlier
    <2>5. attempt' < Attempts' BY <2>2 DEF Attempts
    <2>6. QED BY <2>2, <2>3, <2>4, <2>5 DEF Posted
<1>2. CASE Post
    <2>1. op = "sending" /\ Http BY <1>2 DEF Post, Sending, Http
    <2>2. ASSUME NEW answer \in Answers, Transport(answer), attempt' = attempt + 1,
                 \/ Accepts(answer) /\ Succeed
                 \/ ~Accepts(answer) /\ attempt' = Attempts /\ Fail
                 \/ ~Accepts(answer) /\ attempt' < Attempts /\ UNCHANGED callVars
          PROVE  Posted'
        BY <2>1, <2>2, PostMade DEF Accepts
    <2>3. CASE Fail /\ UNCHANGED httpVars
        BY <2>3, PostedStays DEF Fail, Return, httpVars
    <2>4. QED BY <1>2, <2>2, <2>3 DEF Post
<1>3. CASE EnsureRunning
    <2>1. ~Http BY <1>3 DEF EnsureRunning, Numbered, Http
    <2>2. received' = <<>> /\ flight' = {} /\ kind' = kind
        BY <1>3, <2>1 DEF EnsureRunning, Fail, Return, httpVars, Posted
    <2>3. QED BY <2>1, <2>2, NoReceipts
<1>4. CASE WriteFile \/ FinishFile \/ RestartFile \/ WritePlugin \/ FinishPlugin
    <2>1. ~Http
        BY <1>4 DEF WriteFile, FinishFile, RestartFile, WritePlugin, FinishPlugin, Sending, Http
    <2>2. received' = <<>> /\ flight' = {} /\ kind' = kind
        BY <1>4, <2>1 DEF WriteFile, FinishFile, RestartFile, WritePlugin, FinishPlugin, Rotate,
            Succeed, Fail, Return, WriteNext, httpVars, Posted
    <2>3. QED BY <2>1, <2>2, NoReceipts
<1>5. CASE PluginReads \/ PluginClosesStdin \/ BackoffEnds \/ UNCHANGED vars
           \/ \E c \in Children : PluginExits(c) \/ Reap(c)
    <2>1. UNCHANGED <<callVars, httpVars>>
        BY <1>5 DEF PluginReads, PluginClosesStdin, BackoffEnds, PluginExits, Reap, vars
    <2>2. QED BY <2>1, PostedStays DEF callVars, httpVars
<1>6. CASE BeginClose \/ EndClose
    BY <1>6, PostedStays DEF BeginClose, EndClose, httpVars
<1>7. QED BY <1>1, <1>2, <1>3, <1>4, <1>5, <1>6, LateArrives DEF Next
-----------------------------------------------------------------------------
(* The disk                                                                *)

(* Concatenation by a name the provers do not look into, and the disk from *)
(* its oldest half line to its newest.                                     *)
Cat(s, t) == s \o t
Disk == Cat(Cat(lost, old), live)

(* Line x begins at place i of disk d, which lost l and o half lines of    *)
(* the file before the last.                                               *)
PlacedAt(x, i, d, l, o) ==
    /\ i \in 1..(Len(d) - 1)
    /\ d[i] = <<x, 1>> /\ d[i + 1] = <<x, 2>>
    /\ i # l /\ i # l + o
    /\ i <= l => Len(d) - (i + 1) >= MaxBytes

(* Placed by these names, before and after a step.                         *)
LEMMA PlacedNow ==
    ASSUME NEW x, Placed(x)
    PROVE  \E i : PlacedAt(x, i, Disk, Len(lost), Len(old))
BY DEF Placed, PlacedAt, Disk, Cat

(* The converse, for the state a step leads to.                            *)
LEMMA PlacedThen ==
    ASSUME NEW x, NEW i, PlacedAt(x, i, Disk', Len(lost'), Len(old'))
    PROVE  Placed(x)'
BY DEF Placed, PlacedAt, Disk, Cat

(* What the proofs use of concatenation.                                   *)
LEMMA CatFacts ==
    ASSUME NEW S
    PROVE  /\ \A s, t \in Seq(S) :
                 /\ Cat(s, t) \in Seq(S) /\ Len(Cat(s, t)) = Len(s) + Len(t)
                 /\ \A i \in 1..Len(s) : Cat(s, t)[i] = s[i]
                 /\ \A i \in 1..Len(t) : Cat(s, t)[Len(s) + i] = t[i]
           /\ \A s \in Seq(S) : Cat(s, <<>>) = s
           /\ \A s, t, u \in Seq(S) : Cat(Cat(s, t), u) = Cat(s, Cat(t, u))
           /\ \A s \in Seq(S) : Len(s) \in Nat
<1>1. \A s, t \in Seq(S) : Cat(s, t) \in Seq(S) /\ Len(Cat(s, t)) = Len(s) + Len(t)
    BY ConcatProperties DEF Cat
<1>2. \A s, t \in Seq(S) : \A i \in 1..Len(s) : Cat(s, t)[i] = s[i]
    BY DEF Cat
<1>3. \A s, t \in Seq(S) : \A i \in 1..Len(t) : Cat(s, t)[Len(s) + i] = t[i]
    BY DEF Cat
<1>4. \A s \in Seq(S) : Cat(s, <<>>) = s
    BY ConcatEmptySeq DEF Cat
<1>5. \A s, t, u \in Seq(S) : Cat(Cat(s, t), u) = Cat(s, Cat(t, u))
    BY ConcatAssociative DEF Cat
<1>6. \A s \in Seq(S) : Len(s) \in Nat OBVIOUS
<1>7. QED BY <1>1, <1>2, <1>3, <1>4, <1>5, <1>6

(* The disk only grows, and a boundary already there stays where it is.    *)
LEMMA PlacesStay ==
    ASSUME NEW S, NEW d \in Seq(S), NEW e \in Seq(S), NEW l \in Nat, NEW o \in Nat,
           NEW x, NEW i, PlacedAt(x, i, d, l, o)
    PROVE  PlacedAt(x, i, Cat(d, e), l, o)
<1> DEFINE m == Len(d)
           n == Len(Cat(d, e))
<1>1. m \in Nat /\ n \in Nat /\ m <= n BY CatFacts
<1>2. i \in 1..(m - 1) /\ i \in 1..m /\ i + 1 \in 1..m BY <1>1 DEF PlacedAt
<1>3. Cat(d, e)[i] = d[i] /\ Cat(d, e)[i + 1] = d[i + 1]
    <2>1. \A k \in 1..Len(d) : Cat(d, e)[k] = d[k] BY CatFacts
    <2>2. QED BY <1>2, <2>1
<1>4. i <= l => m - (i + 1) >= MaxBytes BY DEF PlacedAt
<1>5. /\ d[i] = <<x, 1>> /\ d[i + 1] = <<x, 2>> /\ i # l /\ i # l + o BY DEF PlacedAt
<1> HIDE DEF m, n
<1>6. i \in 1..(n - 1) BY <1>1, <1>2
<1>7. MaxBytes \in Nat BY ExportersAssumption
<1>8. i <= l => n - (i + 1) >= MaxBytes BY <1>1, <1>2, <1>4, <1>7
<1>9. QED BY <1>3, <1>5, <1>6, <1>8 DEF PlacedAt, n

(* A rotation moves the boundaries: what is lost has the live file, which  *)
(* is full, behind it.                                                     *)
LEMMA PlacesRotate ==
    ASSUME NEW S, NEW d \in Seq(S), NEW l \in Nat, NEW o \in Nat, NEW v \in Nat,
           Len(d) = l + o + v, v >= MaxBytes,
           NEW x, NEW i, PlacedAt(x, i, d, l, o)
    PROVE  PlacedAt(x, i, d, l + o, v)
<1> DEFINE m == Len(d)
<1>1. i \in 1..(m - 1) /\ i # l + o /\ d[i] = <<x, 1>> /\ d[i + 1] = <<x, 2>>
    BY DEF PlacedAt
<1>2. m = l + o + v /\ MaxBytes \in Nat BY ExportersAssumption
<1> HIDE DEF m
<1>3. i # l + o + v BY <1>1, <1>2
<1>4. i <= l + o => m - (i + 1) >= MaxBytes BY <1>1, <1>2
<1>5. QED BY <1>1, <1>3, <1>4 DEF PlacedAt, m

(* A line that is written whole is placed.                                 *)
LEMMA PlacesNew ==
    ASSUME NEW S, NEW d \in Seq(S), NEW l \in Nat, NEW o \in Nat, NEW v \in Nat,
           Len(d) = l + o + v, NEW x, <<x, 1>> \in S, <<x, 2>> \in S
    PROVE  PlacedAt(x, Len(d) + 1, Cat(d, Halves(x)), l, o)
<1> DEFINE m == Len(d)
           h == Halves(x)
           e == Cat(d, h)
<1>1. h \in Seq(S) /\ Len(h) = 2 /\ h[1] = <<x, 1>> /\ h[2] = <<x, 2>> BY DEF Halves
<1> HIDE DEF h
<1>2. /\ m \in Nat /\ m = l + o + v /\ Len(e) = m + 2
    <2>1. Len(e) = Len(d) + Len(h) BY <1>1, ConcatProperties DEF Cat
    <2>2. QED BY <1>1, <2>1
<1>3. e[m + 1] = h[1] /\ e[m + 2] = h[2]
    <2>1. 1 \in 1..Len(h) /\ 2 \in 1..Len(h) BY <1>1
    <2>2. \A k \in 1..Len(h) : e[Len(d) + k] = h[k] BY <1>1, CatFacts
    <2>3. QED BY <2>1, <2>2
<1> HIDE DEF m, e
<1>4. /\ m + 1 \in 1..(Len(e) - 1) /\ (m + 1) + 1 = m + 2
      /\ m + 1 # l /\ m + 1 # l + o /\ ~(m + 1 <= l)
    BY <1>2
<1>5. PlacedAt(x, m + 1, e, l, o) BY <1>1, <1>3, <1>4 DEF PlacedAt
<1>6. QED BY <1>5 DEF e, m, h

(* The disk and its parts.                                                 *)
LEMMA DiskTypes ==
    ASSUME TypeOK
    PROVE  LET H == (1..MaxItems) \X {1, 2}
           IN  /\ Disk \in Seq(H) /\ live \in Seq(H) /\ old \in Seq(H) /\ lost \in Seq(H)
               /\ Len(Disk) = Len(lost) + Len(old) + Len(live)
               /\ Len(lost) \in Nat /\ Len(old) \in Nat /\ Len(live) \in Nat
<1> DEFINE H == (1..MaxItems) \X {1, 2}
<1>1. live \in Seq(H) /\ old \in Seq(H) /\ lost \in Seq(H) BY DEF TypeOK
<1> HIDE DEF H
<1>2. Cat(lost, old) \in Seq(H) /\ Len(Cat(lost, old)) = Len(lost) + Len(old)
    BY <1>1, CatFacts
<1>3. Disk \in Seq(H) /\ Len(Disk) = Len(Cat(lost, old)) + Len(live)
    <2> DEFINE c == Cat(lost, old)
    <2>1. c \in Seq(H) BY <1>2
    <2> HIDE DEF c
    <2>2. Cat(c, live) \in Seq(H) /\ Len(Cat(c, live)) = Len(c) + Len(live)
        BY <1>1, <2>1, CatFacts
    <2>3. QED BY <2>2 DEF Disk, c
<1>4. Len(lost) \in Nat /\ Len(old) \in Nat /\ Len(live) \in Nat BY <1>1, CatFacts
<1>5. QED BY <1>1, <1>2, <1>3, <1>4 DEF H

(* What is placed stays so while the files keep their order.               *)
LEMMA PlacedStays ==
    ASSUME NEW x, Placed(x), UNCHANGED <<live, old, lost>>
    PROVE  Placed(x)'
BY DEF Placed

(* Writing keeps what is placed; a whole line is placed as well.           *)
LEMMA WritePlaces ==
    ASSUME TypeOK, UNCHANGED <<old, lost>>, NEW y \in 1..MaxItems
    PROVE  /\ live' = live \o Halves(y) => Placed(y)' /\ \A x : Placed(x) => Placed(x)'
           /\ live' = Append(live, <<y, 1>>) => \A x : Placed(x) => Placed(x)'
<1> DEFINE H == (1..MaxItems) \X {1, 2}
           D == Disk
           l == Len(lost)
           o == Len(old)
           v == Len(live)
<1>1. /\ D \in Seq(H) /\ live \in Seq(H) /\ Cat(lost, old) \in Seq(H)
      /\ Len(D) = l + o + v /\ l \in Nat /\ o \in Nat /\ v \in Nat
    <2>1. /\ D \in Seq(H) /\ live \in Seq(H) /\ old \in Seq(H) /\ lost \in Seq(H)
          /\ Len(D) = l + o + v /\ l \in Nat /\ o \in Nat /\ v \in Nat
        BY DiskTypes
    <2> HIDE DEF H
    <2>2. Cat(lost, old) \in Seq(H) BY <2>1, CatFacts
    <2>3. QED BY <2>1, <2>2
<1>2. <<y, 1>> \in H /\ <<y, 2>> \in H BY DEF H
<1>3. Halves(y) \in Seq(H) /\ <<<<y, 1>>>> \in Seq(H) BY <1>2 DEF Halves
<1> HIDE DEF H
<1>4. \A t \in Seq(H) : Cat(Cat(lost, old), Cat(live, t)) = Cat(D, t)
    BY <1>1, CatFacts DEF Disk
<1>5. ASSUME NEW t \in Seq(H), live' = Cat(live, t) PROVE Disk' = Cat(D, t)
    BY <1>4, <1>5 DEF Disk
<1>6. Append(live, <<y, 1>>) = Cat(live, <<<<y, 1>>>>)
    BY <1>1, <1>2, AppendIsConcat DEF Cat
<1>7. live \o Halves(y) = Cat(live, Halves(y)) BY DEF Cat
<1>8. ASSUME NEW t \in Seq(H), live' = Cat(live, t), NEW x, Placed(x) PROVE Placed(x)'
    <2>1. PICK i : PlacedAt(x, i, D, l, o)
        <3>1. \E i : PlacedAt(x, i, Disk, Len(lost), Len(old)) BY <1>8, PlacedNow
        <3>2. QED BY <3>1
    <2>2. Disk' = Cat(D, t) /\ Len(lost') = l /\ Len(old') = o BY <1>5, <1>8
    <2> HIDE DEF D, l, o
    <2>3. PlacedAt(x, i, Cat(D, t), l, o) BY <1>1, <2>1, PlacesStay
    <2>4. PlacedAt(x, i, Disk', Len(lost'), Len(old')) BY <2>2, <2>3
    <2>5. QED BY <2>4, PlacedThen
<1>9. ASSUME live' = Cat(live, Halves(y)) PROVE Placed(y)'
    <2> DEFINE n == Len(D) + 1
    <2>1. PlacedAt(y, n, Cat(D, Halves(y)), l, o)
        <3> HIDE DEF D, l, o, v
        <3>1. PlacedAt(y, Len(D) + 1, Cat(D, Halves(y)), l, o) BY <1>1, <1>2, PlacesNew
        <3>2. QED BY <3>1
    <2>2. Disk' = Cat(D, Halves(y)) /\ Len(lost') = l /\ Len(old') = o BY <1>3, <1>5, <1>9
    <2> HIDE DEF D, l, o, n
    <2>3. PlacedAt(y, n, Disk', Len(lost'), Len(old')) BY <2>1, <2>2
    <2>4. QED BY <2>3, PlacedThen
<1>10. QED BY <1>3, <1>6, <1>7, <1>8, <1>9

(* A rotation of a full file keeps what is placed, too.                    *)
LEMMA RotatePlaces ==
    ASSUME TypeOK, old' = live, live' = <<>>, lost' = lost \o old, Len(live) >= MaxBytes,
           NEW x, Placed(x)
    PROVE  Placed(x)'
<1> DEFINE H == (1..MaxItems) \X {1, 2}
           D == Disk
           l == Len(lost)
           o == Len(old)
           v == Len(live)
<1>1. /\ D \in Seq(H) /\ live \in Seq(H) /\ old \in Seq(H) /\ lost \in Seq(H)
      /\ Len(D) = l + o + v /\ l \in Nat /\ o \in Nat /\ v \in Nat
    BY DiskTypes
<1> HIDE DEF H
<1>2. Disk' = D /\ Len(lost') = l + o /\ Len(old') = v
    <2>1. lost' = Cat(lost, old) BY DEF Cat
    <2>2. Disk' = Cat(Cat(Cat(lost, old), live), <<>>) BY <2>1 DEF Disk
    <2>3. Cat(D, <<>>) = D BY <1>1, CatFacts
    <2>4. Len(lost') = l + o BY <1>1, <2>1, CatFacts
    <2>5. QED BY <2>2, <2>3, <2>4 DEF Disk
<1>3. PICK i : PlacedAt(x, i, D, l, o)
    <2>1. \E i : PlacedAt(x, i, Disk, Len(lost), Len(old)) BY PlacedNow
    <2>2. QED BY <2>1
<1>4. v >= MaxBytes OBVIOUS
<1> HIDE DEF D, l, o, v
<1>5. PlacedAt(x, i, D, l + o, v) BY <1>1, <1>3, <1>4, PlacesRotate
<1>6. PlacedAt(x, i, Disk', Len(lost'), Len(old')) BY <1>2, <1>5
<1>7. QED BY <1>6, PlacedThen

(* Every line of the batch that is not ahead is on the disk, and lines     *)
(* that were confirmed stay where they are, whichever step fails.          *)
LEMMA StepOnDisk == TypeOK /\ Numbered /\ OnDisk /\ [Next]_vars => OnDisk'
<1> SUFFICES ASSUME TypeOK, Numbered, OnDisk, [Next]_vars, (kind = "file")'
             PROVE  OnDisk'
    BY DEF OnDisk
<1>1. kind = "file"
    <2>1. kind' = kind
        BY DEF Next, vars, callVars, Call, Post, ArriveLate, WriteFile, FinishFile, Rotate,
            RestartFile, EnsureRunning, WritePlugin, FinishPlugin, PluginReads, PluginClosesStdin,
            BackoffEnds, PluginExits, Reap, BeginClose, EndClose, Succeed, Fail, Return, WriteNext
    <2>2. QED BY <2>1
<1>2. /\ \A x \in delivered : Placed(x)
      /\ \A x \in Lines : Placed(x) \/ \E j \in DOMAIN rest : rest[j] = x
      /\ open => written <= Len(live)
      /\ op = "sending" /\ rest = <<>> => open
    BY <1>1 DEF OnDisk
<1>3. /\ rest \in Seq(1..MaxItems) /\ Len(live) \in Nat /\ written \in Nat
    BY DiskTypes DEF TypeOK
<1>4. DOMAIN <<>> = {} OBVIOUS
<1>5. ASSUME NEW s \in {"records", "lines"}, NEW k \in 1..BatchSize, Call(s, k)
      PROVE  OnDisk'
    <2>1. rest' = batch' /\ batch' # <<>> BY <1>5, CallBegins
    <2>2. UNCHANGED <<delivered, open, written, live, old, lost>> BY <1>5 DEF Call, fileVars
    <2>3. \A x \in delivered' : Placed(x)' BY <1>2, <2>2, PlacedStays
    <2>4. \A x \in Lines' : \E j \in DOMAIN rest' : rest'[j] = x BY <2>1 DEF Lines
    <2>5. QED BY <1>2, <2>1, <2>2, <2>3, <2>4 DEF OnDisk
<1>6. CASE WriteFile
    <2>0. PICK y \in 1..MaxItems : y = Head(rest) BY <1>3, <1>6, FirstLine DEF WriteFile
    <2>1. y = rest[1] /\ rest # <<>> /\ UNCHANGED <<old, lost>>
        BY <1>3, <1>6, <2>0, FirstLine DEF WriteFile
    <2>2. \A i \in DOMAIN rest : i # 1 => \E j \in DOMAIN Tail(rest) : Tail(rest)[j] = rest[i]
        <3>1. /\ \A j \in DOMAIN Tail(rest) : Tail(rest)[j] = rest[j + 1]
              /\ \A i \in DOMAIN rest : i # 1 => i - 1 \in DOMAIN Tail(rest)
            BY <1>3, <2>1, TailFacts
        <3>2. \A i \in DOMAIN rest : (i - 1) + 1 = i BY <1>3, Elements
        <3>3. QED BY <3>1, <3>2
    <2>3. CASE live' = live \o Halves(y) /\ written' = written + 2 /\ WriteNext /\ open
        <3>1. Placed(y)' /\ \A x : Placed(x) => Placed(x)' BY <2>1, <2>3, WritePlaces
        <3>2. UNCHANGED <<op, batch, delivered, open>> /\ rest' = Tail(rest)
            BY <1>6, <2>3 DEF WriteFile, WriteNext
        <3>3. ASSUME NEW x \in Lines PROVE Placed(x)' \/ \E j \in DOMAIN rest' : rest'[j] = x
            <4>1. CASE Placed(x) BY <3>1, <4>1
            <4>2. ASSUME NEW j \in DOMAIN rest, rest[j] = x
                  PROVE  Placed(x)' \/ \E m \in DOMAIN rest' : rest'[m] = x
                <5>1. CASE j = 1 BY <2>1, <3>1, <4>2, <5>1
                <5>2. CASE j # 1 BY <2>2, <3>2, <4>2, <5>2
                <5>3. QED BY <5>1, <5>2
            <4>3. QED BY <1>2, <4>1, <4>2
        <3>4. Lines' = Lines BY <3>2 DEF Lines
        <3>5. written' <= Len(live')
            <4> DEFINE H == (1..MaxItems) \X {1, 2}
            <4>1. live \in Seq(H) BY DEF TypeOK
            <4>2. Len(Halves(y)) = 2 /\ Halves(y) \in Seq(H) BY <2>1 DEF Halves
            <4> DEFINE h == Halves(y)
            <4> HIDE DEF H, h
            <4>3. Len(live \o h) = Len(live) + Len(h) BY <4>1, <4>2, ConcatProperties DEF h
            <4>5. Len(live') = Len(live) + 2 BY <2>3, <4>2, <4>3 DEF h
            <4>6. QED BY <1>2, <1>3, <2>3, <4>5
        <3>6. QED BY <1>2, <2>3, <3>1, <3>2, <3>3, <3>4, <3>5 DEF OnDisk
    <2>4. CASE (live' = live \/ live' = Append(live, <<y, 1>>)) /\ written' = written /\ Fail
        <3>1. \A x : Placed(x) => Placed(x)'
            <4>1. CASE live' = live BY <2>1, <4>1, PlacedStays
            <4>2. CASE live' = Append(live, <<y, 1>>) BY <2>1, <4>2, WritePlaces
            <4>3. QED BY <2>4, <4>1, <4>2
        <3>2. UNCHANGED <<delivered, open>> /\ op' = "idle" /\ batch' = <<>>
            BY <1>6, <2>4 DEF WriteFile, Fail, Return
        <3>3. Lines' = {} BY <3>2, <1>4 DEF Lines
        <3>4. open' => written' <= Len(live')
            <4>1. live \in Seq((1..MaxItems) \X {1, 2}) BY DEF TypeOK
            <4>2. <<y, 1>> \in (1..MaxItems) \X {1, 2} BY <2>1
            <4>3. Len(Append(live, <<y, 1>>)) = Len(live) + 1 BY <4>1, <4>2
            <4>4. QED BY <1>2, <1>3, <2>4, <3>2, <4>3
        <3>5. QED BY <1>2, <3>1, <3>2, <3>3, <3>4 DEF OnDisk
    <2>5. QED BY <1>6, <2>0, <2>3, <2>4 DEF WriteFile
<1>7. CASE FinishFile
    <2>1. op = "sending" /\ rest = <<>> BY <1>7 DEF FinishFile, Sending
    <2>2. open /\ \A x \in Lines : Placed(x) BY <1>2, <1>4, <2>1
    <2>3. Succeed \/ Fail BY <1>7 DEF FinishFile, Rotate
    <2>4. /\ op' = "idle" /\ Lines' = {}
          /\ delivered' = delivered \/ delivered' = delivered \cup Lines
        BY <1>4, <2>3 DEF Succeed, Fail, Return, Lines
    <2>5. CASE UNCHANGED <<live, old, lost>> /\ (open' => written' <= Len(live'))
        BY <1>2, <2>2, <2>4, <2>5, PlacedStays DEF OnDisk
    <2>6. CASE /\ old' = live /\ live' = <<>> /\ lost' = lost \o old /\ written >= MaxBytes
               /\ open' => written' = Len(live')
        <3>1. Len(live) >= MaxBytes
            BY <1>2, <1>3, <2>2, <2>6, ExportersAssumption
        <3>2. \A x : Placed(x) => Placed(x)' BY <2>6, <3>1, RotatePlaces
        <3>3. Len(live') = 0 BY <2>6
        <3>4. QED BY <1>2, <2>2, <2>4, <2>6, <3>2, <3>3 DEF OnDisk
    <2>7. QED BY <1>2, <1>7, <2>5, <2>6 DEF FinishFile, Rotate, Reopen, fileVars
<1>8. CASE RestartFile
    <2>1. UNCHANGED <<live, old, lost, delivered>> /\ op' = "idle" /\ written' = Len(live')
          /\ Lines' = {}
        BY <1>4, <1>8 DEF RestartFile, Reopen, Lines
    <2>2. QED BY <1>2, <1>3, <2>1, PlacedStays DEF OnDisk
<1>9. CASE BeginClose \/ EndClose
    <2>1. UNCHANGED <<live, old, lost, delivered, written, rest>> /\ op' # "sending"
          /\ (open' => open) /\ Lines' = Lines
        BY <1>9 DEF BeginClose, EndClose, fileVars, Lines
    <2>2. QED BY <1>2, <2>1, PlacedStays DEF OnDisk
<1>10. CASE UNCHANGED <<callVars, fileVars>>
    <2>1. UNCHANGED <<live, old, lost, delivered, written, rest, op, open>> /\ Lines' = Lines
        BY <1>10 DEF callVars, fileVars, Lines
    <2>2. QED BY <1>2, <2>1, PlacedStays DEF OnDisk
<1>11. ~Post /\ ~EnsureRunning /\ ~WritePlugin /\ ~FinishPlugin
    BY <1>1 DEF Post, EnsureRunning, WritePlugin, FinishPlugin, Sending, Numbered
<1>12. ArriveLate \/ PluginReads \/ PluginClosesStdin \/ BackoffEnds \/ UNCHANGED vars
           \/ (\E c \in Children : PluginExits(c) \/ Reap(c)) => UNCHANGED <<callVars, fileVars>>
    BY DEF ArriveLate, PluginReads, PluginClosesStdin, BackoffEnds, PluginExits, Reap, vars
<1>13. QED BY <1>5, <1>6, <1>7, <1>8, <1>9, <1>10, <1>11, <1>12 DEF Next
-----------------------------------------------------------------------------
(* The initial states, and the invariant of the whole specification.       *)
LEMMA InitHolds == Init => IInv
<1> SUFFICES ASSUME Init PROVE IInv OBVIOUS
<1> USE DEF Init
<1>1. TypeOK
    <2>1. BatchSize \in Nat /\ MaxItems \in Nat \ {0} /\ MaxChildren \in Nat /\ kind \in Kinds
        BY ExportersAssumption
    <2>2. 1 \in 1..(MaxItems + 1) /\ 0 \in 0..MaxChildren BY <2>1
    <2>3. \A S : <<>> \in Seq(S) OBVIOUS
    <2>4. next \in 1..(MaxItems + 1) /\ cmd \in 0..MaxChildren BY <2>2
    <2>5. delivered \cup failed \subseteq 1..MaxItems BY Zenon
    <2>6. alive \cup reaped \cup deaf \cup killed \subseteq Children BY Zenon
    <2>7. {live, old, lost} \subseteq Seq((1..MaxItems) \X {1, 2}) BY <2>3, Zenon
    <2>8. {open, eof, cooled} \subseteq BOOLEAN OBVIOUS
    <2>9. attempt \in 0..2 /\ flight \subseteq Posts /\ written \in Nat OBVIOUS
    <2>10. /\ kind \in Kinds /\ op \in {"idle", "starting", "sending", "closing", "returned"}
           /\ stream \in {"records", "lines"}
        BY <2>1
    <2>11. /\ batch \in Seq(1..MaxItems) /\ rest \in Seq(1..MaxItems) /\ received \in Seq(Posts)
           /\ pipe \in Seq(1..MaxItems) /\ got \in Seq(1..MaxItems)
        BY <2>3, Zenon
    <2>12. QED BY <2>4, <2>5, <2>6, <2>7, <2>8, <2>9, <2>10, <2>11, Zenon DEF TypeOK
<1>2. DOMAIN <<>> = {} OBVIOUS
<1>3. Numbered BY DEF Numbered
<1>4. OneChild BY DEF OneChild
<1>5. InOrder BY <1>2 DEF InOrder, Rising, Before, Under
<1>6. Posted
    <2>1. Sent = {} BY <1>2 DEF Sent
    <2>2. Confirmed = {} BY <1>2 DEF Confirmed
    <2>3. QED BY <1>2, <2>1, <2>2 DEF Posted
<1>7. OnDisk
    <2>1. Lines = {} BY <1>2 DEF Lines
    <2>2. Len(live) = 0 OBVIOUS
    <2>3. QED BY <2>1, <2>2 DEF OnDisk
<1>8. QED BY <1>1, <1>3, <1>4, <1>5, <1>6, <1>7 DEF IInv

(* The strengthening is an invariant.                                      *)
LEMMA InvHolds == Spec => []IInv
<1>1. IInv /\ [Next]_vars => IInv'
    <2> SUFFICES ASSUME IInv, [Next]_vars PROVE IInv' OBVIOUS
    <2>1. TypeOK /\ Numbered /\ OneChild /\ InOrder /\ Posted /\ OnDisk BY DEF IInv
    <2>2. TypeOK => CallTypes /\ HttpTypes /\ FileTypes /\ PluginTypes BY TypeParts
    <2>3. CallTypes' /\ HttpTypes' /\ FileTypes' /\ PluginTypes'
        BY <2>1, StepCallTypes, StepHttpTypes, StepFileTypes, StepPluginTypes
    <2>4. TypeOK' BY <2>3, TypeParts, PTL
    <2>5. Numbered' /\ OneChild' /\ InOrder' BY <2>1, StepNumbered, StepOneChild, StepInOrder
    <2>6. Posted' /\ OnDisk' BY <2>1, StepPosted, StepOnDisk
    <2>7. QED BY <2>4, <2>5, <2>6 DEF IInv
<1>2. QED BY <1>1, InitHolds, PTL DEF Spec

(* Whatever crashes, kills and respawns there are, at most one plugin      *)
(* process runs at a time, and what the plugin processes read between them *)
(* is in export order with no line twice (command.go, ensureRunning).      *)
THEOREM PluginCorrect == Spec => []PluginStream
<1>1. ASSUME IInv PROVE PluginStream
    <2>1. TypeOK /\ OneChild /\ InOrder BY <1>1 DEF IInv
    <2>2. IsFiniteSet({cmd}) /\ Cardinality({cmd}) = 1 BY FS_Singleton
    <2>3. alive \subseteq {cmd} BY <2>1 DEF OneChild
    <2>4. Cardinality(alive) <= 1 BY <2>2, <2>3, FS_Subset
    <2>5. QED BY <2>1, <2>4 DEF PluginStream, InOrder, Rising
<1>2. QED BY <1>1, InvHolds, PTL

(* However late the POSTs arrive that the client gave up on, the receiver  *)
(* gets a batch at most once per attempt and no attempt later than a       *)
(* confirmed one, the answered POSTs come in the order of the batches, and *)
(* the lines counted delivered are those of the confirmed POSTs            *)
(* (webhook.go and otlp.go, Export).                                       *)
THEOREM WebhookCorrect == Spec => []ReceiverConfirms
<1>1. ASSUME IInv PROVE ReceiverConfirms
    <2>1. Posted BY <1>1 DEF IInv
    <2>2. \A i \in DOMAIN received : received[i] \in Sent BY DEF Sent
    <2>3. \A i \in DOMAIN received : received[i].try <= Attempts BY <2>1, <2>2 DEF Posted
    <2>4. \A i, j \in DOMAIN received : i # j =>
              Apart(received[i], received[j]) /\ Apart(received[j], received[i])
        BY <2>1, <2>2 DEF Posted
    <2>5. QED BY <2>1, <2>3, <2>4 DEF ReceiverConfirms, Posted, Http
<1>2. QED BY <1>1, InvHolds, PTL

(* A line whose export succeeded is whole on the disk, or a rotation       *)
(* overwrote it only after a full file had been written behind it,         *)
(* whatever writes, renames and opens failed (file.go, Export and rotate). *)
THEOREM FileCorrect == Spec => []RotationWindow
<1>1. IInv => RotationWindow BY DEF IInv, OnDisk, Placed, RotationWindow
<1>2. QED BY <1>1, InvHolds, PTL
=============================================================================
