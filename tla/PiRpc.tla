------------------------------- MODULE PiRpc -------------------------------
(***************************************************************************)
(* The transport between the adapter and the Pi child process: requests    *)
(* with a table of pending answers and timeouts, and the four tasks that   *)
(* PiRpc::spawn starts (writer, stdout reader, stderr reader, exit         *)
(* coordinator).                                                           *)
(*                                                                         *)
(* The tasks run on a multi-threaded runtime, so a step here is one        *)
(* operation on shared state (a lock, a channel, a pipe), not a stretch    *)
(* between two awaits.  A oneshot response channel of a request is the     *)
(* pair of "where is its sender" (`pending`, `drained`, or used) and       *)
(* `channel`, what was sent.                                               *)
(***************************************************************************)
EXTENDS Naturals, Sequences, FiniteSets

CONSTANTS
  Requests,       \* calls of PiRpc::request, each with its own id
  Untimed,        \* those of them without a timeout (bash, compact)
  Notes,          \* calls of PiRpc::notify
  Killers,        \* calls of PiRpc::kill
  None,           \* no id
  StderrCapacity, \* lines the stderr ring keeps (code: 32)
  MaxStderr,      \* bound: lines Pi writes to stderr
  MaxLines        \* bound: lines on Pi's stdout that answer no request

Calls == Requests \cup Notes

ASSUME CallsAssumption ==
  /\ Untimed \subseteq Requests
  /\ Requests \cap Notes = {}
  /\ None \notin Requests
  /\ "event" \notin Requests
  /\ "diagnostic" \notin Requests
  /\ "exit" \notin Requests

ASSUME LimitsAssumption ==
  /\ StderrCapacity \in Nat \ {0}
  /\ MaxStderr \in Nat
  /\ MaxLines \in Nat

VARIABLES
  call,        \* [Calls -> pc of the call]
  result,      \* [Calls -> what the call returned]
  pending,     \* ids whose response sender is in the pending table
  channel,     \* [Requests -> what was sent on the response channel]
  writer,      \* commands in the writer channel
  writer_open, \* is the writer task still receiving?
  got,         \* requests that reached Pi's stdin
  verdict,     \* [Requests -> what Pi decided]
  alive,       \* does the process live?
  stdout,      \* lines Pi wrote and the reader did not take yet
  lines,       \* how many of Pi's lines were not answers
  reading,     \* does the reader task still read?
  events,      \* what was put into the event channel (as a set)
  err_written, \* lines Pi wrote to stderr
  err_read,    \* those the stderr reader took
  ring,        \* StderrRingBuffer.lines, a line is its number
  stderr_done, \* has the stderr reader signalled that it is done?
  err_broken,  \* did it stop at a line it could not read?
  exit,        \* pc of the exit coordinator
  drained,     \* ids whose senders fail_pending took from the table
  message,     \* stderr part of the exit diagnostic
  complete,    \* did the coordinator see the end of stderr?
  child,       \* who holds the mutex of the child handle
  killer       \* [Killers -> pc of kill]

callVars == <<call, result>>
tableVars == <<pending, channel>>
writerVars == <<writer, writer_open>>
piVars == <<got, verdict, alive, lines>>
readerVars == <<reading, events>>
stderrVars == <<err_read, ring, stderr_done, err_broken>>
exitVars == <<exit, drained, message, complete>>
killVars == <<child, killer>>
vars == <<callVars, tableVars, writerVars, piVars, stdout, readerVars,
          err_written, stderrVars, exitVars, killVars>>

Answers == {"ok", "refused"}

Line(kind, id) == [kind |-> kind, id |-> id]

Lines == [kind : Answers, id : Requests]
           \cup [kind : {"event", "garbled", "broken"}, id : {None}]

TypeOK ==
  /\ call \in [Calls -> {"new", "send", "await", "expired", "done"}]
  /\ result \in [Calls -> {"none", "data", "refused", "exit", "closed",
                           "timeout", "sent"}]
  /\ pending \in SUBSET Requests
  /\ channel \in [Requests -> Answers \cup {"empty", "exit"}]
  /\ writer \in Seq(Calls)
  /\ writer_open \in BOOLEAN
  /\ got \in SUBSET Requests
  /\ verdict \in [Requests -> Answers \cup {"none"}]
  /\ alive \in BOOLEAN
  /\ stdout \in Seq(Lines)
  /\ lines \in 0..MaxLines
  /\ reading \in BOOLEAN
  /\ events \in SUBSET (Requests \cup {"event", "diagnostic", "exit"})
  /\ err_written \in 0..MaxStderr
  /\ err_read \in 0..err_written
  /\ ring \in Seq(1..MaxStderr) /\ Len(ring) <= StderrCapacity
  /\ stderr_done \in BOOLEAN
  /\ err_broken \in BOOLEAN
  /\ exit \in {"lock", "wait", "drain", "fail", "send", "done"}
  /\ drained \in SUBSET Requests
  /\ message \in Seq(1..MaxStderr)
  /\ complete \in BOOLEAN
  /\ child \in {"free", "exit"} \cup Killers
  /\ killer \in [Killers -> {"new", "lock", "wait", "done"}]

\* PiRpc::spawn: the process runs, the tasks are started, nothing is pending.
Init ==
  /\ call = [c \in Calls |-> "new"]
  /\ result = [c \in Calls |-> "none"]
  /\ pending = {}
  /\ channel = [r \in Requests |-> "empty"]
  /\ writer = <<>>
  /\ writer_open = TRUE
  /\ got = {}
  /\ verdict = [r \in Requests |-> "none"]
  /\ alive = TRUE
  /\ stdout = <<>>
  /\ lines = 0
  /\ reading = TRUE
  /\ events = {}
  /\ err_written = 0
  /\ err_read = 0
  /\ ring = <<>>
  /\ stderr_done = FALSE
  /\ err_broken = FALSE
  /\ exit = "lock"
  /\ drained = {}
  /\ message = <<>>
  /\ complete = FALSE
  /\ child = "free"
  /\ killer = [k \in Killers |-> "new"]

----------------------------------------------------------------------------
(***************************************************************************)
(* request: the sender is registered, then the command is handed to the    *)
(* writer, then the call waits for the response channel.                   *)
(***************************************************************************)

has_timeout_never(r) == FALSE

\* request_timeout: bash and compact stay open until they are answered.
has_timeout(r) == r \notin Untimed

Returns(c, a) ==
  /\ call' = [call EXCEPT ![c] = "done"]
  /\ result' = [result EXCEPT ![c] = a]

requestRegister_skipped(r) ==
  /\ call[r] = "new"
  /\ call' = [call EXCEPT ![r] = "send"]
  /\ UNCHANGED <<result, tableVars, writerVars, piVars, stdout, readerVars,
                 err_written, stderrVars, exitVars, killVars>>

requestRegister(r) ==
  /\ call[r] = "new"
  /\ pending' = pending \cup {r}
  /\ call' = [call EXCEPT ![r] = "send"]
  /\ UNCHANGED <<result, channel, writerVars, piVars, stdout, readerVars,
                 err_written, stderrVars, exitVars, killVars>>

requestSend(r) ==
  /\ call[r] = "send"
  /\ \/ /\ writer_open
        /\ writer' = Append(writer, r)
        /\ call' = [call EXCEPT ![r] = "await"]
        /\ UNCHANGED <<result, pending>>
     \/ /\ ~writer_open
        /\ pending' = pending \ {r}
        /\ Returns(r, "closed")
        /\ UNCHANGED writer
  /\ UNCHANGED <<channel, writer_open, piVars, stdout, readerVars,
                 err_written, stderrVars, exitVars, killVars>>

\* The channel delivered.  success = false is an error for the caller, and so
\* is what fail_pending sent.
requestReceive_unchecked(r) ==
  /\ call[r] = "await"
  /\ channel[r] # "empty"
  /\ Returns(r, IF channel[r] = "exit" THEN "exit" ELSE "data")
  /\ UNCHANGED <<tableVars, writerVars, piVars, stdout, readerVars,
                 err_written, stderrVars, exitVars, killVars>>

requestReceive(r) ==
  /\ call[r] = "await"
  /\ channel[r] # "empty"
  /\ Returns(r, IF channel[r] = "ok" THEN "data" ELSE channel[r])
  /\ UNCHANGED <<tableVars, writerVars, piVars, stdout, readerVars,
                 err_written, stderrVars, exitVars, killVars>>

\* The timer fires while the channel is empty; the sender is removed from the
\* table in a step of its own, and an answer in between is dropped.
requestTimeout(r) ==
  /\ call[r] = "await"
  /\ has_timeout(r)
  /\ channel[r] = "empty"
  /\ call' = [call EXCEPT ![r] = "expired"]
  /\ UNCHANGED <<result, tableVars, writerVars, piVars, stdout, readerVars,
                 err_written, stderrVars, exitVars, killVars>>

requestExpired_leak(r) ==
  /\ call[r] = "expired"
  /\ Returns(r, "timeout")
  /\ UNCHANGED <<tableVars, writerVars, piVars, stdout, readerVars,
                 err_written, stderrVars, exitVars, killVars>>

requestExpired(r) ==
  /\ call[r] = "expired"
  /\ pending' = pending \ {r}
  /\ Returns(r, "timeout")
  /\ UNCHANGED <<channel, writerVars, piVars, stdout, readerVars,
                 err_written, stderrVars, exitVars, killVars>>

notify(n) ==
  /\ call[n] = "new"
  /\ \/ /\ writer_open
        /\ writer' = Append(writer, n)
        /\ Returns(n, "sent")
     \/ /\ ~writer_open
        /\ Returns(n, "closed")
        /\ UNCHANGED writer
  /\ UNCHANGED <<tableVars, writer_open, piVars, stdout, readerVars,
                 err_written, stderrVars, exitVars, killVars>>

----------------------------------------------------------------------------
(***************************************************************************)
(* The tasks of spawn.                                                     *)
(***************************************************************************)

\* The writer task writes the next command to stdin; a write to a process
\* that is gone fails, and the task ends with whatever is still queued.
writerTask ==
  /\ writer_open
  /\ writer # <<>>
  /\ \/ /\ alive
        /\ writer' = Tail(writer)
        /\ got' = got \cup ({Head(writer)} \cap Requests)
        /\ UNCHANGED writer_open
     \/ /\ ~alive
        /\ writer' = <<>>
        /\ writer_open' = FALSE
        /\ UNCHANGED got
  /\ UNCHANGED <<callVars, tableVars, verdict, alive, lines, stdout,
                 readerVars, err_written, stderrVars, exitVars, killVars>>

\* A response whose id is pending goes to its caller, under the table's lock;
\* any other value is an event.
Dispatch_both(l) ==
  /\ pending' = pending \ {l.id}
  /\ channel' = IF l.id \in pending
                THEN [channel EXCEPT ![l.id] = l.kind] ELSE channel
  /\ events' = events \cup {IF l.kind = "event" THEN "event" ELSE l.id}

Dispatch(l) ==
  \/ /\ l.id \in pending
     /\ pending' = pending \ {l.id}
     /\ channel' = [channel EXCEPT ![l.id] = l.kind]
     /\ UNCHANGED events
  \/ /\ l.id \notin pending
     /\ events' = events \cup {IF l.kind = "event" THEN "event" ELSE l.id}
     /\ UNCHANGED tableVars

\* The reader takes one line: invalid JSON becomes a diagnostic, a line that
\* cannot be read at all ends the task.
readerTask ==
  /\ reading
  /\ stdout # <<>>
  /\ stdout' = Tail(stdout)
  /\ \/ /\ Head(stdout).kind \in Answers \cup {"event"}
        /\ Dispatch(Head(stdout))
        /\ UNCHANGED reading
     \/ /\ Head(stdout).kind = "garbled"
        /\ events' = events \cup {"diagnostic"}
        /\ UNCHANGED <<tableVars, reading>>
     \/ /\ Head(stdout).kind = "broken"
        /\ reading' = FALSE
        /\ UNCHANGED <<tableVars, events>>
  /\ UNCHANGED <<callVars, writerVars, piVars, err_written, stderrVars,
                 exitVars, killVars>>

\* End of stdout: the pending requests are left to the exit coordinator.
readerEnd ==
  /\ reading
  /\ ~alive
  /\ stdout = <<>>
  /\ reading' = FALSE
  /\ UNCHANGED <<callVars, tableVars, writerVars, piVars, stdout, events,
                 err_written, stderrVars, exitVars, killVars>>

\* StderrRingBuffer::push
RingPush_late(s, l) ==
  Append(IF Len(s) > StderrCapacity THEN Tail(s) ELSE s, l)

RingPush(s, l) ==
  Append(IF Len(s) >= StderrCapacity THEN Tail(s) ELSE s, l)

stderrRead ==
  /\ ~stderr_done
  /\ err_read < err_written
  /\ err_read' = err_read + 1
  /\ ring' = RingPush(ring, err_read + 1)
  /\ UNCHANGED <<callVars, tableVars, writerVars, piVars, stdout, readerVars,
                 err_written, stderr_done, err_broken, exitVars, killVars>>

\* The stderr reader is done at the end of the stream, or at the first line
\* that it cannot read.
stderrEnd ==
  /\ ~stderr_done
  /\ \/ /\ ~alive
        /\ err_read = err_written
        /\ UNCHANGED err_broken
     \/ /\ err_read < err_written
        /\ err_broken' = TRUE
  /\ stderr_done' = TRUE
  /\ UNCHANGED <<callVars, tableVars, writerVars, piVars, stdout, readerVars,
                 err_written, err_read, ring, exitVars, killVars>>

\* The exit coordinator locks the child handle and keeps the lock while it
\* waits for the process.
exitLock ==
  /\ exit = "lock"
  /\ child = "free"
  /\ child' = "exit"
  /\ exit' = "wait"
  /\ UNCHANGED <<callVars, tableVars, writerVars, piVars, stdout, readerVars,
                 err_written, stderrVars, drained, message, complete, killer>>

exitReaped ==
  /\ exit = "wait"
  /\ ~alive
  /\ child' = "free"
  /\ exit' = "drain"
  /\ UNCHANGED <<callVars, tableVars, writerVars, piVars, stdout, readerVars,
                 err_written, stderrVars, drained, message, complete, killer>>

\* It waits for the end of stderr, two seconds at most, and takes the ring.
exitDrained_early ==
  /\ exit = "drain"
  /\ complete' = TRUE
  /\ message' = ring
  /\ exit' = "fail"
  /\ UNCHANGED <<callVars, tableVars, writerVars, piVars, stdout, readerVars,
                 err_written, stderrVars, drained, killVars>>

exitDrained ==
  /\ exit = "drain"
  /\ stderr_done
  /\ complete' = ~err_broken
  /\ message' = ring
  /\ exit' = "fail"
  /\ UNCHANGED <<callVars, tableVars, writerVars, piVars, stdout, readerVars,
                 err_written, stderrVars, drained, killVars>>

exitDrainTimeout_never ==
  FALSE /\ UNCHANGED vars

exitDrainTimeout ==
  /\ exit = "drain"
  /\ ~stderr_done
  /\ message' = ring
  /\ exit' = "fail"
  /\ UNCHANGED <<callVars, tableVars, writerVars, piVars, stdout, readerVars,
                 err_written, stderrVars, drained, complete, killVars>>

\* fail_pending takes all senders under the lock ...
fail_pending_dropped ==
  /\ exit = "fail"
  /\ pending' = {}
  /\ exit' = "send"
  /\ UNCHANGED <<callVars, channel, writerVars, piVars, stdout, readerVars,
                 err_written, stderrVars, drained, message, complete,
                 killVars>>

fail_pending ==
  /\ exit = "fail"
  /\ drained' = pending
  /\ pending' = {}
  /\ exit' = "send"
  /\ UNCHANGED <<callVars, channel, writerVars, piVars, stdout, readerVars,
                 err_written, stderrVars, message, complete, killVars>>

\* ... and uses them one after another, without it.
failOne(r) ==
  /\ exit = "send"
  /\ r \in drained
  /\ drained' = drained \ {r}
  /\ channel' = [channel EXCEPT ![r] = "exit"]
  /\ UNCHANGED <<callVars, pending, writerVars, piVars, stdout, readerVars,
                 err_written, stderrVars, exit, message, complete, killVars>>

exitReport ==
  /\ exit = "send"
  /\ drained = {}
  /\ events' = events \cup {"exit"}
  /\ exit' = "done"
  /\ UNCHANGED <<callVars, tableVars, writerVars, piVars, stdout, reading,
                 err_written, stderrVars, drained, message, complete,
                 killVars>>

----------------------------------------------------------------------------
(***************************************************************************)
(* kill: the caller waits for the lock, signals the process and waits for  *)
(* its end before it lets the lock go.                                     *)
(***************************************************************************)
killCall(k) ==
  /\ killer[k] = "new"
  /\ killer' = [killer EXCEPT ![k] = "lock"]
  /\ UNCHANGED <<callVars, tableVars, writerVars, piVars, stdout, readerVars,
                 err_written, stderrVars, exitVars, child>>

killLock(k) ==
  /\ killer[k] = "lock"
  /\ child = "free"
  /\ child' = k
  /\ killer' = [killer EXCEPT ![k] = "wait"]
  /\ UNCHANGED <<callVars, tableVars, writerVars, piVars, stdout, readerVars,
                 err_written, stderrVars, exitVars>>

killReaped(k) ==
  /\ killer[k] = "wait"
  /\ ~alive
  /\ child' = "free"
  /\ killer' = [killer EXCEPT ![k] = "done"]
  /\ UNCHANGED <<callVars, tableVars, writerVars, piVars, stdout, readerVars,
                 err_written, stderrVars, exitVars>>

----------------------------------------------------------------------------
(***************************************************************************)
(* Pi, external.  It answers each request at most once and in any order,   *)
(* writes other lines to stdout and to stderr, keeps stdin open as long as *)
(* it lives, and may exit at any time.                                     *)
(***************************************************************************)
PiAnswer(r, v) ==
  /\ alive
  /\ r \in got
  /\ verdict[r] = "none"
  /\ verdict' = [verdict EXCEPT ![r] = v]
  /\ stdout' = Append(stdout, Line(v, r))
  /\ UNCHANGED <<callVars, tableVars, writerVars, got, alive, lines,
                 readerVars, err_written, stderrVars, exitVars, killVars>>

PiEmit(kind) ==
  /\ alive
  /\ lines < MaxLines
  /\ lines' = lines + 1
  /\ stdout' = Append(stdout, Line(kind, None))
  /\ UNCHANGED <<callVars, tableVars, writerVars, got, verdict, alive,
                 readerVars, err_written, stderrVars, exitVars, killVars>>

PiComplains ==
  /\ alive
  /\ err_written < MaxStderr
  /\ err_written' = err_written + 1
  /\ UNCHANGED <<callVars, tableVars, writerVars, piVars, stdout, readerVars,
                 stderrVars, exitVars, killVars>>

\* It exits by itself or because it was signalled.
PiExit ==
  /\ alive
  /\ alive' = FALSE
  /\ UNCHANGED <<callVars, tableVars, writerVars, got, verdict, lines, stdout,
                 readerVars, err_written, stderrVars, exitVars, killVars>>

PiKilled == PiExit /\ \E k \in Killers : killer[k] = "wait"

----------------------------------------------------------------------------
Request(r) ==
  \/ requestSend(r)
  \/ requestReceive(r)
  \/ requestTimeout(r)
  \/ requestExpired(r)

ExitTask ==
  \/ exitLock
  \/ exitReaped
  \/ exitDrained
  \/ exitDrainTimeout
  \/ fail_pending
  \/ \E r \in Requests : failOne(r)
  \/ exitReport

Kill(k) == killLock(k) \/ killReaped(k)

Pi ==
  \/ \E r \in Requests, v \in Answers : PiAnswer(r, v)
  \/ \E kind \in {"event", "garbled", "broken"} : PiEmit(kind)
  \/ PiComplains
  \/ PiExit

Next ==
  \/ \E r \in Requests : requestRegister(r) \/ Request(r)
  \/ \E n \in Notes : notify(n)
  \/ writerTask
  \/ readerTask
  \/ readerEnd
  \/ stderrRead
  \/ stderrEnd
  \/ ExitTask
  \/ \E k \in Killers : killCall(k) \/ Kill(k)
  \/ Pi

Spec == Init /\ [][Next]_vars

(***************************************************************************)
(* Fairness: the runtime polls every ready task and fires every timer, and *)
(* a process that was signalled dies.  Pi answers or exits when it likes,  *)
(* and a descendant of Pi may keep stderr open for ever.                   *)
(***************************************************************************)
FairSpec ==
  /\ Spec
  /\ \A r \in Requests : WF_vars(Request(r))
  /\ WF_vars(writerTask)
  /\ WF_vars(readerTask)
  /\ WF_vars(stderrRead)
  /\ WF_vars(ExitTask)
  /\ \A k \in Killers : WF_vars(Kill(k))
  /\ WF_vars(PiKilled)

----------------------------------------------------------------------------
(***************************************************************************)
(* Safety.                                                                 *)
(***************************************************************************)

\* A request that waits can still be woken: its sender is in the pending
\* table or in the hands of fail_pending, or it was used.  So "Pi RPC response
\* channel closed" (pi_rpc.rs:266) is never returned.
WaitingHasSender ==
  \A r \in Requests :
    call[r] = "await" => r \in pending \cup drained \/ channel[r] # "empty"

\* The table holds no sender of a call that returned, whatever the order of
\* answer, timeout, failed write and exit.
PendingIsOpen ==
  \A r \in pending :
    call[r] \in {"send", "await", "expired"} /\ channel[r] = "empty"

HasLine(r) == \E i \in 1..Len(stdout) : stdout[i].id = r

\* An answer of Pi is in one place: still on stdout, or on the channel of its
\* caller, or in the event channel; and what arrives is what Pi decided.
AnswerOnce ==
  \A r \in Requests :
    /\ \A i, j \in 1..Len(stdout) :
         stdout[i].id = r /\ stdout[j].id = r => i = j
    /\ \A i \in 1..Len(stdout) :
         stdout[i].id = r => stdout[i].kind = verdict[r]
    /\ channel[r] \in Answers => channel[r] = verdict[r]
    /\ HasLine(r) => channel[r] \notin Answers /\ r \notin events
    /\ channel[r] \in Answers => r \notin events
    /\ verdict[r] # "none" =>
         HasLine(r) \/ channel[r] \in Answers \/ r \in events

\* An answer is handed to the event loop, which ignores it, only if its caller
\* gave up: it timed out, the writer was closed or the exit was reported to it.
StrayOnlyLate ==
  \A r \in Requests \cap events :
    \/ call[r] = "done" /\ result[r] \in {"timeout", "exit"}
    \/ r \in drained
    \/ channel[r] = "exit"

\* When the coordinator saw the end of stderr, the diagnostic holds the last
\* lines Pi wrote, as many as the ring keeps and in their order.
DiagnosticComplete ==
  complete =>
    /\ Len(message) = IF err_written < StderrCapacity
                      THEN err_written ELSE StderrCapacity
    /\ \A i \in 1..Len(message) :
         message[i] = err_written - Len(message) + i

----------------------------------------------------------------------------
(***************************************************************************)
(* The callers' view.                                                      *)
(***************************************************************************)
CallStatus ==
  [c \in Calls |-> CASE call[c] = "new" -> "new"
                     [] call[c] = "done" -> result[c]
                     [] OTHER -> "open"]

Service == INSTANCE RequestService WITH status <- CallStatus, gone <- ~alive

\* A call ends once and its result is true of Pi: an answer is Pi's answer,
\* an exit or a closed writer means that the process is gone, and only
\* commands with a timeout time out.
ImplementsRequestService == Service!Spec

----------------------------------------------------------------------------
(***************************************************************************)
(* Liveness, under FairSpec.                                               *)
(***************************************************************************)

\* A request with a timeout ends, whatever Pi and the tasks do.
TimedRequestsEnd ==
  \A r \in Requests \ Untimed : call[r] = "send" ~> call[r] = "done"

\* A request that is registered when the coordinator fails the pending ones,
\* or before, ends after the exit of Pi, with or without a timeout.
ExitEndsInFlight ==
  \A r \in Requests :
    (~alive /\ r \in pending /\ exit \in {"lock", "wait", "drain", "fail"})
       ~> call[r] = "done"

\* The exit of the process reaches the event loop, also when something keeps
\* stderr open.
ExitReported == ~alive ~> "exit" \in events

\* kill tears the process down (comment at pi_rpc.rs:301).
KillEnds == \A k \in Killers : killer[k] = "lock" ~> ~alive
============================================================================
