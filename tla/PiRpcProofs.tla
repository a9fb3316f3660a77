---------------------------- MODULE PiRpcProofs ----------------------------
(***************************************************************************)
(* Invariants of PiRpc and its refinement of RequestService, for any       *)
(* number of requests, notifications and kill calls and any bounds.        *)
(***************************************************************************)
EXTENDS PiRpc, TLAPS

\* What Append and Tail do to the elements of a sequence; the readers and
\* writers of the pipes and channels do nothing else.
LEMMA AppendFacts ==
  ASSUME NEW S, NEW s \in Seq(S), NEW e \in S
  PROVE  /\ Append(s, e) \in Seq(S)
         /\ Len(Append(s, e)) = Len(s) + 1
         /\ \A i \in 1..Len(s) : Append(s, e)[i] = s[i]
         /\ Append(s, e)[Len(s) + 1] = e
OBVIOUS

\* A line is taken from a pipe.
LEMMA TailFacts ==
  ASSUME NEW S, NEW s \in Seq(S), s # <<>>
  PROVE  /\ Tail(s) \in Seq(S)
         /\ Len(s) \in Nat \ {0}
         /\ Len(Tail(s)) = Len(s) - 1
         /\ \A i \in 1..Len(Tail(s)) : Tail(s)[i] = s[i + 1]
         /\ Head(s) = s[1]
         /\ s[1] \in S
OBVIOUS

----------------------------------------------------------------------------
(***************************************************************************)
(* Types.                                                                  *)
(***************************************************************************)

\* spawn starts in a well-typed state.
LEMMA TypeInit == Init => TypeOK
<1> SUFFICES ASSUME Init PROVE TypeOK
  OBVIOUS
<1>1. <<>> \in Seq(Calls) /\ <<>> \in Seq(Lines) /\ <<>> \in Seq(1..MaxStderr)
  OBVIOUS
<1>2. Len(ring) <= StderrCapacity
  BY LimitsAssumption DEF Init
<1>3. 0 \in 0..MaxStderr /\ 0 \in 0..0 /\ 0 \in 0..MaxLines
  BY LimitsAssumption
<1>4. /\ lines \in 0..MaxLines
      /\ err_written \in 0..MaxStderr
      /\ err_read \in 0..err_written
  BY <1>3 DEF Init
<1>5. /\ writer \in Seq(Calls)
      /\ stdout \in Seq(Lines)
      /\ ring \in Seq(1..MaxStderr)
      /\ message \in Seq(1..MaxStderr)
  BY <1>1 DEF Init
<1>6. /\ call \in [Calls -> {"new", "send", "await", "expired", "done"}]
      /\ result \in [Calls -> {"none", "data", "refused", "exit", "closed",
                               "timeout", "sent"}]
      /\ channel \in [Requests -> Answers \cup {"empty", "exit"}]
      /\ verdict \in [Requests -> Answers \cup {"none"}]
      /\ killer \in [Killers -> {"new", "lock", "wait", "done"}]
  BY DEF Init
<1>7. /\ pending \in SUBSET Requests
      /\ got \in SUBSET Requests
      /\ drained \in SUBSET Requests
      /\ events \in SUBSET (Requests \cup {"event", "diagnostic", "exit"})
  BY DEF Init
<1> QED
  BY <1>2, <1>4, <1>5, <1>6, <1>7 DEF Init, TypeOK

\* The steps of a call keep the types.
LEMMA TypeRequest ==
  ASSUME TypeOK, NEW r \in Requests, requestRegister(r) \/ Request(r)
  PROVE  TypeOK'
<1> r \in Calls
  BY DEF Calls
<1> USE DEF callVars, tableVars, writerVars, piVars, readerVars, stderrVars,
            exitVars, killVars, Returns
<1>1. CASE requestRegister(r)
  BY <1>1 DEF TypeOK, requestRegister
<1>2. CASE requestSend(r)
  <2>1. Append(writer, r) \in Seq(Calls)
    BY AppendFacts DEF TypeOK
  <2> QED
    BY <1>2, <2>1 DEF TypeOK, requestSend
<1>3. CASE requestReceive(r)
  BY <1>3 DEF TypeOK, requestReceive, Answers
<1>4. CASE requestTimeout(r)
  BY <1>4 DEF TypeOK, requestTimeout
<1>5. CASE requestExpired(r)
  BY <1>5 DEF TypeOK, requestExpired
<1> QED
  BY <1>1, <1>2, <1>3, <1>4, <1>5 DEF Request

\* So does notify.
LEMMA TypeNotify ==
  ASSUME TypeOK, NEW n \in Notes, notify(n)
  PROVE  TypeOK'
<1> n \in Calls
  BY DEF Calls
<1>1. Append(writer, n) \in Seq(Calls)
  BY AppendFacts DEF TypeOK
<1> QED
  BY <1>1 DEF TypeOK, notify, Returns, callVars, tableVars, writerVars,
     piVars, readerVars, stderrVars, exitVars, killVars

\* So do the writer and the two readers.
LEMMA TypeTasks ==
  ASSUME TypeOK, writerTask \/ readerTask \/ readerEnd \/ stderrRead
                   \/ stderrEnd
  PROVE  TypeOK'
<1> USE DEF callVars, tableVars, writerVars, piVars, readerVars, stderrVars,
            exitVars, killVars
<1>1. CASE writerTask
  <2>1. writer # <<>> => Tail(writer) \in Seq(Calls)
    BY TailFacts DEF TypeOK
  <2>2. <<>> \in Seq(Calls)
    OBVIOUS
  <2> QED
    BY <1>1, <2>1, <2>2 DEF TypeOK, writerTask
<1>2. CASE readerTask
  <2>1. Tail(stdout) \in Seq(Lines) /\ Head(stdout) \in Lines
    BY <1>2, TailFacts DEF TypeOK, readerTask
  <2>2. stdout' \in Seq(Lines)
    BY <1>2, <2>1 DEF readerTask
  <2>3. /\ Head(stdout).kind \in Answers => Head(stdout).id \in Requests
        /\ Head(stdout).kind \in Answers \cup {"event"} =>
             Head(stdout).kind = "event" \/ Head(stdout).kind \in Answers
    BY <2>1 DEF Lines, Answers
  <2>4. CASE /\ Head(stdout).kind \in Answers \cup {"event"}
             /\ Dispatch(Head(stdout))
    <3>1. /\ pending' \in SUBSET Requests
          /\ channel' \in [Requests -> Answers \cup {"empty", "exit"}]
      <4>1. CASE Head(stdout).id \in pending
        <5>1. Head(stdout).kind # "event"
          BY <2>1, <4>1, CallsAssumption DEF Lines, Answers, TypeOK
        <5> QED
          BY <2>3, <2>4, <4>1, <5>1 DEF Dispatch, TypeOK
      <4>2. CASE Head(stdout).id \notin pending
        BY <2>4, <4>2 DEF Dispatch, TypeOK
      <4> QED
        BY <4>1, <4>2
    <3>2. events' \in SUBSET (Requests \cup {"event", "diagnostic", "exit"})
      BY <2>3, <2>4 DEF Dispatch, TypeOK
    <3>3. reading' \in BOOLEAN
      BY <1>2 DEF readerTask, TypeOK
    <3> QED
      BY <1>2, <2>2, <3>1, <3>2, <3>3 DEF TypeOK, readerTask
  <2>5. CASE /\ events' = events \cup {"diagnostic"}
             /\ UNCHANGED <<tableVars, reading>>
    BY <1>2, <2>2, <2>5 DEF TypeOK, readerTask
  <2>6. CASE reading' = FALSE /\ UNCHANGED <<tableVars, events>>
    BY <1>2, <2>2, <2>6 DEF TypeOK, readerTask
  <2> QED
    BY <1>2, <2>4, <2>5, <2>6 DEF readerTask
<1>3. CASE readerEnd
  BY <1>3 DEF TypeOK, readerEnd
<1>4. CASE stderrRead
  <2>1. err_read + 1 \in 1..MaxStderr /\ err_read' \in 0..err_written'
    BY <1>4, LimitsAssumption DEF TypeOK, stderrRead
  <2>2. ring' \in Seq(1..MaxStderr) /\ Len(ring') <= StderrCapacity
    <3>1. CASE Len(ring) >= StderrCapacity
      <4>1. ring # <<>>
        BY <3>1, LimitsAssumption
      <4>2. Tail(ring) \in Seq(1..MaxStderr) /\ Len(Tail(ring)) = Len(ring) - 1
        BY <4>1, TailFacts DEF TypeOK
      <4>3. ring' = Append(Tail(ring), err_read + 1)
        BY <1>4, <3>1 DEF stderrRead, RingPush
      <4> QED
        BY <2>1, <4>2, <4>3, AppendFacts, LimitsAssumption DEF TypeOK
    <3>2. CASE ~(Len(ring) >= StderrCapacity)
      <4>1. ring' = Append(ring, err_read + 1)
        BY <1>4, <3>2 DEF stderrRead, RingPush
      <4> QED
        BY <2>1, <3>2, <4>1, AppendFacts, LimitsAssumption DEF TypeOK
    <3> QED
      BY <3>1, <3>2
  <2> QED
    BY <1>4, <2>1, <2>2 DEF TypeOK, stderrRead
<1>5. CASE stderrEnd
  BY <1>5 DEF TypeOK, stderrEnd
<1> QED
  BY <1>1, <1>2, <1>3, <1>4, <1>5

\* So do the exit coordinator and kill.
LEMMA TypeExit ==
  ASSUME TypeOK, ExitTask \/ \E k \in Killers : killCall(k) \/ Kill(k)
  PROVE  TypeOK'
<1> USE DEF TypeOK, callVars, tableVars, writerVars, piVars, readerVars,
            stderrVars, exitVars, killVars
<1>1. CASE exitLock \/ exitReaped
  BY <1>1 DEF exitLock, exitReaped
<1>2. CASE exitDrained \/ exitDrainTimeout
  BY <1>2 DEF exitDrained, exitDrainTimeout
<1>3. CASE fail_pending
  BY <1>3 DEF fail_pending
<1>4. CASE \E r \in Requests : failOne(r)
  BY <1>4 DEF failOne
<1>5. CASE exitReport
  BY <1>5 DEF exitReport
<1>6. ASSUME NEW k \in Killers, killCall(k) \/ Kill(k)
      PROVE  TypeOK'
  <2>1. CASE killCall(k)
    BY <2>1 DEF killCall
  <2>2. CASE killLock(k)
    BY <2>2 DEF killLock
  <2>3. CASE killReaped(k)
    BY <2>3 DEF killReaped
  <2> QED
    BY <1>6, <2>1, <2>2, <2>3 DEF Kill
<1> QED
  BY <1>1, <1>2, <1>3, <1>4, <1>5, <1>6 DEF ExitTask

\* So does whatever Pi does.
LEMMA TypePi == TypeOK /\ Pi => TypeOK'
<1> SUFFICES ASSUME TypeOK, Pi PROVE TypeOK'
  OBVIOUS
<1> USE DEF callVars, tableVars, writerVars, piVars, readerVars, stderrVars,
            exitVars, killVars
<1>1. ASSUME NEW r \in Requests, NEW v \in Answers, PiAnswer(r, v)
      PROVE  TypeOK'
  <2>1. Line(v, r) \in Lines
    BY DEF Line, Lines
  <2>2. stdout' \in Seq(Lines)
    BY <1>1, <2>1, AppendFacts DEF TypeOK, PiAnswer
  <2> QED
    BY <1>1, <2>2 DEF TypeOK, PiAnswer
<1>2. ASSUME NEW kind \in {"event", "garbled", "broken"}, PiEmit(kind)
      PROVE  TypeOK'
  <2>1. Line(kind, None) \in Lines
    BY DEF Line, Lines
  <2>2. stdout' \in Seq(Lines)
    BY <1>2, <2>1, AppendFacts DEF TypeOK, PiEmit
  <2>3. lines' \in 0..MaxLines
    BY <1>2, LimitsAssumption DEF TypeOK, PiEmit
  <2> QED
    BY <1>2, <2>2, <2>3 DEF TypeOK, PiEmit
<1>3. CASE PiComplains
  BY <1>3, LimitsAssumption DEF TypeOK, PiComplains
<1>4. CASE PiExit
  BY <1>4 DEF TypeOK, PiExit
<1> QED
  BY <1>1, <1>2, <1>3, <1>4 DEF Pi

\* A step that changes nothing changes no invariant.
LEMMA TypeStep == TypeOK /\ [Next]_vars => TypeOK'
<1> SUFFICES ASSUME TypeOK, [Next]_vars PROVE TypeOK'
  OBVIOUS
<1>1. CASE UNCHANGED vars
  BY <1>1 DEF TypeOK, vars, callVars, tableVars, writerVars, piVars,
     readerVars, stderrVars, exitVars, killVars
<1> QED
  BY <1>1, TypeRequest, TypeNotify, TypeTasks, TypeExit, TypePi DEF Next

\* Every reachable state of the transport is well typed; in particular the
\* stderr ring never grows beyond its capacity.
THEOREM RpcTypeCorrect == Spec => []TypeOK
BY TypeInit, TypeStep, PTL DEF Spec

----------------------------------------------------------------------------
(***************************************************************************)
(* The pending table.  Table is the inductive strengthening of             *)
(* WaitingHasSender and PendingIsOpen: the sender of an open call is in    *)
(* exactly one of the table, the hands of fail_pending and the channel.    *)
(***************************************************************************)
TableOf(r) ==
  /\ r \in pending => /\ call[r] \in {"send", "await", "expired"}
                      /\ channel[r] = "empty"
                      /\ r \notin drained
  /\ r \in drained => call[r] # "new" /\ channel[r] = "empty"
  /\ call[r] \in {"send", "await", "expired"} =>
       r \in pending \cup drained \/ channel[r] # "empty"
  /\ call[r] = "new" => channel[r] = "empty"

Table ==
  /\ \A r \in Requests : TableOf(r)
  /\ drained # {} => exit = "send"

\* The table's state changes only in the steps named here.
LEMMA TableStep ==
  ASSUME TypeOK, Table, [Next]_vars
  PROVE  Table'
<1> USE DEF Table, TableOf, callVars, tableVars, writerVars, piVars,
            readerVars, stderrVars, exitVars, killVars, Returns
<1>1. CASE UNCHANGED <<call, tableVars, exit, drained>>
  BY <1>1
<1>2. ASSUME NEW r \in Requests, requestRegister(r) \/ Request(r)
      PROVE  Table'
  <2> r \in Calls
    BY DEF Calls
  <2> Requests \subseteq Calls
    BY DEF Calls
  <2>1. CASE requestRegister(r)
    BY <2>1 DEF TypeOK, requestRegister
  <2>2. CASE requestSend(r)
    BY <2>2 DEF TypeOK, requestSend
  <2>3. CASE requestReceive(r)
    BY <2>3 DEF TypeOK, requestReceive
  <2>4. CASE requestTimeout(r)
    BY <2>4 DEF TypeOK, requestTimeout
  <2>5. CASE requestExpired(r)
    BY <2>5 DEF TypeOK, requestExpired
  <2> QED
    BY <1>2, <2>1, <2>2, <2>3, <2>4, <2>5 DEF Request
<1>3. ASSUME NEW n \in Notes, notify(n)
      PROVE  Table'
  <2>1. \A r \in Requests : call'[r] = call[r]
    BY <1>3, CallsAssumption DEF notify, TypeOK, Calls
  <2> QED
    BY <1>3, <2>1 DEF notify
<1>4. CASE readerTask
  <2>1. CASE UNCHANGED tableVars
    BY <1>4, <2>1 DEF readerTask
  <2>2. CASE /\ Head(stdout).id \in pending
             /\ pending' = pending \ {Head(stdout).id}
             /\ channel' = [channel EXCEPT ![Head(stdout).id] =
                                             Head(stdout).kind]
             /\ Head(stdout).kind \in Answers \cup {"event"}
    <3>1. Head(stdout).id \in Requests
      BY <2>2 DEF TypeOK
    <3>2. Head(stdout).kind # "empty"
      BY <2>2 DEF Answers
    <3>3. UNCHANGED <<call, exit, drained>>
      BY <1>4 DEF readerTask
    <3> QED
      BY <2>2, <3>1, <3>2, <3>3 DEF TypeOK
  <2> QED
    BY <1>4, <2>1, <2>2 DEF readerTask, Dispatch
<1>5. CASE fail_pending
  BY <1>5 DEF fail_pending, TypeOK
<1>6. ASSUME NEW r \in Requests, failOne(r)
      PROVE  Table'
  BY <1>6 DEF failOne, TypeOK
<1>7. CASE exitReport
  BY <1>7 DEF exitReport
<1>8. CASE exitLock \/ exitReaped \/ exitDrained \/ exitDrainTimeout
  BY <1>8 DEF exitLock, exitReaped, exitDrained, exitDrainTimeout
<1>9. CASE UNCHANGED vars
  BY <1>1, <1>9 DEF vars
<1>10. CASE writerTask \/ readerEnd \/ stderrRead \/ stderrEnd
  BY <1>1, <1>10 DEF writerTask, readerEnd, stderrRead, stderrEnd
<1>11. CASE \E k \in Killers : killCall(k) \/ Kill(k)
  BY <1>1, <1>11 DEF killCall, Kill, killLock, killReaped
<1>12. CASE Pi
  BY <1>1, <1>12 DEF Pi, PiAnswer, PiEmit, PiComplains, PiExit
<1> QED
  BY <1>2, <1>3, <1>4, <1>5, <1>6, <1>7, <1>8, <1>9, <1>10, <1>11, <1>12
  DEF Next, ExitTask

\* Nothing is registered at the start.
LEMMA TableInit == Init => Table
BY DEF Init, Table, TableOf, Calls

\* A waiting request can always be woken, so the branch for a closed response
\* channel is dead.
THEOREM WaitersWakeable == Spec => []WaitingHasSender
<1>1. TypeOK /\ Table => WaitingHasSender
  BY DEF Table, TableOf, WaitingHasSender, TypeOK
<1> QED
  BY <1>1, TypeInit, TypeStep, TableInit, TableStep, PTL DEF Spec

\* No sender stays in the pending table for a caller that is gone: an entry
\* belongs to a request whose caller still waits for it.
THEOREM PendingEntriesOpen == Spec => []PendingIsOpen
<1>1. TypeOK /\ Table => PendingIsOpen
  BY DEF Table, TableOf, PendingIsOpen, TypeOK
<1> QED
  BY <1>1, TypeInit, TypeStep, TableInit, TableStep, PTL DEF Spec

----------------------------------------------------------------------------
(***************************************************************************)
(* The process.  Who tells a caller that Pi is gone is right.              *)
(***************************************************************************)
Gone ==
  /\ ~writer_open => ~alive
  /\ exit \notin {"lock", "wait"} => ~alive
  /\ \A r \in Requests : channel[r] = "exit" => ~alive

\* The process is up and nobody has said otherwise.
LEMMA GoneInit == Init => Gone
BY DEF Init, Gone

\* A writer closes, a coordinator goes on and a channel says exit only after
\* the process has gone, and it does not come back.
LEMMA GoneStep ==
  ASSUME TypeOK, Table, Gone, [Next]_vars
  PROVE  Gone'
<1> USE DEF Gone, callVars, tableVars, writerVars, piVars, readerVars,
            stderrVars, exitVars, killVars, Returns
<1>1. CASE UNCHANGED <<writer_open, exit, alive, channel>>
  BY <1>1
<1>2. ASSUME NEW r \in Requests, requestRegister(r) \/ Request(r)
      PROVE  Gone'
  BY <1>1, <1>2 DEF requestRegister, Request, requestSend, requestReceive,
     requestTimeout, requestExpired
<1>3. CASE \E n \in Notes : notify(n)
  BY <1>1, <1>3 DEF notify
<1>4. CASE readerTask
  <2>1. CASE UNCHANGED tableVars
    BY <1>4, <2>1 DEF readerTask
  <2>2. CASE /\ Head(stdout).id \in pending
             /\ channel' = [channel EXCEPT ![Head(stdout).id] =
                                             Head(stdout).kind]
             /\ Head(stdout).kind \in Answers \cup {"event"}
    <3>1. Head(stdout).kind # "exit"
      BY <2>2 DEF Answers
    <3>2. UNCHANGED <<writer_open, exit, alive>>
      BY <1>4 DEF readerTask
    <3> QED
      BY <2>2, <3>1, <3>2 DEF TypeOK
  <2> QED
    BY <1>4, <2>1, <2>2 DEF readerTask, Dispatch
<1>5. CASE fail_pending \/ exitReport \/ exitDrained \/ exitDrainTimeout
  BY <1>5 DEF fail_pending, exitReport, exitDrained, exitDrainTimeout
<1>6. ASSUME NEW r \in Requests, failOne(r)
      PROVE  Gone'
  BY <1>6 DEF failOne, TypeOK
<1>7. CASE exitLock \/ exitReaped
  BY <1>7 DEF exitLock, exitReaped
<1>8. CASE UNCHANGED vars
  BY <1>1, <1>8 DEF vars
<1>9. CASE writerTask
  BY <1>9 DEF writerTask
<1>10. CASE readerEnd \/ stderrRead \/ stderrEnd
  BY <1>1, <1>10 DEF readerEnd, stderrRead, stderrEnd
<1>11. CASE \E k \in Killers : killCall(k) \/ Kill(k)
  BY <1>1, <1>11 DEF killCall, Kill, killLock, killReaped
<1>12. CASE Pi
  BY <1>12 DEF Pi, PiAnswer, PiEmit, PiComplains, PiExit
<1> QED
  BY <1>2, <1>3, <1>4, <1>5, <1>6, <1>7, <1>8, <1>9, <1>10, <1>11, <1>12
  DEF Next, ExitTask

----------------------------------------------------------------------------
(***************************************************************************)
(* What reached Pi, and what a finished call returned.                     *)
(***************************************************************************)
SentOf(r) ==
  /\ r \in got \/ (\E i \in 1..Len(writer) : writer[i] = r) =>
       /\ call[r] \in {"await", "expired", "done"}
       /\ call[r] = "done" => result[r] # "closed"
  /\ verdict[r] # "none" => r \in got
  /\ call[r] = "done" =>
       \/ result[r] = "data" /\ channel[r] \in Answers
       \/ result[r] = "refused" /\ channel[r] \in Answers
       \/ result[r] \in {"exit", "timeout", "closed"}
  /\ call[r] = "expired" => has_timeout(r)

Sent == \A r \in Requests : SentOf(r)

\* Nothing has been sent yet.
LEMMA SentInit == Init => Sent
<1> SUFFICES ASSUME Init PROVE Sent
  OBVIOUS
<1>1. Len(writer) = 0
  BY DEF Init
<1> QED
  BY <1>1 DEF Init, Sent, SentOf, Calls

\* Pi sees a request only after its call has begun to wait, and a call returns
\* an answer only from its channel.
LEMMA SentStep ==
  ASSUME TypeOK, TypeOK', Table, Sent, [Next]_vars
  PROVE  Sent'
<1> USE DEF Sent, SentOf, callVars, tableVars, writerVars, piVars,
            readerVars, stderrVars, exitVars, killVars, Returns
<1> Requests \subseteq Calls
  BY DEF Calls
<1>1. CASE UNCHANGED <<callVars, channel, writer, got, verdict>>
  BY <1>1
<1>2. ASSUME NEW r \in Requests, requestRegister(r) \/ Request(r)
      PROVE  Sent'
  <2>1. CASE requestRegister(r)
    BY <2>1 DEF TypeOK, requestRegister
  <2>2. CASE requestSend(r) /\ writer_open
    <3>1. writer' = Append(writer, r)
      BY <2>2 DEF requestSend
    <3>2. \A i \in 1..Len(writer') :
            writer'[i] = r \/ \E j \in 1..Len(writer) : writer[j] = writer'[i]
      <4>1. /\ Len(writer') = Len(writer) + 1
            /\ \A i \in 1..Len(writer) : writer'[i] = writer[i]
            /\ writer'[Len(writer) + 1] = r
        BY <3>1, AppendFacts DEF TypeOK
      <4>2. Len(writer) \in Nat
        BY DEF TypeOK
      <4> QED
        BY <4>1, <4>2
    <3>3. /\ call'[r] = "await"
          /\ \A q \in Requests \ {r} : call'[q] = call[q]
          /\ call[r] # "done"
          /\ UNCHANGED <<result, channel, got, verdict>>
      BY <2>2 DEF TypeOK, requestSend
    <3>4. \A q \in Requests \ {r} :
            (\E i \in 1..Len(writer') : writer'[i] = q)
              => \E i \in 1..Len(writer) : writer[i] = q
      BY <3>2
    <3> QED
      BY <3>3, <3>4
  <2>3. CASE requestSend(r) /\ ~writer_open
    BY <2>3 DEF TypeOK, requestSend
  <2>4. CASE requestReceive(r)
    <3>1. channel[r] \in Answers \/ channel[r] = "exit"
      BY <2>4 DEF TypeOK, requestReceive
    <3>2. \/ result'[r] = "data" /\ channel'[r] \in Answers
          \/ result'[r] = "refused" /\ channel'[r] \in Answers
          \/ result'[r] = "exit"
      BY <2>4, <3>1 DEF TypeOK, requestReceive, Answers
    <3> QED
      BY <2>4, <3>2 DEF TypeOK, requestReceive
  <2>5. CASE requestTimeout(r)
    BY <2>5 DEF TypeOK, requestTimeout
  <2>6. CASE requestExpired(r)
    BY <2>6 DEF TypeOK, requestExpired
  <2> QED
    BY <1>2, <2>1, <2>2, <2>3, <2>4, <2>5, <2>6 DEF Request
<1>3. ASSUME NEW n \in Notes, notify(n)
      PROVE  Sent'
  <2>1. \A r \in Requests : call'[r] = call[r] /\ result'[r] = result[r]
    BY <1>3, CallsAssumption DEF notify, TypeOK, Calls
  <2>2. \A r \in Requests : \A i \in 1..Len(writer') :
          writer'[i] = r => \E j \in 1..Len(writer) : writer[j] = r
    <3>1. CASE writer' = writer
      BY <3>1
    <3>2. CASE writer' = Append(writer, n)
      <4>1. /\ Len(writer') = Len(writer) + 1
            /\ \A i \in 1..Len(writer) : writer'[i] = writer[i]
            /\ writer'[Len(writer) + 1] = n
        BY <3>2, AppendFacts DEF TypeOK, Calls
      <4>2. Len(writer) \in Nat
        BY DEF TypeOK
      <4> QED
        BY <4>1, <4>2, CallsAssumption
    <3> QED
      BY <1>3, <3>1, <3>2 DEF notify
  <2> QED
    BY <1>3, <2>1, <2>2 DEF notify
<1>4. CASE readerTask
  <2>1. CASE UNCHANGED tableVars
    BY <1>4, <2>1 DEF readerTask
  <2>2. CASE /\ Head(stdout).id \in pending
             /\ channel' = [channel EXCEPT ![Head(stdout).id] =
                                             Head(stdout).kind]
    BY <1>4, <2>2 DEF readerTask, TypeOK, Table, TableOf
  <2> QED
    BY <1>4, <2>1, <2>2 DEF readerTask, Dispatch
<1>5. CASE fail_pending
  BY <1>5 DEF fail_pending
<1>6. ASSUME NEW r \in Requests, failOne(r)
      PROVE  Sent'
  BY <1>6 DEF failOne, TypeOK, Table, TableOf, Answers
<1>7. CASE exitReport \/ exitLock \/ exitReaped \/ exitDrained
             \/ exitDrainTimeout
  BY <1>1, <1>7 DEF exitReport, exitLock, exitReaped, exitDrained,
     exitDrainTimeout
<1>8. CASE UNCHANGED vars
  BY <1>1, <1>8 DEF vars
<1>9. CASE writerTask
  <2>1. CASE alive
    <3>1. /\ writer' = Tail(writer)
          /\ got' = got \cup ({Head(writer)} \cap Requests)
          /\ writer # <<>>
      BY <1>9, <2>1 DEF writerTask
    <3>2. /\ Len(writer) \in Nat \ {0}
          /\ Len(writer') = Len(writer) - 1
          /\ \A i \in 1..Len(writer') : writer'[i] = writer[i + 1]
          /\ Head(writer) = writer[1]
      BY <3>1, TailFacts DEF TypeOK
    <3>3. \A i \in 1..Len(writer') :
            \E j \in 1..Len(writer) : writer[j] = writer'[i]
      BY <3>2
    <3>4. \A r \in Requests : r \in got' =>
            r \in got \/ \E j \in 1..Len(writer) : writer[j] = r
      BY <3>1, <3>2
    <3> QED
      BY <1>9, <3>1, <3>3, <3>4 DEF writerTask
  <2>2. CASE ~alive
    <3>1. writer' = <<>> /\ UNCHANGED <<callVars, channel, got, verdict>>
      BY <1>9, <2>2 DEF writerTask
    <3>2. \A i \in 1..Len(writer') : FALSE
      BY <3>1
    <3> QED
      BY <3>1, <3>2
  <2> QED
    BY <2>1, <2>2
<1>10. CASE readerEnd \/ stderrRead \/ stderrEnd
  BY <1>1, <1>10 DEF readerEnd, stderrRead, stderrEnd
<1>11. CASE \E k \in Killers : killCall(k) \/ Kill(k)
  BY <1>1, <1>11 DEF killCall, Kill, killLock, killReaped
<1>12. ASSUME NEW r \in Requests, NEW v \in Answers, PiAnswer(r, v)
       PROVE  Sent'
  BY <1>12 DEF PiAnswer, TypeOK
<1>13. CASE PiComplains \/ PiExit
              \/ \E kind \in {"event", "garbled", "broken"} : PiEmit(kind)
  BY <1>1, <1>13 DEF PiEmit, PiComplains, PiExit
<1> QED
  BY <1>2, <1>3, <1>4, <1>5, <1>6, <1>7, <1>8, <1>9, <1>10, <1>11, <1>12,
     <1>13
  DEF Next, ExitTask, Pi

----------------------------------------------------------------------------
(***************************************************************************)
(* The answers of Pi.                                                      *)
(***************************************************************************)
AnswersOk ==
  /\ AnswerOnce
  /\ \A r \in Requests : r \in events => verdict[r] # "none"

\* Pi has answered nothing yet.
LEMMA AnswersInit == Init => AnswersOk
<1> SUFFICES ASSUME Init PROVE AnswersOk
  OBVIOUS
<1>1. Len(stdout) = 0
  BY DEF Init
<1> QED
  BY <1>1 DEF Init, AnswersOk, AnswerOnce, HasLine, Answers

\* An answer appears on stdout when Pi decides and moves only when the reader
\* takes its line; fail_pending uses only channels that got no answer.
LEMMA AnswersStep ==
  ASSUME TypeOK, TypeOK', Table, AnswersOk, [Next]_vars
  PROVE  AnswersOk'
<1> USE DEF AnswersOk, AnswerOnce, HasLine, callVars, tableVars, writerVars,
            piVars, readerVars, stderrVars, exitVars, killVars, Returns
<1>1. CASE UNCHANGED <<channel, stdout, verdict, events>>
  BY <1>1
<1>2. ASSUME NEW r \in Requests, requestRegister(r) \/ Request(r)
      PROVE  AnswersOk'
  BY <1>1, <1>2 DEF requestRegister, Request, requestSend, requestReceive,
     requestTimeout, requestExpired
<1>3. CASE \E n \in Notes : notify(n)
  BY <1>1, <1>3 DEF notify
<1>4. CASE readerTask
  <2>0. PICK l \in Lines : l = Head(stdout)
    BY <1>4, TailFacts DEF readerTask, TypeOK
  <2>1. /\ Len(stdout) \in Nat \ {0}
        /\ Len(stdout') = Len(stdout) - 1
        /\ \A i \in 1..Len(stdout') : stdout'[i] = stdout[i + 1]
        /\ l = stdout[1]
    BY <1>4, <2>0, TailFacts DEF readerTask, TypeOK
  <2>2. UNCHANGED verdict
    BY <1>4 DEF readerTask
  <2>3. \A i \in 1..Len(stdout') :
          i + 1 \in 1..Len(stdout) /\ i + 1 # 1 /\ stdout'[i] = stdout[i + 1]
    BY <2>1
  <2>4. 1 \in 1..Len(stdout)
    BY <2>1
  <2>5. \A i \in 1..Len(stdout) : i # 1 =>
          i - 1 \in 1..Len(stdout') /\ stdout'[i - 1] = stdout[i]
    BY <2>1
  <2>6. \A r \in Requests :
          /\ \A i, j \in 1..Len(stdout') :
               stdout'[i].id = r /\ stdout'[j].id = r => i = j
          /\ \A i \in 1..Len(stdout') :
               stdout'[i].id = r => stdout'[i].kind = verdict[r]
          /\ HasLine(r)' => HasLine(r) /\ r # l.id
          /\ HasLine(r) => HasLine(r)' \/ r = l.id
    <3> TAKE r \in Requests
    <3>1. \A i, j \in 1..Len(stdout') :
            stdout'[i].id = r /\ stdout'[j].id = r => i = j
      <4> TAKE i, j \in 1..Len(stdout')
      <4> HAVE stdout'[i].id = r /\ stdout'[j].id = r
      <4>1. i + 1 = j + 1
        BY <2>3
      <4> QED
        BY <4>1
    <3>2. \A i \in 1..Len(stdout') :
            stdout'[i].id = r => stdout'[i].kind = verdict[r]
      BY <2>3
    <3>3. HasLine(r)' => HasLine(r) /\ r # l.id
      <4> SUFFICES ASSUME NEW i \in 1..Len(stdout'), stdout'[i].id = r
                   PROVE  HasLine(r) /\ r # l.id
        OBVIOUS
      <4>1. i + 1 \in 1..Len(stdout) /\ i + 1 # 1 /\ stdout[i + 1].id = r
        BY <2>3
      <4>2. stdout[1].id # r
        BY <2>4, <4>1
      <4> QED
        BY <2>1, <4>1, <4>2
    <3>4. HasLine(r) => HasLine(r)' \/ r = l.id
      BY <2>1, <2>5
    <3> QED
      BY <3>1, <3>2, <3>3, <3>4
  <2>7. CASE l.kind \notin Answers
    <3>1. l.id = None
      BY <2>7 DEF Lines
    <3>2. l.id \notin pending
      BY <3>1, CallsAssumption DEF TypeOK
    <3>3. \/ UNCHANGED <<channel, events>>
          \/ UNCHANGED channel /\ events' = events \cup {"event"}
          \/ UNCHANGED channel /\ events' = events \cup {"diagnostic"}
      <4>1. CASE l.kind = "event" /\ Dispatch(l)
        BY <3>2, <4>1 DEF Dispatch
      <4> QED
        BY <1>4, <2>0, <2>7, <4>1 DEF readerTask
    <3>4. /\ UNCHANGED channel
          /\ \A r \in Requests : r \in events' <=> r \in events
      BY <3>3, CallsAssumption
    <3>5. \A r \in Requests : HasLine(r) => HasLine(r)'
      BY <2>6, <3>1, CallsAssumption
    <3> QED
      BY <2>2, <2>6, <3>4, <3>5
  <2>8. CASE l.kind \in Answers
    <3>1. l.id \in Requests
      BY <2>8 DEF Lines, Answers
    <3>2. /\ verdict[l.id] = l.kind
          /\ HasLine(l.id)
      BY <2>1, <2>4, <3>1
    <3>3. channel[l.id] \notin Answers /\ l.id \notin events
      BY <3>1, <3>2
    <3>4. Dispatch(l)
      BY <1>4, <2>0, <2>8 DEF readerTask, Answers
    <3>5. ~HasLine(l.id)'
      BY <2>6, <3>1
    <3>6. l.kind # "none" /\ l.kind # "event"
      BY <2>8 DEF Answers
    <3>7. CASE l.id \in pending
      <4>1. /\ channel' = [channel EXCEPT ![l.id] = l.kind]
            /\ events' = events
        BY <3>4, <3>7 DEF Dispatch
      <4>2. channel'[l.id] = l.kind
             /\ \A r \in Requests \ {l.id} : channel'[r] = channel[r]
        BY <3>1, <4>1 DEF TypeOK
      <4> HIDE DEF HasLine
      <4> QED
        BY <2>2, <2>6, <2>8, <3>1, <3>2, <3>3, <3>5, <3>6, <4>1, <4>2
    <3>8. CASE l.id \notin pending
      <4>1. channel' = channel /\ events' = events \cup {l.id}
        BY <3>4, <3>6, <3>8 DEF Dispatch
      <4> HIDE DEF HasLine
      <4> QED
        BY <2>2, <2>6, <2>8, <3>1, <3>2, <3>3, <3>5, <3>6, <4>1
    <3> QED
      BY <3>7, <3>8
  <2> QED
    BY <2>7, <2>8
<1>5. CASE exitReport
  BY <1>5, CallsAssumption DEF exitReport
<1>6. ASSUME NEW r \in Requests, failOne(r)
      PROVE  AnswersOk'
  <2>1. channel[r] \notin Answers /\ channel'[r] \notin Answers
    BY <1>6 DEF failOne, TypeOK, Table, TableOf, Answers
  <2>2. \A q \in Requests \ {r} : channel'[q] = channel[q]
    BY <1>6 DEF failOne, TypeOK
  <2> QED
    BY <1>6, <2>1, <2>2 DEF failOne
<1>7. CASE fail_pending \/ exitLock \/ exitReaped \/ exitDrained
             \/ exitDrainTimeout
  BY <1>1, <1>7 DEF fail_pending, exitLock, exitReaped, exitDrained,
     exitDrainTimeout
<1>8. CASE UNCHANGED vars
  BY <1>1, <1>8 DEF vars
<1>9. CASE writerTask \/ readerEnd \/ stderrRead \/ stderrEnd
  BY <1>1, <1>9 DEF writerTask, readerEnd, stderrRead, stderrEnd
<1>10. CASE \E k \in Killers : killCall(k) \/ Kill(k)
  BY <1>1, <1>10 DEF killCall, Kill, killLock, killReaped
<1>11. ASSUME NEW r \in Requests, NEW v \in Answers, PiAnswer(r, v)
       PROVE  AnswersOk'
  <2>1. /\ verdict[r] = "none"
        /\ verdict' = [verdict EXCEPT ![r] = v]
        /\ UNCHANGED <<channel, events>>
    BY <1>11 DEF PiAnswer
  <2>2. /\ verdict'[r] = v
        /\ v # "none"
        /\ \A q \in Requests \ {r} : verdict'[q] = verdict[q]
    BY <2>1 DEF TypeOK, Answers
  <2>3. Line(v, r) \in Lines /\ Line(v, r).id = r /\ Line(v, r).kind = v
    BY DEF Line, Lines
  <2>4. /\ Len(stdout) \in Nat
        /\ Len(stdout') = Len(stdout) + 1
        /\ \A i \in 1..Len(stdout) : stdout'[i] = stdout[i]
        /\ stdout'[Len(stdout) + 1] = Line(v, r)
    BY <1>11, <2>3, AppendFacts DEF PiAnswer, TypeOK
  <2>5. ~HasLine(r)
    <3> SUFFICES ASSUME NEW i \in 1..Len(stdout), stdout[i].id = r
                 PROVE  FALSE
      OBVIOUS
    <3>1. stdout[i] \in Lines /\ stdout[i].kind = "none"
      BY <2>1 DEF TypeOK
    <3> QED
      BY <3>1 DEF Lines, Answers
  <2>6. channel[r] \notin Answers /\ r \notin events
    BY <2>1 DEF Answers
  <2>7. \A q \in Requests \ {r} :
          /\ \A i \in 1..Len(stdout') : stdout'[i].id = q =>
               i \in 1..Len(stdout) /\ stdout'[i] = stdout[i]
          /\ HasLine(q)' <=> HasLine(q)
    BY <2>3, <2>4
  <2>8. /\ HasLine(r)'
        /\ \A i \in 1..Len(stdout') : stdout'[i].id = r => i = Len(stdout) + 1
    BY <2>3, <2>4, <2>5
  <2>9. \A i \in 1..Len(stdout') : stdout'[i].id = r => stdout'[i].kind = v
    BY <2>3, <2>4, <2>8
  <2>10. \A q \in Requests :
           /\ \A i, j \in 1..Len(stdout') :
                stdout'[i].id = q /\ stdout'[j].id = q => i = j
           /\ \A i \in 1..Len(stdout') :
                stdout'[i].id = q => stdout'[i].kind = verdict'[q]
    BY <2>2, <2>7, <2>8, <2>9
  <2> HIDE DEF HasLine
  <2> QED
    BY <2>1, <2>2, <2>6, <2>7, <2>8, <2>10
<1>12. ASSUME NEW kind \in {"event", "garbled", "broken"}, PiEmit(kind)
       PROVE  AnswersOk'
  <2>1. Line(kind, None) \in Lines /\ Line(kind, None).id = None
    BY DEF Line, Lines
  <2>2. /\ Len(stdout) \in Nat
        /\ Len(stdout') = Len(stdout) + 1
        /\ \A i \in 1..Len(stdout) : stdout'[i] = stdout[i]
        /\ stdout'[Len(stdout) + 1] = Line(kind, None)
    BY <1>12, <2>1, AppendFacts DEF PiEmit, TypeOK
  <2>3. \A q \in Requests :
          /\ \A i \in 1..Len(stdout') : stdout'[i].id = q =>
               i \in 1..Len(stdout) /\ stdout'[i] = stdout[i]
          /\ HasLine(q)' <=> HasLine(q)
    BY <2>1, <2>2, CallsAssumption
  <2>4. UNCHANGED <<verdict, channel, events>>
    BY <1>12 DEF PiEmit
  <2> HIDE DEF HasLine
  <2> QED
    BY <2>3, <2>4
<1>13. CASE PiComplains \/ PiExit
  BY <1>1, <1>13 DEF PiComplains, PiExit
<1> QED
  BY <1>2, <1>3, <1>4, <1>5, <1>6, <1>7, <1>8, <1>9, <1>10, <1>11, <1>12,
     <1>13
  DEF Next, ExitTask, Pi

\* Every answer of Pi is in one place and arrives unchanged: it is never
\* delivered twice, never invented and never lost between the tasks.
THEOREM AnswersDeliveredOnce == Spec => []AnswerOnce
<1>1. AnswersOk => AnswerOnce
  BY DEF AnswersOk
<1> QED
  BY <1>1, TypeInit, TypeStep, TableInit, TableStep, AnswersInit, AnswersStep,
     PTL
  DEF Spec

----------------------------------------------------------------------------
(***************************************************************************)
(* Late answers.                                                           *)
(***************************************************************************)

\* The invariants that the following theorems use together.
Transport == TypeOK /\ Table /\ Gone /\ Sent /\ AnswersOk

\* They hold in every reachable state.
LEMMA TransportHolds == Spec => []Transport
BY TypeInit, TypeStep, TableInit, TableStep, GoneInit, GoneStep, SentInit,
   SentStep, AnswersInit, AnswersStep, PTL
DEF Spec, Transport

\* A caller that gave up has given up for good, and an answer that finds no
\* sender belongs to such a caller.
LEMMA StrayStep ==
  ASSUME Transport, Transport', StrayOnlyLate, [Next]_vars
  PROVE  StrayOnlyLate'
<1> USE DEF Transport, StrayOnlyLate, callVars, tableVars, writerVars, piVars,
            readerVars, stderrVars, exitVars, killVars, Returns
<1> Requests \subseteq Calls
  BY DEF Calls
<1>1. CASE UNCHANGED <<callVars, channel, events, drained>>
  BY <1>1
<1>2. ASSUME NEW r \in Requests, requestRegister(r) \/ Request(r)
      PROVE  StrayOnlyLate'
  <2>1. UNCHANGED <<channel, events, drained>>
    BY <1>2 DEF requestRegister, Request, requestSend, requestReceive,
       requestTimeout, requestExpired
  <2>2. \A q \in Requests \ {r} : call'[q] = call[q] /\ result'[q] = result[q]
    BY <1>2 DEF TypeOK, requestRegister, Request, requestSend, requestReceive,
       requestTimeout, requestExpired
  <2>3. call[r] # "done"
    BY <1>2 DEF requestRegister, Request, requestSend, requestReceive,
       requestTimeout, requestExpired
  <2> QED
    BY <2>1, <2>2, <2>3
<1>3. ASSUME NEW n \in Notes, notify(n)
      PROVE  StrayOnlyLate'
  <2>1. \A r \in Requests : call'[r] = call[r] /\ result'[r] = result[r]
    BY <1>3, CallsAssumption DEF notify, TypeOK, Calls
  <2> QED
    BY <1>3, <2>1 DEF notify
<1>4. CASE readerTask
  <2>1. UNCHANGED <<callVars, drained>>
    BY <1>4 DEF readerTask
  <2>2. PICK l \in Lines : l = Head(stdout)
    BY <1>4, TailFacts DEF readerTask, TypeOK
  <2>3. CASE l.kind \in Answers /\ Dispatch(l)
    <3>1. l.id \in Requests /\ l.kind # "event"
      BY <2>3 DEF Lines, Answers
    <3>2. CASE l.id \in pending
      <4>1. /\ channel' = [channel EXCEPT ![l.id] = l.kind]
            /\ events' = events
        BY <2>3, <3>2 DEF Dispatch
      <4>2. l.id \notin drained /\ channel[l.id] = "empty"
             /\ call[l.id] # "done"
        BY <3>2, <3>1 DEF Table, TableOf
      <4>3. l.id \notin events
        BY <3>1, <4>2
      <4> QED
        BY <2>1, <3>1, <4>1, <4>3 DEF TypeOK
    <3>3. CASE l.id \notin pending
      <4>1. channel' = channel /\ events' = events \cup {l.id}
        BY <2>3, <3>1, <3>3 DEF Dispatch
      <4>2. l = stdout[1] /\ 1 \in 1..Len(stdout)
        BY <1>4, <2>2, TailFacts DEF readerTask, TypeOK
      <4>3. HasLine(l.id) /\ verdict[l.id] = l.kind
        BY <3>1, <4>2 DEF AnswersOk, AnswerOnce, HasLine
      <4>4. channel[l.id] \notin Answers /\ verdict[l.id] # "none"
        BY <2>3, <3>1, <4>3 DEF AnswersOk, AnswerOnce, Answers
      <4>5. call[l.id] \in {"await", "expired", "done"}
             /\ (call[l.id] = "done" => result[l.id] # "closed")
        BY <3>1, <4>4 DEF Sent, SentOf
      <4>6. CASE call[l.id] = "done"
        BY <2>1, <3>1, <4>1, <4>4, <4>5, <4>6 DEF Sent, SentOf
      <4>7. CASE call[l.id] # "done"
        <5>1. l.id \in drained \/ channel[l.id] # "empty"
          BY <3>1, <3>3, <4>5, <4>7 DEF Table, TableOf
        <5>2. l.id \in drained \/ channel[l.id] = "exit"
          BY <3>1, <4>4, <5>1 DEF TypeOK
        <5> QED
          BY <2>1, <4>1, <5>2
      <4> QED
        BY <4>6, <4>7
    <3> QED
      BY <3>2, <3>3
  <2>4. CASE l.kind \notin Answers
    <3>1. l.id = None
      BY <2>4 DEF Lines
    <3>2. l.id \notin pending
      BY <3>1, CallsAssumption DEF TypeOK
    <3>3. \/ UNCHANGED <<channel, events>>
          \/ UNCHANGED channel /\ events' = events \cup {"event"}
          \/ UNCHANGED channel /\ events' = events \cup {"diagnostic"}
      <4>1. CASE l.kind = "event" /\ Dispatch(l)
        BY <3>2, <4>1 DEF Dispatch
      <4> QED
        BY <1>4, <2>2, <2>4, <4>1 DEF readerTask
    <3> QED
      BY <2>1, <3>3, CallsAssumption
  <2> QED
    BY <1>4, <2>2, <2>3, <2>4 DEF readerTask, Answers
<1>5. CASE fail_pending
  <2>1. drained = {}
    BY <1>5 DEF fail_pending, Table
  <2> QED
    BY <1>5, <2>1 DEF fail_pending
<1>6. ASSUME NEW r \in Requests, failOne(r)
      PROVE  StrayOnlyLate'
  BY <1>6 DEF failOne, TypeOK
<1>7. CASE exitReport
  BY <1>7, CallsAssumption DEF exitReport
<1>8. CASE exitLock \/ exitReaped \/ exitDrained \/ exitDrainTimeout
  BY <1>1, <1>8 DEF exitLock, exitReaped, exitDrained, exitDrainTimeout
<1>9. CASE UNCHANGED vars
  BY <1>1, <1>9 DEF vars
<1>10. CASE writerTask \/ readerEnd \/ stderrRead \/ stderrEnd
  BY <1>1, <1>10 DEF writerTask, readerEnd, stderrRead, stderrEnd
<1>11. CASE \E k \in Killers : killCall(k) \/ Kill(k)
  BY <1>1, <1>11 DEF killCall, Kill, killLock, killReaped
<1>12. CASE Pi
  BY <1>1, <1>12 DEF Pi, PiAnswer, PiEmit, PiComplains, PiExit
<1> QED
  BY <1>2, <1>3, <1>4, <1>5, <1>6, <1>7, <1>8, <1>9, <1>10, <1>11, <1>12
  DEF Next, ExitTask

\* The reader passes an answer to the event loop, where it is ignored, only if
\* its caller timed out or was told of the exit.
THEOREM StraysAreLate == Spec => []StrayOnlyLate
<1>1. Init => StrayOnlyLate
  BY DEF Init, StrayOnlyLate
<1> QED
  BY <1>1, TransportHolds, StrayStep, PTL DEF Spec

----------------------------------------------------------------------------
(***************************************************************************)
(* The stderr diagnostic.                                                  *)
(***************************************************************************)
IsTail(s, n) ==
  /\ Len(s) = IF n < StderrCapacity THEN n ELSE StderrCapacity
  /\ \A i \in 1..Len(s) : s[i] = n - Len(s) + i

Diagnosed ==
  /\ IsTail(ring, err_read)
  /\ stderr_done /\ ~err_broken => ~alive /\ err_read = err_written
  /\ complete => /\ stderr_done /\ ~err_broken
                 /\ message = ring
                 /\ exit \in {"fail", "send", "done"}

\* RingPush keeps the last lines: it drops the oldest when the ring is full.
LEMMA RingPushKeepsTail ==
  ASSUME NEW n \in Nat, NEW s \in Seq(1..MaxStderr), IsTail(s, n),
         n + 1 \in 1..MaxStderr
  PROVE  IsTail(RingPush(s, n + 1), n + 1)
<1> USE LimitsAssumption
<1>1. CASE Len(s) >= StderrCapacity
  <2>1. Len(s) = StderrCapacity /\ ~(n < StderrCapacity) /\ s # <<>>
    BY <1>1 DEF IsTail
  <2>2. /\ Tail(s) \in Seq(1..MaxStderr)
        /\ Len(Tail(s)) = Len(s) - 1
        /\ \A i \in 1..Len(Tail(s)) : Tail(s)[i] = s[i + 1]
    BY <2>1, TailFacts
  <2>3. PICK t : t = Append(Tail(s), n + 1)
    OBVIOUS
  <2>4. /\ Len(t) = Len(s)
        /\ \A i \in 1..(Len(s) - 1) : t[i] = s[i + 1]
        /\ t[Len(s)] = n + 1
    BY <2>1, <2>2, <2>3, AppendFacts
  <2>5. \A i \in 1..(Len(s) - 1) : t[i] = n - Len(s) + (i + 1)
    BY <2>1, <2>4 DEF IsTail
  <2>6. \A i \in 1..Len(t) : t[i] = (n + 1) - Len(t) + i
    <3> TAKE i \in 1..Len(t)
    <3>1. CASE i = Len(s)
      BY <2>1, <2>4, <3>1
    <3>2. CASE i # Len(s)
      <4>1. i \in 1..(Len(s) - 1)
        BY <2>1, <2>4, <3>2
      <4>2. t[i] = n - Len(s) + (i + 1)
        BY <2>5, <4>1
      <4> QED
        BY <2>1, <2>4, <4>1, <4>2
    <3> QED
      BY <3>1, <3>2
  <2>7. IsTail(t, n + 1)
    BY <2>1, <2>4, <2>6 DEF IsTail
  <2> QED
    BY <1>1, <2>3, <2>7 DEF RingPush
<1>2. CASE ~(Len(s) >= StderrCapacity)
  <2>1. Len(s) = n /\ n < StderrCapacity
    BY <1>2 DEF IsTail
  <2>2. PICK t : t = Append(s, n + 1)
    OBVIOUS
  <2>3. /\ Len(t) = n + 1
        /\ \A i \in 1..n : t[i] = s[i]
        /\ t[n + 1] = n + 1
    BY <2>1, <2>2, AppendFacts
  <2>4. \A i \in 1..n : t[i] = i
    BY <2>1, <2>3 DEF IsTail
  <2>5. \A i \in 1..(n + 1) : t[i] = i
    BY <2>3, <2>4
  <2>6. IsTail(t, n + 1)
    BY <2>1, <2>3, <2>5 DEF IsTail
  <2> QED
    BY <1>2, <2>2, <2>6 DEF RingPush
<1> QED
  BY <1>1, <1>2

\* Unless a line cannot be read, the stderr reader ends after the last line of
\* a process that is gone, and nothing is written to the ring after that.
LEMMA DiagnosedStep ==
  ASSUME TypeOK, Diagnosed, [Next]_vars
  PROVE  Diagnosed'
<1> USE DEF Diagnosed, callVars, tableVars, writerVars, piVars, readerVars,
            stderrVars, exitVars, killVars, Returns
<1>1. CASE UNCHANGED <<alive, err_written, stderrVars, exit, complete,
                       message>>
  BY <1>1 DEF IsTail
<1>2. CASE \E r \in Requests : requestRegister(r) \/ Request(r)
  BY <1>1, <1>2 DEF requestRegister, Request, requestSend, requestReceive,
     requestTimeout, requestExpired
<1>3. CASE \E n \in Notes : notify(n)
  BY <1>1, <1>3 DEF notify
<1>4. CASE stderrRead
  <2>1. err_read \in Nat /\ err_read + 1 \in 1..MaxStderr
    BY <1>4, LimitsAssumption DEF stderrRead, TypeOK
  <2>2. IsTail(RingPush(ring, err_read + 1), err_read + 1)
    BY <2>1, RingPushKeepsTail DEF TypeOK
  <2>3. IsTail(ring, err_read)'
    BY <1>4, <2>2 DEF stderrRead, IsTail
  <2> QED
    BY <1>4, <2>3 DEF stderrRead
<1>5. CASE stderrEnd
  BY <1>5 DEF stderrEnd, IsTail
<1>6. CASE exitDrained \/ exitDrainTimeout
  <2>1. IsTail(ring, err_read)'
    BY <1>6 DEF exitDrained, exitDrainTimeout, IsTail
  <2>2. /\ UNCHANGED <<alive, err_read, err_written, ring, stderr_done,
                       err_broken>>
        /\ message' = ring
        /\ exit = "drain" /\ exit' = "fail"
    BY <1>6 DEF exitDrained, exitDrainTimeout
  <2>3. CASE exitDrained
    <3>1. stderr_done /\ complete' = ~err_broken
      BY <2>3 DEF exitDrained
    <3>2. complete' => stderr_done' /\ ~err_broken'
      BY <2>2, <3>1, Zenon
    <3> QED
      BY <2>1, <2>2, <3>2
  <2>4. CASE exitDrainTimeout
    <3>1. UNCHANGED complete
      BY <2>4 DEF exitDrainTimeout
    <3> QED
      BY <2>1, <2>2, <3>1
  <2> QED
    BY <1>6, <2>3, <2>4
<1>7. CASE exitLock \/ exitReaped \/ fail_pending \/ exitReport
  BY <1>7 DEF exitLock, exitReaped, fail_pending, exitReport, IsTail
<1>8. CASE \E r \in Requests : failOne(r)
  BY <1>1, <1>8 DEF failOne
<1>9. CASE UNCHANGED vars
  BY <1>1, <1>9 DEF vars
<1>10. CASE writerTask \/ readerTask \/ readerEnd
  BY <1>1, <1>10 DEF writerTask, readerTask, readerEnd
<1>11. CASE \E k \in Killers : killCall(k) \/ Kill(k)
  BY <1>1, <1>11 DEF killCall, Kill, killLock, killReaped
<1>12. CASE PiComplains
  BY <1>12 DEF PiComplains, IsTail
<1>13. CASE PiExit
  BY <1>13 DEF PiExit, IsTail
<1>14. CASE \/ \E r \in Requests, v \in Answers : PiAnswer(r, v)
            \/ \E kind \in {"event", "garbled", "broken"} : PiEmit(kind)
  BY <1>1, <1>14 DEF PiAnswer, PiEmit
<1> QED
  BY <1>2, <1>3, <1>4, <1>5, <1>6, <1>7, <1>8, <1>9, <1>10, <1>11, <1>12,
     <1>13, <1>14
  DEF Next, ExitTask, Pi

\* A diagnostic that was not cut short, by the two-second limit or by a line
\* that cannot be read, is the last lines Pi wrote to stderr, in order.
THEOREM DiagnosticIsTail == Spec => []DiagnosticComplete
<1>1. Init => Diagnosed
  <2> SUFFICES ASSUME Init PROVE Diagnosed
    OBVIOUS
  <2>1. Len(ring) = 0 /\ err_read = 0
    BY DEF Init
  <2>2. IsTail(ring, err_read)
    BY <2>1, LimitsAssumption DEF IsTail
  <2> QED
    BY <2>2 DEF Init, Diagnosed
<1>2. Diagnosed => DiagnosticComplete
  BY DEF Diagnosed, DiagnosticComplete, IsTail
<1> QED
  BY <1>1, <1>2, TypeInit, TypeStep, DiagnosedStep, PTL DEF Spec

----------------------------------------------------------------------------
(***************************************************************************)
(* Refinement of RequestService.                                           *)
(***************************************************************************)

\* A step that changes no call, no verdict and not the process is a stutter.
LEMMA QuietStep ==
  ASSUME UNCHANGED <<call, result, verdict, alive>>
  PROVE  UNCHANGED Service!vars
BY DEF Service!vars, CallStatus

\* A call that goes on is open, and no other call changes.
LEMMA OpenStatus ==
  ASSUME TypeOK, NEW c \in Calls, NEW pc \in {"send", "await", "expired"},
         call' = [call EXCEPT ![c] = pc], result' = result
  PROVE  CallStatus' = [CallStatus EXCEPT ![c] = "open"]
<1>1. \A d \in Calls : call'[d] = IF d = c THEN pc ELSE call[d]
  BY DEF TypeOK
<1> QED
  BY <1>1 DEF CallStatus

\* A call that returns shows its result, and no other call changes.
LEMMA DoneStatus ==
  ASSUME TypeOK, NEW c \in Calls, NEW a, Returns(c, a)
  PROVE  CallStatus' = [CallStatus EXCEPT ![c] = a]
<1>1. \A d \in Calls : /\ call'[d] = IF d = c THEN "done" ELSE call[d]
                       /\ result'[d] = IF d = c THEN a ELSE result[d]
  BY DEF TypeOK, Returns
<1> QED
  BY <1>1 DEF CallStatus

\* Each step of the transport is a step of the service or a stutter.
LEMMA RequestServiceStep ==
  ASSUME Transport, [Next]_vars
  PROVE  [Service!Next]_(Service!vars)
<1> USE DEF Transport, callVars, tableVars, writerVars, piVars, readerVars,
            stderrVars, exitVars, killVars
<1> Requests \subseteq Calls /\ Notes \subseteq Calls
  BY DEF Calls
<1>1. CASE UNCHANGED <<call, result, verdict, alive>>
  BY <1>1, QuietStep
<1>2. ASSUME NEW r \in Requests, requestRegister(r) \/ Request(r)
      PROVE  [Service!Next]_(Service!vars)
  <2>1. UNCHANGED <<verdict, alive>>
    BY <1>2 DEF requestRegister, Request, requestSend, requestReceive,
       requestTimeout, requestExpired
  <2>3. CallStatus[r] = IF call[r] = "new" THEN "new"
                        ELSE IF call[r] = "done" THEN result[r] ELSE "open"
    BY DEF CallStatus
  <2>4. CASE requestRegister(r)
    <3>1. CallStatus' = [CallStatus EXCEPT ![r] = "open"]
      BY <2>4, OpenStatus DEF requestRegister
    <3>2. Service!Ask(r)
      BY <2>1, <2>3, <2>4, <3>1 DEF Service!Ask, requestRegister
    <3> QED
      BY <3>2 DEF Service!Next
  <2>5. ASSUME NEW a \in {"data", "refused", "exit", "closed", "timeout"},
               call[r] \notin {"new", "done"},
               Returns(r, a), Service!Truthful(r, a)
        PROVE  [Service!Next]_(Service!vars)
    <3>2. CallStatus' = [CallStatus EXCEPT ![r] = a]
      BY <2>5, DoneStatus
    <3>3. CallStatus[r] = "open"
      BY <2>3, <2>5
    <3>4. Service!End(r, a)
      BY <2>1, <2>5, <3>2, <3>3 DEF Service!End
    <3> QED
      BY <3>4 DEF Service!Next
  <2>6. CASE requestSend(r) /\ writer_open
    <3>1. CallStatus' = [CallStatus EXCEPT ![r] = "open"]
      BY <2>6, OpenStatus DEF requestSend
    <3>2. CallStatus[r] = "open"
      BY <2>3, <2>6 DEF requestSend
    <3>3. CallStatus' = CallStatus
      BY <3>1, <3>2 DEF CallStatus
    <3> QED
      BY <2>1, <3>3 DEF Service!vars
  <2>7. CASE requestSend(r) /\ ~writer_open
    <3>1. Service!Truthful(r, "closed")
      BY <2>7 DEF Service!Truthful, Gone
    <3> QED
      BY <2>5, <2>7, <3>1 DEF requestSend
  <2>8. CASE requestReceive(r)
    <3>1. CASE channel[r] \in Answers
      <4>1. verdict[r] = channel[r]
        BY <3>1 DEF AnswersOk, AnswerOnce
      <4>2. CASE channel[r] = "ok"
        <5>1. Service!Truthful(r, "data")
          BY <4>1, <4>2 DEF Service!Truthful
        <5> QED
          BY <2>5, <2>8, <4>2, <5>1 DEF requestReceive
      <4>3. CASE channel[r] = "refused"
        <5>1. Service!Truthful(r, "refused")
          BY <4>1, <4>3 DEF Service!Truthful
        <5> QED
          BY <2>5, <2>8, <4>3, <5>1 DEF requestReceive
      <4> QED
        BY <3>1, <4>2, <4>3 DEF Answers
    <3>2. CASE channel[r] = "exit"
      <4>1. Service!Truthful(r, "exit")
        BY <3>2 DEF Service!Truthful, Gone
      <4> QED
        BY <2>5, <2>8, <3>2, <4>1 DEF requestReceive
    <3> QED
      BY <2>8, <3>1, <3>2 DEF requestReceive, TypeOK
  <2>9. CASE requestTimeout(r)
    <3>1. CallStatus' = [CallStatus EXCEPT ![r] = "open"]
      BY <2>9, OpenStatus DEF requestTimeout
    <3>2. CallStatus[r] = "open"
      BY <2>3, <2>9 DEF requestTimeout
    <3>3. CallStatus' = CallStatus
      BY <3>1, <3>2 DEF CallStatus
    <3> QED
      BY <2>1, <3>3 DEF Service!vars
  <2>10. CASE requestExpired(r)
    <3>1. Service!Truthful(r, "timeout")
      BY <2>10 DEF Service!Truthful, requestExpired, Sent, SentOf,
         has_timeout
    <3> QED
      BY <2>5, <2>10, <3>1 DEF requestExpired
  <2> QED
    BY <1>2, <2>4, <2>6, <2>7, <2>8, <2>9, <2>10 DEF Request
<1>3. ASSUME NEW n \in Notes, notify(n)
      PROVE  [Service!Next]_(Service!vars)
  <2>1. PICK a \in {"sent", "closed"} :
          Returns(n, a) /\ (a = "closed" => ~alive)
    BY <1>3 DEF notify, Gone
  <2>3. CallStatus' = [CallStatus EXCEPT ![n] = a]
    BY <2>1, DoneStatus
  <2>4. CallStatus[n] = "new"
    BY <1>3 DEF notify, CallStatus
  <2>5. Service!Note(n, a)
    BY <1>3, <2>1, <2>3, <2>4 DEF notify, Service!Note
  <2> QED
    BY <2>5 DEF Service!Next
<1>4. CASE writerTask \/ readerTask \/ readerEnd \/ stderrRead \/ stderrEnd
  BY <1>1, <1>4 DEF writerTask, readerTask, readerEnd, stderrRead, stderrEnd
<1>5. CASE ExitTask
  BY <1>1, <1>5 DEF ExitTask, exitLock, exitReaped, exitDrained,
     exitDrainTimeout, fail_pending, failOne, exitReport
<1>6. CASE \E k \in Killers : killCall(k) \/ Kill(k)
  BY <1>1, <1>6 DEF killCall, Kill, killLock, killReaped
<1>7. ASSUME NEW r \in Requests, NEW v \in Answers, PiAnswer(r, v)
      PROVE  [Service!Next]_(Service!vars)
  <2>1. CallStatus' = CallStatus /\ UNCHANGED alive
    BY <1>7 DEF PiAnswer, CallStatus
  <2>2. call[r] # "new"
    BY <1>7 DEF PiAnswer, Sent, SentOf
  <2>3. CallStatus[r] # "new"
    BY <2>2 DEF CallStatus, TypeOK
  <2>4. Service!Decide(r, v)
    BY <1>7, <2>1, <2>3 DEF PiAnswer, Service!Decide
  <2> QED
    BY <2>4 DEF Service!Next, Answers
<1>8. CASE \/ PiComplains
           \/ \E kind \in {"event", "garbled", "broken"} : PiEmit(kind)
  BY <1>1, <1>8 DEF PiComplains, PiEmit
<1>9. CASE PiExit
  <2>1. CallStatus' = CallStatus /\ UNCHANGED verdict /\ alive' = FALSE
    BY <1>9 DEF PiExit, CallStatus
  <2>2. Service!Exit
    BY <2>1 DEF Service!Exit
  <2> QED
    BY <2>2 DEF Service!Next
<1>10. CASE UNCHANGED vars
  BY <1>1, <1>10 DEF vars
<1> QED
  BY <1>2, <1>3, <1>4, <1>5, <1>6, <1>7, <1>8, <1>9, <1>10 DEF Next, Pi

\* The transport implements RequestService: every call ends once and what it
\* returns is true of Pi and of the process.
THEOREM TransportRefinesService == Spec => ImplementsRequestService
<1>1. Init => Service!Init
  BY DEF Init, Service!Init, CallStatus, Calls
<1> QED
  BY <1>1, TransportHolds, RequestServiceStep, PTL
  DEF Spec, ImplementsRequestService, Service!Spec
============================================================================
