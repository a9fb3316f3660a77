------------------------ MODULE PromptServiceProofs ------------------------
(***************************************************************************)
(* What the ACP client may rely on, proved for every set of prompts,       *)
(* messages and bridge commands and for every bound: the scheduler         *)
(* implements PromptService, a cancellation answers every call, and no     *)
(* extension message waits behind an active cancellation.                  *)
(***************************************************************************)
EXTENDS PromptSchedulerProofs

(***************************************************************************)
(* The refinement.                                                         *)
(***************************************************************************)
\* Using senders the adapter holds answers those calls whose handlers wait on
\* the channel; the others keep their answer in the channel.
LEMMA AnswerRefines ==
  ASSUME TypeOK, Custody, NEW S, NEW a \in {"end_turn", "cancelled"},
         S \subseteq active_prompts \cup queued_prompt_completions,
         completion' = Completed(S, a), handler' = handler
  PROVE  Service!Next
<1> DEFINE R == {w \in S : handler[w] = "wait"}
<1>1. R \in SUBSET Waiters
  BY IdSets DEF TypeOK, AdapterTypeOK
<1>2. \A w \in Waiters : w \in S => completion[w] = "none"
  BY DEF Custody, WaiterHeld
<1>3. \A w \in R : status[w] = "pending"
  BY <1>1, <1>2 DEF status
<1>4. status' = [w \in Waiters |-> IF w \in R THEN a ELSE status[w]]
  BY <1>1, <1>2 DEF status, Completed
<1>5. Service!Answer(R, a)
  BY <1>3, <1>4 DEF Service!Answer
<1> QED BY <1>1, <1>5 DEF Service!Next

\* A handler that reaches the channel finds its answer there, or waits.
LEMMA WaitRefines ==
  ASSUME TypeOK, NEW w \in Waiters, handler[w] \in {"publish", "request"},
         handler' = [handler EXCEPT ![w] = "wait"], completion' = completion
  PROVE  Service!Next \/ UNCHANGED status
<1>1. handler \in [Waiters -> {"new", "publish", "request", "wait", "failed"}]
  BY DEF TypeOK, CallTypeOK
<1>2. CASE completion[w] = "none"
  BY <1>1, <1>2 DEF status
<1>3. CASE completion[w] # "none"
  <2>1. completion[w] \in {"end_turn", "cancelled"}
    BY <1>3 DEF TypeOK, CallTypeOK
  <2>2. status[w] = "pending"
    BY DEF status
  <2>3. status' = [v \in Waiters |-> IF v \in {w} THEN completion[w]
                                                  ELSE status[v]]
    BY <1>1, <1>3 DEF status
  <2>4. Service!Answer({w}, completion[w])
    BY <2>2, <2>3 DEF Service!Answer
  <2> QED BY <2>1, <2>4 DEF Service!Next
<1> QED BY <1>2, <1>3

\* A call leaves the state "new", or its handler returns an error.
LEMMA SubmitRefines ==
  ASSUME TypeOK, Custody, NEW w \in Waiters, completion' = completion,
         \/ /\ handler[w] = "new"
            /\ \E pc \in {"publish", "request", "failed"} :
                 handler' = [handler EXCEPT ![w] = pc]
         \/ /\ handler[w] = "request"
            /\ handler' = [handler EXCEPT ![w] = "failed"]
  PROVE  Service!Next
<1>1. handler \in [Waiters -> {"new", "publish", "request", "wait", "failed"}]
  BY DEF TypeOK, CallTypeOK
<1>2. status[w] \in {"new", "pending"}
  BY DEF status
<1>3. CASE handler'[w] = "failed"
  <2>1. status' = [status EXCEPT ![w] = "failed"]
    BY <1>1, <1>3 DEF status
  <2> QED BY <1>2, <2>1 DEF Service!Next, Service!Refuse, Service!Open
<1>4. CASE handler'[w] # "failed"
  <2>1. status[w] = "new" /\ status' = [status EXCEPT ![w] = "pending"]
    BY <1>1, <1>4 DEF status
  <2> QED BY <2>1 DEF Service!Next, Service!Submit
<1> QED BY <1>3, <1>4

\* Every step is a step of the service or leaves the client's view alone.
LEMMA ServiceStep ==
  TypeOK /\ Custody /\ [Next]_vars => Service!Next \/ UNCHANGED status
<1> SUFFICES ASSUME TypeOK, Custody, [Next]_vars
             PROVE  Service!Next \/ UNCHANGED status
  OBVIOUS
<1>1. CASE UNCHANGED waiterVars
  BY <1>1 DEF waiterVars, status
<1>2. ASSUME NEW p \in Prompts, prompt(p) \/ promptPlanFault(p)
      PROVE  Service!Next
  BY <1>2, SubmitRefines, IdSets DEF prompt, promptPlanFault
<1>3. ASSUME NEW b \in BridgeCmds, run_bridge_command(b) PROVE Service!Next
  BY <1>3, SubmitRefines, IdSets DEF run_bridge_command
<1>4. ASSUME NEW w \in Waiters, promptRejected(w) PROVE Service!Next
  BY <1>4, SubmitRefines DEF promptRejected
<1>5. ASSUME NEW w \in Waiters, promptQueued(w) \/ promptAccepted(w)
      PROVE  Service!Next \/ UNCHANGED status
  BY <1>5, WaitRefines DEF promptQueued, promptAccepted
<1>6. ASSUME NEW c \in Cancels, cancel(c) PROVE Service!Next
  BY <1>6, AnswerRefines DEF cancel, DrainQueue
<1>7. ASSUME NEW id \in Rows, queue_remove(id) PROVE Service!Next
  BY <1>7, AnswerRefines DEF queue_remove
<1>8. CASE queue_clear
  BY <1>8, AnswerRefines DEF queue_clear, DrainQueue
<1>9. ASSUME NEW s \in Sessions, replace_bootstrap(s) PROVE Service!Next
  BY <1>9, AnswerRefines DEF replace_bootstrap
<1>10. ASSUME NEW i \in Ids, dispatchRejected(i) \/ interjectRejected(i)
       PROVE  Service!Next
  BY <1>10, AnswerRefines DEF dispatchRejected, interjectRejected
<1>11. ASSUME NEW i \in Ids, probeFinish(i) PROVE Service!Next
  BY <1>11, AnswerRefines DEF probeFinish
<1>12. CASE settledFinish
  BY <1>12, AnswerRefines DEF settledFinish
<1>13. CASE on_process_exit
  BY <1>13, AnswerRefines DEF on_process_exit, DrainQueue
<1>14. CASE UNCHANGED vars
  BY <1>1, <1>14 DEF vars
<1>15. ASSUME Client PROVE Service!Next \/ UNCHANGED status
  BY <1>1, <1>2, <1>3, <1>6, <1>7, <1>8, <1>9, <1>15
     DEF Client, queue_interject, queue_reorder, execute_bash
<1>16. ASSUME NEW w \in Waiters, PromptHandler(w)
       PROVE  Service!Next \/ UNCHANGED status
  BY <1>4, <1>5, <1>16 DEF PromptHandler
<1>17. ASSUME NEW i \in Ids, Delivery(i) PROVE Service!Next \/ UNCHANGED status
  BY <1>1, <1>10, <1>17
     DEF Delivery, dispatchSend, dispatchAccepted, dispatchRetry,
         interjectSend, interjectAccepted
<1>18. ASSUME NEW i \in Ids, ProbeTask(i)
       PROVE  Service!Next \/ UNCHANGED status
  BY <1>1, <1>11, <1>18 DEF ProbeTask, probeWake, probeIdle, probeDispatch
<1>19. ASSUME NEW c \in Cancels, SettleTask(c)
       PROVE  Service!Next \/ UNCHANGED status
  BY <1>1, <1>19
     DEF SettleTask, cancelNotify, settlePoll, settleConfirmed, settleAgain,
         settleDeadline, settleDispatch
<1>20. ASSUME EventLoop PROVE Service!Next \/ UNCHANGED status
  BY <1>1, <1>12, <1>13, <1>20
     DEF EventLoop, on_agent_start, on_agent_settled, settledReset,
         settledDispatch, enqueue_extension_message, enqueueDispatch,
         enqueueInterject
<1>21. ASSUME Pi PROVE Service!Next \/ UNCHANGED status
  BY <1>1, <1>21
     DEF Pi, PiReads, PiDecides, PiStartsRun, PiSteersRun, PiConsumes,
         PiRefuses, Decide, PiSettles, PiSendsMessage, PiExits, RequestFails,
         bashReturned
<1>22. CASE interjectDispatch
  BY <1>1, <1>22 DEF interjectDispatch
<1> QED
  BY <1>14, <1>15, <1>16, <1>17, <1>18, <1>19, <1>20, <1>21, <1>22
     DEF Next, Adapter

\* The scheduler implements the service its client sees: a submitted call is
\* answered at most once and an answer is final, whatever the prompt, cancel,
\* settle, probe and dispatch code do to the shared state in between.
THEOREM SchedulerRefinesService == Spec => ImplementsService
<1>1. Init => Service!Init
  BY DEF Init, Service!Init, status
<1>2. TypeOK /\ Custody /\ [Next]_vars => [Service!Next]_status
  BY ServiceStep
<1>3. Init => Custody
  BY InitHolds
<1>4. TypeOK /\ Custody /\ [Next]_vars => Custody'
  BY CustodyStep
<1> QED BY <1>1, <1>2, <1>3, <1>4, TypeCorrect, PTL
       DEF Spec, ImplementsService, Service!Spec
----------------------------------------------------------------------------
(***************************************************************************)
(* Cancellation.  Only cancel starts a settle task, which needs that an    *)
(* idle poll on its way to Pi belongs to one that was started.             *)
(***************************************************************************)
SettleLines ==
  \A k \in 1..Len(toPi) :
    toPi[k].kind = "settle" => settle[toPi[k].id] # "none"

\* A started settle task stays one, and none starts.
SameSettles ==
  \A c \in Cancels : settle'[c] = "none" <=> settle[c] = "none"

\* A line is appended, the first one is taken, or Pi is gone.
LEMMA LinesKept ==
  ASSUME TypeOK, SettleLines,
         \A c \in Cancels : settle[c] # "none" => settle'[c] # "none",
         \/ toPi' = toPi
         \/ toPi' = <<>>
         \/ toPi # <<>> /\ toPi' = Tail(toPi)
         \/ \E kind, id : /\ toPi' = Append(toPi, [kind |-> kind, id |-> id])
                          /\ kind = "settle" => settle'[id] # "none"
  PROVE  SettleLines'
<1>1. \A k \in 1..Len(toPi) :
        toPi[k].kind = "settle" => settle'[toPi[k].id] # "none"
  BY DEF SettleLines, TypeOK, PiTypeOK, Lines
<1>2. toPi \in Seq(Lines)
  BY DEF TypeOK, PiTypeOK
<1>3. CASE toPi' = toPi \/ toPi' = <<>>
  BY <1>1, <1>3 DEF SettleLines
<1>4. CASE toPi # <<>> /\ toPi' = Tail(toPi)
  <2>1. \A k \in 1..Len(toPi') :
          k + 1 \in 1..Len(toPi) /\ toPi'[k] = toPi[k + 1]
    BY <1>2, <1>4
  <2> QED BY <1>1, <2>1 DEF SettleLines
<1>5. ASSUME NEW kind, NEW id,
             toPi' = Append(toPi, [kind |-> kind, id |-> id]),
             kind = "settle" => settle'[id] # "none"
      PROVE  SettleLines'
  <2>1. \A k \in 1..Len(toPi') :
          \/ k \in 1..Len(toPi) /\ toPi'[k] = toPi[k]
          \/ toPi'[k] = [kind |-> kind, id |-> id]
    BY <1>2, <1>5
  <2> QED BY <1>1, <1>5, <2>1 DEF SettleLines
<1> QED BY <1>3, <1>4, <1>5

\* The answer to the oldest line goes to a task that was started.
LEMMA HeadLine ==
  ASSUME TypeOK, SettleLines, toPi # <<>>, Head(toPi).kind = "settle"
  PROVE  Head(toPi).id \in Cancels /\ settle[Head(toPi).id] # "none"
<1>1. 1 \in 1..Len(toPi) /\ Head(toPi) = toPi[1] /\ Head(toPi) \in Lines
  BY DEF TypeOK, PiTypeOK
<1> QED BY <1>1 DEF SettleLines, Lines

\* Only cancel starts a settle task.
LEMMA SettlesStep ==
  ASSUME TypeOK, SettleLines, Next
  PROVE  \/ SameSettles
         \/ \E c \in Cancels : cancel(c)
<1> USE DEF SameSettles
<1>1. CASE UNCHANGED settle
  BY <1>1
<1>2. ASSUME Client, ~ \E c \in Cancels : cancel(c) PROVE UNCHANGED settle
  BY <1>2
     DEF Client, prompt, promptPlanFault, run_bridge_command, queue_interject,
         queue_remove, queue_clear, queue_reorder, replace_bootstrap,
         execute_bash, pollVars
<1>3. ASSUME NEW w \in Waiters, PromptHandler(w) PROVE UNCHANGED settle
  BY <1>3 DEF PromptHandler, promptQueued, promptAccepted, promptRejected,
              pollVars
<1>4. ASSUME NEW i \in Ids, Delivery(i) PROVE UNCHANGED settle
  BY <1>4
     DEF Delivery, dispatchSend, dispatchAccepted, dispatchRejected,
         dispatchRetry, interjectSend, interjectAccepted, interjectRejected,
         pollVars
<1>5. ASSUME NEW i \in Ids, ProbeTask(i) PROVE UNCHANGED settle
  BY <1>5 DEF ProbeTask, probeWake, probeIdle, probeFinish, probeDispatch
<1>6. ASSUME EventLoop \/ interjectDispatch PROVE UNCHANGED settle
  BY <1>6
     DEF EventLoop, on_agent_start, on_agent_settled, settledReset,
         settledFinish, settledDispatch, enqueue_extension_message,
         enqueueDispatch, enqueueInterject, on_process_exit,
         interjectDispatch, pollVars
<1>7. ASSUME NEW c \in Cancels, SettleTask(c) PROVE SameSettles
  BY <1>7
     DEF SettleTask, cancelNotify, settlePoll, settleConfirmed, settleAgain,
         settleDeadline, settleDispatch, cancellation_idle_confirmed, TypeOK,
         TaskTypeOK
<1>8. CASE PiReads
  BY <1>8, HeadLine DEF PiReads, TypeOK, TaskTypeOK
<1>9. CASE RequestFails
  BY <1>9, HeadLine DEF RequestFails, TypeOK, TaskTypeOK
<1>10. CASE PiExits
  BY <1>10 DEF PiExits, TypeOK, TaskTypeOK
<1>11. ASSUME Pi, ~PiReads, ~RequestFails, ~PiExits PROVE UNCHANGED settle
  BY <1>11
     DEF Pi, PiDecides, PiStartsRun, PiSteersRun, PiConsumes, PiRefuses,
         Decide, PiSettles, PiSendsMessage, bashReturned, pollVars
<1> QED
  BY <1>1, <1>2, <1>3, <1>4, <1>5, <1>6, <1>7, <1>8, <1>9, <1>10, <1>11
     DEF Next, Adapter

\* Every line on its way to Pi keeps its settle task.
LEMMA SettleLinesStep == TypeOK /\ SettleLines /\ [Next]_vars => SettleLines'
<1> SUFFICES ASSUME TypeOK, SettleLines, [Next]_vars PROVE SettleLines'
  OBVIOUS
<1>0. CASE UNCHANGED vars
  BY <1>0 DEF vars, pollVars, SettleLines
<1> SUFFICES ASSUME Next PROVE SettleLines'
  BY <1>0
<1>1. \A c \in Cancels : settle[c] # "none" => settle'[c] # "none"
  BY SettlesStep DEF SameSettles, cancel, TypeOK, TaskTypeOK
<1>u. CASE UNCHANGED toPi
  BY <1>1, <1>u, LinesKept
<1>w. ASSUME NEW kind, NEW id, Write(kind, id), kind # "settle"
      PROVE  SettleLines'
  BY <1>1, <1>w, LinesKept DEF Write
<1>2. ASSUME NEW c \in Cancels, settlePoll(c) PROVE SettleLines'
  BY <1>1, <1>2, LinesKept DEF settlePoll, Write, TypeOK, TaskTypeOK
<1>3. ASSUME NEW c \in Cancels, SettleTask(c), ~settlePoll(c)
      PROVE  SettleLines'
  BY <1>1, <1>3, LinesKept
     DEF SettleTask, cancelNotify, settleConfirmed, settleAgain,
         settleDeadline, settleDispatch, Write
<1>4. ASSUME Client PROVE SettleLines'
  BY <1>4, <1>u, <1>w
     DEF Client, prompt, promptPlanFault, run_bridge_command, queue_interject,
         queue_remove, queue_clear, queue_reorder, replace_bootstrap,
         execute_bash, cancel
<1>5. ASSUME NEW w \in Waiters, PromptHandler(w) PROVE SettleLines'
  BY <1>5, <1>u, <1>w
     DEF PromptHandler, promptQueued, promptAccepted, promptRejected
<1>6. ASSUME NEW i \in Ids, Delivery(i) PROVE SettleLines'
  BY <1>6, <1>u, <1>w
     DEF Delivery, dispatchSend, dispatchAccepted, dispatchRejected,
         dispatchRetry, interjectSend, interjectAccepted, interjectRejected
<1>7. ASSUME NEW i \in Ids, ProbeTask(i) PROVE SettleLines'
  BY <1>7, <1>u, <1>w
     DEF ProbeTask, probeWake, probeIdle, probeFinish, probeDispatch
<1>8. ASSUME EventLoop \/ interjectDispatch PROVE SettleLines'
  BY <1>8, <1>u, <1>w
     DEF EventLoop, on_agent_start, on_agent_settled, settledReset,
         settledFinish, settledDispatch, enqueue_extension_message,
         enqueueDispatch, enqueueInterject, on_process_exit,
         interjectDispatch
<1>9. ASSUME Pi PROVE SettleLines'
  BY <1>1, <1>9, LinesKept
     DEF Pi, PiReads, PiDecides, PiStartsRun, PiSteersRun, PiConsumes,
         PiRefuses, Decide, PiSettles, PiSendsMessage, PiExits, RequestFails,
         bashReturned
<1> QED
  BY <1>2, <1>3, <1>4, <1>5, <1>6, <1>7, <1>8, <1>9 DEF Next, Adapter

\* A cancellation uses every sender that is held, and by Custody that is
\* every sender somebody still waits for.
LEMMA CancelUsesAll ==
  ASSUME TypeOK, Custody, NEW c \in Cancels, cancel(c),
         NEW w \in Waiters, Submitted(w)
  PROVE  completion'[w] # "none"
<1>1. completion' = Completed(active_prompts
                                \cup (queued_prompt_completions
                                        \cap Range(local_entries)),
                              "cancelled")
  BY DEF cancel, DrainQueue
<1>2. completion[w] = "none"
        => w \in active_prompts \cup queued_prompt_completions
  BY DEF Custody, WaiterHeld
<1>3. queued_prompt_completions \subseteq Range(local_entries)
  BY DEF Custody, QueuedHasRow
<1> QED BY <1>1, <1>2, <1>3 DEF Completed

\* The step in which session/cancel starts a cancellation answers every call
\* submitted so far, whether it was queued, on its way to Pi or running.
THEOREM CancelAnswers == Spec => CancelAnswersAll
<1> DEFINE Act == \A c \in Cancels :
                    settle[c] = "none" /\ settle'[c] # "none"
                      => \A w \in Waiters :
                           Submitted(w) => completion'[w] # "none"
<1>1. TypeOK /\ Custody /\ SettleLines /\ [Next]_vars => [Act]_vars
  BY SettlesStep, CancelUsesAll DEF SameSettles
<1>2. Init => Custody
  BY InitHolds
<1>3. TypeOK /\ Custody /\ [Next]_vars => Custody'
  BY CustodyStep
<1>4. Init => SettleLines
  BY DEF Init, SettleLines
<1>5. TypeOK /\ SettleLines /\ [Next]_vars => SettleLines'
  BY SettleLinesStep
<1> QED BY <1>1, <1>2, <1>3, <1>4, <1>5, TypeCorrect, PTL
       DEF Spec, CancelAnswersAll
----------------------------------------------------------------------------
(***************************************************************************)
(* The barrier against extension messages.                                 *)
(***************************************************************************)
\* Prompts apart, the queue takes in nothing.
NoNewMessage == Range(local_entries') \subseteq Range(local_entries) \cup Prompts

\* Nothing but a message that is queued during a cancellation could break it.
LEMMA BarrierKept ==
  ASSUME CancelBarrier,
         ~cancelling' \/ local_entries' = <<>> \/ (cancelling /\ NoNewMessage)
  PROVE  CancelBarrier'
<1>1. Prompts \cap ExtMsgs = {}
  BY SetsAssumption
<1>2. CASE local_entries' = <<>>
  BY <1>2 DEF CancelBarrier, Range
<1>3. CASE cancelling /\ NoNewMessage
  BY <1>1, <1>3 DEF CancelBarrier, NoNewMessage
<1> QED BY <1>2, <1>3 DEF CancelBarrier

\* Dispatch and send-now do not run while a cancellation is active.
LEMMA DispatchIdle ==
  ASSUME NEW act, NEW frames, dispatch_next_queued(act, frames)
  PROVE  ~cancelling' \/ (cancelling /\ UNCHANGED local_entries)
BY DEF dispatch_next_queued, WillDispatch, adapter_busy, runVars, queueVars

\* interject_local_queue adds no row.
LEMMA InterjectKeeps ==
  ASSUME TypeOK, NEW id, InterjectSteer(id) \/ InterjectFront(id)
  PROVE  ~cancelling' \/ (cancelling /\ NoNewMessage)
<1>1. id \in Range(local_entries) /\ id \in Rows
  BY DEF InterjectSteer, InterjectFront, Queued, Range, TypeOK, AdapterTypeOK
<1>2. /\ Without(id) \in Seq(Rows)
      /\ Range(Without(id)) \subseteq Range(local_entries)
  BY WithoutRows DEF TypeOK, AdapterTypeOK
<1>3. CASE InterjectSteer(id)
  BY <1>2, <1>3 DEF InterjectSteer, runVars, NoNewMessage
<1>4. CASE InterjectFront(id)
  <2>1. Range(<<id>> \o Without(id)) = Range(Without(id)) \cup {id}
    BY <1>1, <1>2, PushFrontRows
  <2> QED BY <1>1, <1>2, <1>4, <2>1 DEF InterjectFront, runVars, NoNewMessage,
             TypeOK, AdapterTypeOK
<1> QED BY <1>3, <1>4

\* Every step keeps the barrier.
LEMMA BarrierStep == TypeOK /\ CancelBarrier /\ [Next]_vars => CancelBarrier'
<1> SUFFICES ASSUME TypeOK, CancelBarrier, [Next]_vars PROVE CancelBarrier'
  OBVIOUS
<1> USE DEF adapterVars, queueVars, runVars
<1>1. CASE UNCHANGED <<local_entries, cancelling>>
  BY <1>1 DEF CancelBarrier
<1>2. CASE ~cancelling'
  BY <1>2 DEF CancelBarrier
<1>3. ASSUME NEW act, NEW frames, dispatch_next_queued(act, frames)
      PROVE  CancelBarrier'
  BY <1>3, DispatchIdle, BarrierKept DEF NoNewMessage
<1>4. ASSUME NEW p \in Prompts, prompt(p) \/ promptPlanFault(p)
      PROVE  CancelBarrier'
  <2>1. CASE EnqueuePrompt(p)
    <3>1. Range(Append(local_entries, p)) = Range(local_entries) \cup {p}
      BY AppendRows, IdSets DEF TypeOK, AdapterTypeOK
    <3> QED BY <1>2, <2>1, <3>1, BarrierKept DEF EnqueuePrompt, NoNewMessage
  <2>2. CASE ActivatePrompt(p)
    BY <1>1, <2>2 DEF ActivatePrompt
  <2> QED BY <1>4, <2>1, <2>2 DEF prompt, promptPlanFault
<1>5. ASSUME NEW c \in Cancels, cancel(c) PROVE CancelBarrier'
  BY <1>5, BarrierKept DEF cancel, DrainQueue
<1>6. ASSUME NEW id \in Rows, queue_interject(id) PROVE CancelBarrier'
  BY <1>6, InterjectKeeps, BarrierKept DEF queue_interject
<1>7. ASSUME NEW id \in Rows, queue_remove(id) PROVE CancelBarrier'
  <2>1. NoNewMessage
    BY <1>7, WithoutRows DEF queue_remove, NoNewMessage, TypeOK, AdapterTypeOK
  <2> QED BY <1>2, <1>7, <2>1, BarrierKept DEF queue_remove
<1>8. CASE queue_clear
  BY <1>8, BarrierKept DEF queue_clear, DrainQueue
<1>9. CASE queue_reorder
  <2>1. NoNewMessage
    BY <1>9 DEF queue_reorder, NoNewMessage
  <2> QED BY <1>2, <1>9, <2>1, BarrierKept DEF queue_reorder
<1>10. ASSUME NEW s \in Sessions, replace_bootstrap(s) PROVE CancelBarrier'
  BY <1>2, <1>10 DEF replace_bootstrap
<1>11. ASSUME NEW b \in BridgeCmds, run_bridge_command(b) PROVE CancelBarrier'
  BY <1>1, <1>11 DEF run_bridge_command
<1>12. ASSUME NEW w \in Waiters, PromptHandler(w) PROVE CancelBarrier'
  BY <1>1, <1>3, <1>12
     DEF PromptHandler, promptQueued, promptAccepted, promptRejected
<1>13. ASSUME NEW i \in Ids, Delivery(i) PROVE CancelBarrier'
  BY <1>1, <1>3, <1>13
     DEF Delivery, dispatchSend, dispatchAccepted, dispatchRejected,
         dispatchRetry, interjectSend, interjectAccepted, interjectRejected
<1>14. ASSUME NEW i \in Ids, ProbeTask(i) PROVE CancelBarrier'
  BY <1>1, <1>2, <1>3, <1>14
     DEF ProbeTask, probeWake, probeIdle, probeFinish, probeDispatch
<1>15. ASSUME NEW c \in Cancels, SettleTask(c) PROVE CancelBarrier'
  BY <1>1, <1>2, <1>3, <1>15
     DEF SettleTask, cancelNotify, settlePoll, settleConfirmed, settleAgain,
         settleDeadline, settleDispatch
<1>16. CASE enqueue_extension_message
  BY <1>1, <1>2, <1>16 DEF enqueue_extension_message
<1>17. CASE enqueueInterject
  BY <1>1, <1>17, InterjectKeeps, BarrierKept DEF enqueueInterject
<1>18. CASE EventLoop \/ interjectDispatch
  BY <1>1, <1>2, <1>3, <1>16, <1>17, <1>18
     DEF EventLoop, on_agent_start, on_agent_settled, settledReset,
         settledFinish, settledDispatch, enqueueDispatch, on_process_exit,
         interjectDispatch
<1>19. CASE Pi
  BY <1>1, <1>19
     DEF Pi, PiReads, PiDecides, PiStartsRun, PiSteersRun, PiConsumes,
         PiRefuses, Decide, PiSettles, PiSendsMessage, PiExits, RequestFails,
         bashReturned
<1>20. CASE execute_bash \/ UNCHANGED vars
  BY <1>1, <1>20 DEF execute_bash, vars
<1> QED
  BY <1>4, <1>5, <1>6, <1>7, <1>8, <1>9, <1>10, <1>11, <1>12, <1>13, <1>14,
     <1>15, <1>18, <1>19, <1>20 DEF Next, Client, Adapter

\* While a cancellation is active no extension message waits in the queue, so
\* none is dispatched behind the user's Esc that was not on its way already.
THEOREM CancelIsBarrier == Spec => []CancelBarrier
<1>1. Init => CancelBarrier
  BY DEF Init, CancelBarrier
<1>2. TypeOK /\ CancelBarrier /\ [Next]_vars => CancelBarrier'
  BY BarrierStep
<1> QED BY <1>1, <1>2, TypeCorrect, PTL DEF Spec
============================================================================
