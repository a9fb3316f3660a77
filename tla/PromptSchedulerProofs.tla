----------------------- MODULE PromptSchedulerProofs -----------------------
(***************************************************************************)
(* Proofs about PromptScheduler, for every set of prompts, extension       *)
(* messages and bridge commands and for every bound.                       *)
(***************************************************************************)
EXTENDS PromptScheduler, TLAPS

(***************************************************************************)
(* Queue rows.                                                             *)
(***************************************************************************)
\* What is left of a sequence without its k-th element.
LEMMA RemoveAtElements ==
  ASSUME NEW S, NEW s \in Seq(S), NEW k \in 1..Len(s)
  PROVE  /\ RemoveAt(s, k) \in Seq(S)
         /\ Len(RemoveAt(s, k)) = Len(s) - 1
         /\ \A i \in 1..(Len(s) - 1) :
              RemoveAt(s, k)[i] = IF i < k THEN s[i] ELSE s[i + 1]
<1> DEFINE u == SubSeq(s, 1, k - 1)
           v == SubSeq(s, k + 1, Len(s))
<1>1. /\ u \in Seq(S)
      /\ Len(u) = k - 1
      /\ \A i \in 1..(k - 1) : u[i] = s[i]
  OBVIOUS
<1>2. /\ v \in Seq(S)
      /\ Len(v) = Len(s) - k
      /\ \A i \in 1..(Len(s) - k) : v[i] = s[i + k]
  OBVIOUS
<1>3. RemoveAt(s, k) = u \o v
  BY DEF RemoveAt
<1> HIDE DEF u, v
<1>4. /\ u \o v \in Seq(S)
      /\ Len(u \o v) = Len(s) - 1
  BY <1>1, <1>2
<1>5. ASSUME NEW i \in 1..(Len(s) - 1)
      PROVE  (u \o v)[i] = IF i < k THEN s[i] ELSE s[i + 1]
  <2>1. CASE i < k
    BY <1>1, <1>2, <2>1
  <2>2. CASE ~(i < k)
    <3>1. (u \o v)[i] = v[i - (k - 1)]
      BY <1>1, <1>2, <2>2
    <3>2. i - (k - 1) \in 1..(Len(s) - k) /\ i - (k - 1) + k = i + 1
      BY <2>2
    <3> QED BY <1>2, <2>2, <3>1, <3>2
  <2> QED BY <2>1, <2>2
<1> QED BY <1>3, <1>4, <1>5

\* Taking a row out of the queue (QueueMirror::take_local) yields a queue of
\* rows that keeps every other row, adds none and repeats none.
LEMMA WithoutRows ==
  ASSUME local_entries \in Seq(Rows), NEW id
  PROVE  /\ Without(id) \in Seq(Rows)
         /\ Range(Without(id)) \subseteq Range(local_entries)
         /\ Range(local_entries) \ {id} \subseteq Range(Without(id))
         /\ IsInjective(local_entries)
              => IsInjective(Without(id)) /\ id \notin Range(Without(id))
<1>1. CASE ~ \E k \in DOMAIN local_entries : local_entries[k] = id
  BY <1>1 DEF Without, Range
<1>2. CASE \E k \in DOMAIN local_entries : local_entries[k] = id
  <2>0. PICK k \in DOMAIN local_entries :
          /\ local_entries[k] = id
          /\ Without(id) = RemoveAt(local_entries, k)
    BY <1>2 DEF Without
  <2>1. /\ k \in 1..Len(local_entries)
        /\ local_entries[k] = id
        /\ Without(id) = RemoveAt(local_entries, k)
    BY <2>0
  <2> DEFINE s == local_entries
             t == Without(id)
  <2>2. /\ t \in Seq(Rows)
        /\ Len(t) = Len(s) - 1
        /\ \A i \in 1..(Len(s) - 1) : t[i] = IF i < k THEN s[i] ELSE s[i + 1]
    BY <2>1, RemoveAtElements
  <2> HIDE DEF t
  <2>3. Range(t) \subseteq Range(s)
    BY <2>2 DEF Range
  <2>4. ASSUME NEW x \in Range(s), x # id PROVE x \in Range(t)
    <3>1. PICK j \in 1..Len(s) : s[j] = x /\ j # k
      BY <2>1, <2>4 DEF Range
    <3>2. CASE j < k
      BY <2>2, <3>1, <3>2 DEF Range
    <3>3. CASE j > k
      <4>1. j - 1 \in 1..Len(t) /\ t[j - 1] = x
        BY <2>2, <3>1, <3>3
      <4> QED BY <4>1, <2>2 DEF Range
    <3> QED BY <3>1, <3>2, <3>3, <2>2
  <2>5. ASSUME IsInjective(s) PROVE IsInjective(t) /\ id \notin Range(t)
    <3>1. \A a, b \in 1..Len(s) : s[a] = s[b] => a = b
      BY <2>5 DEF IsInjective
    <3>2. ASSUME NEW a \in 1..Len(t), NEW b \in 1..Len(t), t[a] = t[b]
          PROVE  a = b
      BY <2>1, <2>2, <3>1, <3>2
    <3>3. ASSUME NEW a \in 1..Len(t) PROVE t[a] # id
      BY <2>1, <2>2, <3>1
    <3>4. DOMAIN t = 1..Len(t)
      BY <2>2
    <3> QED BY <3>2, <3>3, <3>4 DEF IsInjective, Range
  <2> QED BY <2>1, <2>2, <2>3, <2>4, <2>5 DEF t
<1> QED BY <1>1, <1>2

\* What is left after one of the counted events stays a budget.
LEMMA Spending ==
  ASSUME NEW b \in Budgets
  PROVE  /\ b.cancel > 0 => [b EXCEPT !.cancel = @ - 1] \in Budgets
         /\ b.refresh > 0 => [b EXCEPT !.refresh = @ - 1] \in Budgets
         /\ b.bash > 0 => [b EXCEPT !.bash = @ - 1] \in Budgets
         /\ b.queue > 0 => [b EXCEPT !.queue = @ - 1] \in Budgets
  BY DEF Budgets

\* How the sets of ids include one another.
LEMMA IdSets ==
  /\ Prompts \subseteq Waiters /\ BridgeCmds \subseteq Waiters
  /\ Prompts \subseteq Rows /\ ExtMsgs \subseteq Rows
  /\ Waiters \subseteq Ids /\ Rows \subseteq Ids
  /\ Rows \cap Waiters = Prompts
  /\ None \notin Ids
BY SetsAssumption DEF Waiters, Rows, Ids

\* One turn of dispatch_next_queued keeps the scheduler's state well typed.
LEMMA DispatchType ==
  ASSUME TypeOK, NEW act \in SUBSET active_prompts,
         NEW frames \in [Ids -> {"none", "publish", "request", "ok", "err",
                                "retry"}],
         dispatch_next_queued(act, frames)
  PROVE  /\ AdapterTypeOK'
         /\ frame' \in [Ids -> {"none", "publish", "request", "ok", "err",
                                "retry"}]
         /\ via' \in [Ids -> {"none", "prompt", "steer", "dispatch",
                              "interject", "bridge"}]
<1>1. CASE WillDispatch(act)
  <2> DEFINE e == Head(local_entries)
  <2>1. /\ e \in Rows
        /\ Tail(local_entries) \in Seq(Rows)
    BY <1>1 DEF TypeOK, AdapterTypeOK, WillDispatch
  <2>2. /\ local_entries' = Tail(local_entries)
        /\ active_prompts' = act \cup ({e} \cap queued_prompt_completions)
        /\ agent_started' = agent_started \cap active_prompts'
        /\ queued_prompt_completions' = queued_prompt_completions \ {e}
        /\ agent_running' = TRUE
        /\ running' = e
        /\ frame' = [frames EXCEPT ![e] = "publish"]
        /\ via' = [via EXCEPT ![e] = "dispatch"]
        /\ cancelling' = cancelling
    BY <1>1 DEF dispatch_next_queued, SetActive
  <2> HIDE DEF e
  <2> QED BY <2>1, <2>2, IdSets DEF TypeOK, AdapterTypeOK, CallTypeOK
<1>2. CASE ~WillDispatch(act)
  BY <1>2 DEF dispatch_next_queued, SetActive, queueVars, runVars, TypeOK,
     AdapterTypeOK, CallTypeOK
<1> QED BY <1>1, <1>2

\* The event loop's program counter while it follows a dispatch call.
LEMMA LoopType ==
  ASSUME TypeOK, NEW act, LoopFollowsDispatch(act)
  PROVE  loop' \in {"recv", "deliver"} /\ loopId' \in Ids \cup {None}
<1>1. WillDispatch(act) => Head(local_entries) \in Ids
  BY IdSets DEF TypeOK, AdapterTypeOK, WillDispatch
<1> QED BY <1>1 DEF LoopFollowsDispatch

\* The two dispositions of a prompt.
LEMMA DispositionType ==
  ASSUME TypeOK, NEW p \in Prompts, EnqueuePrompt(p) \/ ActivatePrompt(p)
  PROVE  AdapterTypeOK'
<1>1. CASE EnqueuePrompt(p)
  BY <1>1, IdSets DEF TypeOK, AdapterTypeOK, EnqueuePrompt, promptVars,
    runVars
<1>2. CASE ActivatePrompt(p)
  BY <1>2, IdSets DEF TypeOK, AdapterTypeOK, ActivatePrompt, queueVars
<1> QED BY <1>1, <1>2

\* The branches of interject_local_queue.
LEMMA InterjectType ==
  ASSUME TypeOK, NEW id \in Rows, InterjectSteer(id) \/ InterjectFront(id)
  PROVE  AdapterTypeOK'
<1>1. Without(id) \in Seq(Rows)
  BY WithoutRows DEF TypeOK, AdapterTypeOK
<1>2. CASE InterjectSteer(id)
  BY <1>1, <1>2, IdSets DEF TypeOK, AdapterTypeOK, InterjectSteer, runVars
<1>3. CASE InterjectFront(id)
  <2>1. local_entries' \in Seq(Rows)
    BY <1>1, <1>3 DEF InterjectFront
  <2> QED
    BY <1>3, <2>1 DEF TypeOK, AdapterTypeOK, InterjectFront, promptVars,
      runVars
<1> QED BY <1>2, <1>3

\* The end of a run of Pi, and what an abort may leave of it.
LEMMA RunEndType ==
  ASSUME TypeOK, Abort \/ EndRun
  PROVE  /\ events' \in Seq(Events)
         /\ piRun' \subseteq Ids
         /\ piStreaming' \in BOOLEAN
         /\ outcome' \in [Ids -> {"none", "running", "settled", "consumed",
                                  "rejected"}]
<1>0. /\ [type |-> "agent_start", id |-> None] \in Events
      /\ [type |-> "agent_settled", id |-> None] \in Events
      /\ events \in Seq(Events)
  BY DEF Events, TypeOK, PiTypeOK
<1>1. CASE EndRun
  <2>1. events' \in Seq(Events)
    BY <1>1, <1>0 DEF TypeOK, PiTypeOK, EndRun, Emit
  <2> QED BY <1>1, <2>1 DEF TypeOK, PiTypeOK, EndRun
<1>2. CASE Abort /\ ~EndRun
  <2>1. \/ events' = events
        \/ events' = Append(events, [type |-> "agent_start", id |-> None])
    BY <1>2 DEF Abort, Emit
  <2>2. events' \in Seq(Events)
    BY <1>0, <2>1
  <2> QED BY <1>2, <2>2 DEF Abort, TypeOK, PiTypeOK
<1> QED BY <1>1, <1>2

\* Writing a well-formed line keeps the channel to Pi well typed.
LEMMA LineType ==
  ASSUME TypeOK, NEW kind, NEW id, [kind |-> kind, id |-> id] \in Lines,
         Write(kind, id)
  PROVE  toPi' \in Seq(Lines)
BY DEF TypeOK, PiTypeOK, Write

\* Every step keeps the state well typed.
LEMMA TypeOKStep == TypeOK /\ [Next]_vars => TypeOK'
<1> SUFFICES ASSUME TypeOK, [Next]_vars PROVE TypeOK'
  OBVIOUS
<1> USE IdSets, BoundsAssumption
<1> USE DEF adapterVars, promptVars, queueVars, runVars, waiterVars,
            deliveryVars, pollVars, loopVars, callVars, piVars
<1>1. ASSUME NEW p \in Prompts, prompt(p) PROVE TypeOK'
  <2>1. AdapterTypeOK'
    BY <1>1, DispositionType DEF prompt
  <2>2. CallTypeOK' /\ TaskTypeOK'
    BY <1>1 DEF TypeOK, CallTypeOK, TaskTypeOK, prompt
  <2>3. \A mode \in {"prompt", "steer"} : [kind |-> mode, id |-> p] \in Lines
    BY DEF Lines
  <2>4. toPi' \in Seq(Lines)
    BY <1>1, <2>3, LineType DEF TypeOK, PiTypeOK, prompt
  <2>5. QED
    BY <1>1, <2>1, <2>2, <2>4 DEF TypeOK, PiTypeOK, prompt
<1>2. ASSUME NEW p \in Prompts, promptPlanFault(p) PROVE TypeOK'
  <2>1. AdapterTypeOK'
    BY <1>2, DispositionType DEF promptPlanFault
  <2>2. QED
    BY <1>2, <2>1 DEF TypeOK, CallTypeOK, TaskTypeOK, PiTypeOK,
      promptPlanFault
<1>3. ASSUME NEW b \in BridgeCmds, run_bridge_command(b) PROVE TypeOK'
  <2>1. AdapterTypeOK' /\ CallTypeOK'
    BY <1>3 DEF TypeOK, AdapterTypeOK, CallTypeOK, run_bridge_command
  <2>2. TaskTypeOK'
    BY <1>3 DEF TypeOK, TaskTypeOK, run_bridge_command
  <2>3. PiTypeOK'
    BY <1>3 DEF TypeOK, PiTypeOK, run_bridge_command, Write, Lines
  <2> QED BY <2>1, <2>2, <2>3 DEF TypeOK
<1>4. ASSUME NEW c \in Cancels, cancel(c) PROVE TypeOK'
  <2>1. local_entries' \in Seq(Rows)
    BY <1>4 DEF cancel, DrainQueue
  <2>2. AdapterTypeOK' /\ CallTypeOK'
    BY <1>4, <2>1 DEF TypeOK, AdapterTypeOK, CallTypeOK, cancel, DrainQueue,
      SetActive, Completed
  <2>3. TaskTypeOK'
    BY <1>4, Spending DEF TypeOK, TaskTypeOK, cancel
  <2>4. PiTypeOK'
    BY <1>4 DEF TypeOK, PiTypeOK, cancel
  <2>5. QED
    BY <2>2, <2>3, <2>4 DEF TypeOK
<1>5. ASSUME NEW id \in Rows, queue_interject(id) PROVE TypeOK'
  <2>1. AdapterTypeOK'
    BY <1>5, InterjectType DEF queue_interject
  <2>2. CallTypeOK'
    BY <1>5 DEF TypeOK, CallTypeOK, queue_interject, InterjectSteer,
      InterjectFront
  <2>3. TaskTypeOK' /\ PiTypeOK'
    BY <1>5, Spending DEF TypeOK, TaskTypeOK, PiTypeOK, queue_interject
  <2>4. QED
    BY <2>1, <2>2, <2>3 DEF TypeOK
<1>6. ASSUME NEW id \in Rows, queue_remove(id) PROVE TypeOK'
  <2>1. local_entries' \in Seq(Rows)
    BY <1>6, WithoutRows DEF TypeOK, AdapterTypeOK, queue_remove
  <2>2. AdapterTypeOK' /\ CallTypeOK'
    BY <1>6, <2>1 DEF TypeOK, AdapterTypeOK, CallTypeOK, queue_remove,
      Completed
  <2>3. TaskTypeOK' /\ PiTypeOK'
    BY <1>6, Spending DEF TypeOK, TaskTypeOK, PiTypeOK, queue_remove
  <2>4. QED
    BY <2>2, <2>3 DEF TypeOK
<1>7. ASSUME queue_clear PROVE TypeOK'
  <2>1. AdapterTypeOK' /\ CallTypeOK'
    BY <1>7 DEF TypeOK, AdapterTypeOK, CallTypeOK, queue_clear, DrainQueue,
      Completed
  <2>2. TaskTypeOK'
    BY <1>7, Spending DEF TypeOK, TaskTypeOK, queue_clear
  <2>3. PiTypeOK'
    BY <1>7 DEF TypeOK, PiTypeOK, queue_clear
  <2> QED BY <2>1, <2>2, <2>3 DEF TypeOK
<1>8. ASSUME queue_reorder PROVE TypeOK'
  <2>1. /\ Range(local_entries) \subseteq Rows
        /\ DOMAIN local_entries = 1..Len(local_entries)
    BY DEF TypeOK, AdapterTypeOK, Range
  <2>2. local_entries' \in [1..Len(local_entries) -> Range(local_entries)]
    BY <1>8, <2>1 DEF queue_reorder
  <2>3. local_entries' \in Seq(Rows)
    BY <2>1, <2>2 DEF TypeOK, AdapterTypeOK
  <2>4. AdapterTypeOK' /\ CallTypeOK'
    BY <1>8, <2>3 DEF TypeOK, AdapterTypeOK, CallTypeOK, queue_reorder
  <2>5. TaskTypeOK' /\ PiTypeOK'
    BY <1>8, Spending DEF TypeOK, TaskTypeOK, PiTypeOK, queue_reorder
  <2>6. QED
    BY <2>4, <2>5 DEF TypeOK
<1>9. ASSUME NEW s \in Sessions, replace_bootstrap(s) PROVE TypeOK'
  <2>1. local_entries' \in Seq(Rows)
    BY <1>9 DEF replace_bootstrap
  <2>2. AdapterTypeOK'
    BY <1>9, <2>1 DEF TypeOK, AdapterTypeOK, replace_bootstrap
  <2>3. CallTypeOK'
    BY <1>9 DEF TypeOK, CallTypeOK, replace_bootstrap, Completed
  <2>4. TaskTypeOK' /\ PiTypeOK'
    BY <1>9, Spending DEF TypeOK, TaskTypeOK, PiTypeOK, replace_bootstrap
  <2>5. QED
    BY <2>2, <2>3, <2>4 DEF TypeOK
<1>10. ASSUME execute_bash PROVE TypeOK'
  <2>1. AdapterTypeOK' /\ CallTypeOK'
    BY <1>10 DEF TypeOK, AdapterTypeOK, CallTypeOK, execute_bash
  <2>2. TaskTypeOK'
    BY <1>10, Spending DEF TypeOK, TaskTypeOK, execute_bash
  <2>3. PiTypeOK'
    BY <1>10 DEF TypeOK, PiTypeOK, execute_bash
  <2> QED BY <2>1, <2>2, <2>3 DEF TypeOK
<1>11. ASSUME NEW w \in Waiters, promptQueued(w) PROVE TypeOK'
  <2>1. AdapterTypeOK' /\ CallTypeOK'
    BY <1>11, DispatchType DEF TypeOK, CallTypeOK, promptQueued
  <2>2. TaskTypeOK' /\ PiTypeOK'
    BY <1>11 DEF TypeOK, TaskTypeOK, PiTypeOK, promptQueued
  <2> QED BY <2>1, <2>2 DEF TypeOK
<1>12. ASSUME NEW w \in Waiters, promptAccepted(w) PROVE TypeOK'
  <2>1. AdapterTypeOK' /\ CallTypeOK'
    BY <1>12 DEF TypeOK, AdapterTypeOK, CallTypeOK, promptAccepted
  <2>2. TaskTypeOK'
    BY <1>12 DEF TypeOK, TaskTypeOK, promptAccepted
  <2>3. PiTypeOK'
    BY <1>12 DEF TypeOK, PiTypeOK, promptAccepted
  <2> QED BY <2>1, <2>2, <2>3 DEF TypeOK
<1>13. ASSUME NEW w \in Waiters, promptRejected(w) PROVE TypeOK'
  <2>1. AdapterTypeOK' /\ CallTypeOK'
    BY <1>13 DEF TypeOK, AdapterTypeOK, CallTypeOK, promptRejected, SetActive
  <2>2. TaskTypeOK'
    BY <1>13 DEF TypeOK, TaskTypeOK, promptRejected
  <2>3. PiTypeOK'
    BY <1>13 DEF TypeOK, PiTypeOK, promptRejected
  <2> QED BY <2>1, <2>2, <2>3 DEF TypeOK
<1>14. ASSUME NEW i \in Ids, dispatchSend(i) PROVE TypeOK'
  <2>1. AdapterTypeOK' /\ CallTypeOK'
    BY <1>14 DEF TypeOK, AdapterTypeOK, CallTypeOK, dispatchSend
  <2>2. TaskTypeOK'
    BY <1>14 DEF TypeOK, TaskTypeOK, dispatchSend
  <2>3. PiTypeOK'
    BY <1>14 DEF TypeOK, PiTypeOK, dispatchSend, Write, Lines
  <2> QED BY <2>1, <2>2, <2>3 DEF TypeOK
<1>15. ASSUME NEW i \in Ids, dispatchAccepted(i) PROVE TypeOK'
  BY <1>15 DEF TypeOK, AdapterTypeOK, CallTypeOK, TaskTypeOK, PiTypeOK,
    dispatchAccepted, LoopReturns
<1>16. ASSUME NEW i \in Ids, dispatchRejected(i) PROVE TypeOK'
  <2>1. AdapterTypeOK' /\ CallTypeOK'
    BY <1>16 DEF TypeOK, AdapterTypeOK, CallTypeOK, dispatchRejected,
      SetActive, Completed
  <2>2. TaskTypeOK'
    BY <1>16 DEF TypeOK, TaskTypeOK, dispatchRejected
  <2>3. PiTypeOK'
    BY <1>16 DEF TypeOK, PiTypeOK, dispatchRejected
  <2> QED BY <2>1, <2>2, <2>3 DEF TypeOK
<1>17. ASSUME NEW i \in Ids, dispatchRetry(i) PROVE TypeOK'
  <2>1. AdapterTypeOK' /\ CallTypeOK'
    BY <1>17, DispatchType DEF TypeOK, CallTypeOK, dispatchRetry
  <2>2. TaskTypeOK' /\ PiTypeOK'
    BY <1>17, LoopType DEF TypeOK, TaskTypeOK, PiTypeOK, dispatchRetry
  <2> QED BY <2>1, <2>2 DEF TypeOK
<1>18. ASSUME NEW i \in Ids, interjectSend(i) PROVE TypeOK'
  <2>1. AdapterTypeOK' /\ CallTypeOK'
    BY <1>18 DEF TypeOK, AdapterTypeOK, CallTypeOK, interjectSend
  <2>2. TaskTypeOK'
    BY <1>18 DEF TypeOK, TaskTypeOK, interjectSend
  <2>3. PiTypeOK'
    BY <1>18 DEF TypeOK, PiTypeOK, interjectSend, Write, Lines
  <2> QED BY <2>1, <2>2, <2>3 DEF TypeOK
<1>19. ASSUME NEW i \in Ids, interjectAccepted(i) PROVE TypeOK'
  BY <1>19 DEF TypeOK, AdapterTypeOK, CallTypeOK, TaskTypeOK, PiTypeOK,
    interjectAccepted, LoopReturns
<1>20. ASSUME NEW i \in Ids, interjectRejected(i) PROVE TypeOK'
  <2>1. AdapterTypeOK' /\ CallTypeOK'
    BY <1>20 DEF TypeOK, AdapterTypeOK, CallTypeOK, interjectRejected,
      SetActive, Completed
  <2>2. TaskTypeOK'
    BY <1>20 DEF TypeOK, TaskTypeOK, interjectRejected, LoopReturns
  <2>3. PiTypeOK'
    BY <1>20 DEF TypeOK, PiTypeOK, interjectRejected
  <2> QED BY <2>1, <2>2, <2>3 DEF TypeOK
<1>21. ASSUME NEW i \in Ids, probeWake(i) PROVE TypeOK'
  <2>1. [kind |-> "probe", id |-> i] \in Lines
    BY DEF Lines
  <2>2. toPi' \in Seq(Lines)
    BY <1>21, <2>1, LineType DEF TypeOK, PiTypeOK, probeWake
  <2>3. AdapterTypeOK' /\ CallTypeOK'
    BY <1>21 DEF TypeOK, AdapterTypeOK, CallTypeOK, probeWake
  <2>4. TaskTypeOK' /\ PiTypeOK'
    BY <1>21, <2>2 DEF TypeOK, TaskTypeOK, PiTypeOK, probeWake
  <2>5. QED
    BY <2>3, <2>4 DEF TypeOK
<1>22. ASSUME NEW i \in Ids, probeIdle(i) PROVE TypeOK'
  <2>1. AdapterTypeOK' /\ CallTypeOK'
    BY <1>22 DEF TypeOK, AdapterTypeOK, CallTypeOK, probeIdle
  <2>2. TaskTypeOK'
    BY <1>22 DEF TypeOK, TaskTypeOK, probeIdle
  <2>3. PiTypeOK'
    BY <1>22 DEF TypeOK, PiTypeOK, probeIdle
  <2> QED BY <2>1, <2>2, <2>3 DEF TypeOK
<1>23. ASSUME NEW i \in Ids, probeFinish(i) PROVE TypeOK'
  <2>1. AdapterTypeOK' /\ CallTypeOK'
    <3>1. CASE dispatch_next_queued({}, frame)
      BY <1>23, <3>1, DispatchType DEF TypeOK, CallTypeOK, probeFinish,
        Completed
    <3>2. CASE ~dispatch_next_queued({}, frame)
      BY <1>23, <3>2 DEF TypeOK, AdapterTypeOK, CallTypeOK, probeFinish,
        SetActive, Completed
    <3> QED BY <3>1, <3>2
  <2>2. TaskTypeOK' /\ PiTypeOK'
    BY <1>23 DEF TypeOK, TaskTypeOK, PiTypeOK, probeFinish
  <2> QED BY <2>1, <2>2 DEF TypeOK
<1>24. ASSUME NEW i \in Ids, probeDispatch(i) PROVE TypeOK'
  <2>1. AdapterTypeOK' /\ CallTypeOK'
    BY <1>24, DispatchType DEF TypeOK, CallTypeOK, probeDispatch
  <2>2. TaskTypeOK' /\ PiTypeOK'
    BY <1>24 DEF TypeOK, TaskTypeOK, PiTypeOK, probeDispatch
  <2> QED BY <2>1, <2>2 DEF TypeOK
<1>25. ASSUME NEW c \in Cancels, cancelNotify(c) PROVE TypeOK'
  <2>1. AdapterTypeOK' /\ CallTypeOK'
    BY <1>25 DEF TypeOK, AdapterTypeOK, CallTypeOK, cancelNotify
  <2>2. TaskTypeOK'
    BY <1>25 DEF TypeOK, TaskTypeOK, cancelNotify
  <2>3. PiTypeOK'
    BY <1>25 DEF TypeOK, PiTypeOK, cancelNotify, Write, Lines
  <2> QED BY <2>1, <2>2, <2>3 DEF TypeOK
<1>26. ASSUME NEW c \in Cancels, settlePoll(c) PROVE TypeOK'
  <2>1. [kind |-> "settle", id |-> c] \in Lines
    BY DEF Lines
  <2>2. toPi' \in Seq(Lines)
    BY <1>26, <2>1, LineType DEF TypeOK, PiTypeOK, settlePoll
  <2>3. AdapterTypeOK' /\ CallTypeOK'
    BY <1>26 DEF TypeOK, AdapterTypeOK, CallTypeOK, settlePoll
  <2>4. TaskTypeOK' /\ PiTypeOK'
    BY <1>26, <2>2 DEF TypeOK, TaskTypeOK, PiTypeOK, settlePoll
  <2>5. QED
    BY <2>3, <2>4 DEF TypeOK
<1>27. ASSUME NEW c \in Cancels, settleConfirmed(c) PROVE TypeOK'
  <2>1. AdapterTypeOK' /\ CallTypeOK'
    BY <1>27 DEF TypeOK, AdapterTypeOK, CallTypeOK, settleConfirmed
  <2>2. TaskTypeOK'
    BY <1>27 DEF TypeOK, TaskTypeOK, settleConfirmed
  <2>3. PiTypeOK'
    BY <1>27 DEF TypeOK, PiTypeOK, settleConfirmed
  <2> QED BY <2>1, <2>2, <2>3 DEF TypeOK
<1>28. ASSUME NEW c \in Cancels, settleAgain(c) PROVE TypeOK'
  <2>1. AdapterTypeOK' /\ CallTypeOK'
    BY <1>28 DEF TypeOK, AdapterTypeOK, CallTypeOK, settleAgain
  <2>2. TaskTypeOK'
    BY <1>28 DEF TypeOK, TaskTypeOK, settleAgain
  <2>3. PiTypeOK'
    BY <1>28 DEF TypeOK, PiTypeOK, settleAgain
  <2> QED BY <2>1, <2>2, <2>3 DEF TypeOK
<1>29. ASSUME NEW c \in Cancels, settleDeadline(c) PROVE TypeOK'
  <2>1. AdapterTypeOK' /\ CallTypeOK'
    BY <1>29 DEF TypeOK, AdapterTypeOK, CallTypeOK, settleDeadline
  <2>2. TaskTypeOK'
    BY <1>29 DEF TypeOK, TaskTypeOK, settleDeadline
  <2>3. PiTypeOK'
    BY <1>29 DEF TypeOK, PiTypeOK, settleDeadline
  <2> QED BY <2>1, <2>2, <2>3 DEF TypeOK
<1>30. ASSUME NEW c \in Cancels, settleDispatch(c) PROVE TypeOK'
  <2>1. AdapterTypeOK' /\ CallTypeOK'
    BY <1>30, DispatchType DEF TypeOK, CallTypeOK, settleDispatch
  <2>2. TaskTypeOK' /\ PiTypeOK'
    BY <1>30 DEF TypeOK, TaskTypeOK, PiTypeOK, settleDispatch
  <2> QED BY <2>1, <2>2 DEF TypeOK
<1>31. ASSUME interjectDispatch PROVE TypeOK'
  <2>1. AdapterTypeOK' /\ CallTypeOK'
    BY <1>31, DispatchType DEF TypeOK, CallTypeOK, interjectDispatch
  <2>2. TaskTypeOK' /\ PiTypeOK'
    BY <1>31 DEF TypeOK, TaskTypeOK, PiTypeOK, interjectDispatch
  <2> QED BY <2>1, <2>2 DEF TypeOK
<1>32. ASSUME on_agent_start PROVE TypeOK'
  <2>1. [kind |-> "abort", id |-> None] \in Lines
    BY DEF Lines
  <2>2. toPi' \in Seq(Lines)
    BY <1>32, <2>1, LineType DEF TypeOK, PiTypeOK, on_agent_start
  <2>3. events' \in Seq(Events)
    BY <1>32 DEF TypeOK, PiTypeOK, on_agent_start, Receive
  <2>4. AdapterTypeOK' /\ CallTypeOK'
    BY <1>32 DEF TypeOK, AdapterTypeOK, CallTypeOK, on_agent_start
  <2>5. TaskTypeOK' /\ PiTypeOK'
    BY <1>32, <2>2, <2>3 DEF TypeOK, TaskTypeOK, PiTypeOK, on_agent_start
  <2>6. QED
    BY <2>4, <2>5 DEF TypeOK
<1>33. ASSUME on_agent_settled PROVE TypeOK'
  <2>1. events' \in Seq(Events)
    BY <1>33 DEF TypeOK, PiTypeOK, on_agent_settled, Receive
  <2>2. QED
    BY <1>33, <2>1 DEF TypeOK, AdapterTypeOK, CallTypeOK, TaskTypeOK,
      PiTypeOK, on_agent_settled
<1>34. ASSUME settledReset PROVE TypeOK'
  <2>1. AdapterTypeOK' /\ CallTypeOK'
    BY <1>34 DEF TypeOK, AdapterTypeOK, CallTypeOK, settledReset
  <2>2. TaskTypeOK'
    BY <1>34 DEF TypeOK, TaskTypeOK, settledReset
  <2>3. PiTypeOK'
    BY <1>34 DEF TypeOK, PiTypeOK, settledReset
  <2> QED BY <2>1, <2>2, <2>3 DEF TypeOK
<1>35. ASSUME settledFinish PROVE TypeOK'
  <2>1. AdapterTypeOK' /\ CallTypeOK'
    <3>1. CASE dispatch_next_queued({}, frame)
      BY <1>35, <3>1, DispatchType DEF TypeOK, CallTypeOK, settledFinish,
        Completed
    <3>2. CASE ~dispatch_next_queued({}, frame)
      BY <1>35, <3>2 DEF TypeOK, AdapterTypeOK, CallTypeOK, settledFinish,
        SetActive, Completed
    <3> QED BY <3>1, <3>2
  <2>2. TaskTypeOK' /\ PiTypeOK'
    BY <1>35, LoopType DEF TypeOK, TaskTypeOK, PiTypeOK, settledFinish
  <2> QED BY <2>1, <2>2 DEF TypeOK
<1>36. ASSUME settledDispatch PROVE TypeOK'
  <2>1. AdapterTypeOK' /\ CallTypeOK'
    BY <1>36, DispatchType DEF TypeOK, CallTypeOK, settledDispatch
  <2>2. TaskTypeOK' /\ PiTypeOK'
    BY <1>36, LoopType DEF TypeOK, TaskTypeOK, PiTypeOK, settledDispatch
  <2> QED BY <2>1, <2>2 DEF TypeOK
<1>37. ASSUME enqueue_extension_message PROVE TypeOK'
  <2>1. Head(events) \in Events /\ events' \in Seq(Events)
    BY <1>37 DEF TypeOK, PiTypeOK, enqueue_extension_message, Receive
  <2>2. Head(events).id \in Rows
    BY <1>37, <2>1 DEF enqueue_extension_message, Receive, Events
  <2>3. local_entries' \in Seq(Rows)
    BY <1>37, <2>2 DEF TypeOK, AdapterTypeOK, enqueue_extension_message
  <2>4. /\ loop' \in {"recv", "enqueue", "interject"}
        /\ loopId' \in Ids \cup {None}
    BY <1>37, <2>2 DEF TypeOK, TaskTypeOK, enqueue_extension_message, Receive
  <2>5. QED
    BY <1>37, <2>1, <2>3, <2>4 DEF TypeOK, AdapterTypeOK, CallTypeOK,
      TaskTypeOK, PiTypeOK, enqueue_extension_message
<1>38. ASSUME enqueueDispatch PROVE TypeOK'
  <2>1. AdapterTypeOK' /\ CallTypeOK'
    BY <1>38, DispatchType DEF TypeOK, CallTypeOK, enqueueDispatch
  <2>2. TaskTypeOK' /\ PiTypeOK'
    BY <1>38, LoopType DEF TypeOK, TaskTypeOK, PiTypeOK, enqueueDispatch
  <2> QED BY <2>1, <2>2 DEF TypeOK
<1>39. ASSUME enqueueInterject PROVE TypeOK'
  <2>1. InterjectSteer(loopId) \/ InterjectFront(loopId) => loopId \in Rows
    BY DEF TypeOK, AdapterTypeOK, InterjectSteer, InterjectFront, Queued
  <2>2. AdapterTypeOK'
    BY <1>39, <2>1, InterjectType DEF TypeOK, AdapterTypeOK, enqueueInterject
  <2>3. CallTypeOK'
    BY <1>39 DEF TypeOK, CallTypeOK, enqueueInterject, InterjectSteer,
      InterjectFront
  <2>4. TaskTypeOK' /\ PiTypeOK'
    BY <1>39 DEF TypeOK, TaskTypeOK, PiTypeOK, enqueueInterject
  <2>5. QED
    BY <2>2, <2>3, <2>4 DEF TypeOK
<1>40. ASSUME on_process_exit PROVE TypeOK'
  <2>1. local_entries' \in Seq(Rows) /\ events' \in Seq(Events)
    BY <1>40 DEF TypeOK, PiTypeOK, on_process_exit, Receive, DrainQueue
  <2>2. QED
    BY <1>40, <2>1 DEF TypeOK, AdapterTypeOK, CallTypeOK, TaskTypeOK,
      PiTypeOK, on_process_exit, DrainQueue, SetActive, Completed
<1>41. ASSUME PiReads PROVE TypeOK'
  <2>1. Head(toPi) \in Lines /\ toPi' \in Seq(Lines)
    BY <1>41 DEF TypeOK, PiTypeOK, PiReads
  <2>2. TaskTypeOK'
    BY <1>41, <2>1 DEF TypeOK, TaskTypeOK, PiReads, Lines
  <2>3. preflight' \subseteq Ids \X {"prompt", "steer"}
    BY <1>41, <2>1 DEF TypeOK, PiTypeOK, PiReads, Lines
  <2>4. PiTypeOK'
    BY <1>41, <2>1, <2>3, RunEndType DEF TypeOK, PiTypeOK, PiReads
  <2>5. QED
    BY <1>41, <2>2, <2>4 DEF TypeOK, AdapterTypeOK, CallTypeOK, PiReads
<1>42. ASSUME NEW i \in Ids, NEW mode \in {"prompt", "steer"}, PiStartsRun(i,
              mode)
       PROVE  TypeOK'
  <2>1. events' \in Seq(Events)
    BY <1>42 DEF TypeOK, PiTypeOK, PiStartsRun, Emit, Events
  <2>2. QED
    BY <1>42, <2>1 DEF TypeOK, AdapterTypeOK, CallTypeOK, TaskTypeOK,
      PiTypeOK, PiStartsRun, Decide
<1>43. ASSUME NEW i \in Ids, PiSteersRun(i) PROVE TypeOK'
  BY <1>43 DEF TypeOK, AdapterTypeOK, CallTypeOK, TaskTypeOK, PiTypeOK,
    PiSteersRun, Decide
<1>44. ASSUME NEW i \in Ids, NEW mode \in {"prompt", "steer"}, PiConsumes(i,
              mode)
       PROVE  TypeOK'
  BY <1>44 DEF TypeOK, AdapterTypeOK, CallTypeOK, TaskTypeOK, PiTypeOK,
    PiConsumes, Decide
<1>45. ASSUME NEW i \in Ids, NEW mode \in {"prompt", "steer"}, PiRefuses(i,
              mode)
       PROVE  TypeOK'
  BY <1>45 DEF TypeOK, AdapterTypeOK, CallTypeOK, TaskTypeOK, PiTypeOK,
    PiRefuses, Decide
<1>46. ASSUME PiSettles PROVE TypeOK'
  <2>1. PiTypeOK'
    BY <1>46, RunEndType DEF TypeOK, PiTypeOK, PiSettles
  <2>2. QED
    BY <1>46, <2>1 DEF TypeOK, AdapterTypeOK, CallTypeOK, TaskTypeOK,
      PiSettles
<1>47. ASSUME NEW e \in ExtMsgs, PiSendsMessage(e) PROVE TypeOK'
  <2>1. events' \in Seq(Events)
    BY <1>47 DEF TypeOK, PiTypeOK, PiSendsMessage, Emit, Events
  <2>2. QED
    BY <1>47, <2>1 DEF TypeOK, AdapterTypeOK, CallTypeOK, TaskTypeOK,
      PiTypeOK, PiSendsMessage
<1>48. ASSUME PiExits PROVE TypeOK'
  <2>1. events' \in Seq(Events) /\ toPi' \in Seq(Lines)
    BY <1>48 DEF TypeOK, PiTypeOK, PiExits, Emit, Events
  <2>2. AdapterTypeOK' /\ CallTypeOK'
    BY <1>48 DEF TypeOK, AdapterTypeOK, CallTypeOK, PiExits
  <2>3. TaskTypeOK'
    BY <1>48 DEF TypeOK, TaskTypeOK, PiExits
  <2>4. PiTypeOK'
    BY <1>48, <2>1 DEF TypeOK, PiTypeOK, PiExits
  <2>5. QED
    BY <2>2, <2>3, <2>4 DEF TypeOK
<1>49. ASSUME RequestFails PROVE TypeOK'
  <2>1. Head(toPi) \in Lines /\ toPi' \in Seq(Lines)
    BY <1>49 DEF TypeOK, PiTypeOK, RequestFails
  <2>2. CallTypeOK'
    BY <1>49, <2>1 DEF TypeOK, CallTypeOK, RequestFails, Lines
  <2>3. TaskTypeOK'
    BY <1>49, <2>1 DEF TypeOK, TaskTypeOK, RequestFails, Lines
  <2>4. QED
    BY <1>49, <2>1, <2>2, <2>3 DEF TypeOK, AdapterTypeOK, PiTypeOK,
      RequestFails
<1>50. ASSUME bashReturned PROVE TypeOK'
  <2>1. AdapterTypeOK' /\ CallTypeOK'
    BY <1>50 DEF TypeOK, AdapterTypeOK, CallTypeOK, bashReturned
  <2>2. TaskTypeOK'
    BY <1>50 DEF TypeOK, TaskTypeOK, bashReturned
  <2>3. PiTypeOK'
    BY <1>50 DEF TypeOK, PiTypeOK, bashReturned
  <2> QED BY <2>1, <2>2, <2>3 DEF TypeOK
<1>51. CASE UNCHANGED vars
  BY <1>51 DEF TypeOK, AdapterTypeOK, CallTypeOK, TaskTypeOK, PiTypeOK, vars
<1> QED
  BY <1>1, <1>2, <1>3, <1>4, <1>5, <1>6, <1>7, <1>8, <1>9, <1>10, <1>11,
    <1>12, <1>13, <1>14, <1>15, <1>16, <1>17, <1>18, <1>19, <1>20, <1>21,
    <1>22, <1>23, <1>24, <1>25, <1>26, <1>27, <1>28, <1>29, <1>30, <1>31,
    <1>32, <1>33, <1>34, <1>35, <1>36, <1>37, <1>38, <1>39, <1>40, <1>41,
    <1>42, <1>43, <1>44, <1>45, <1>46, <1>47, <1>48, <1>49, <1>50, <1>51 DEF
    Next, Client, Adapter, Pi, PromptHandler, Delivery, ProbeTask,
    SettleTask, EventLoop, PiDecides

----------------------------------------------------------------------------
(***************************************************************************)
(* Custody of the completion senders.  WaiterHeld is not inductive: it     *)
(* needs that a call which was not submitted has no sender yet, and that   *)
(* the rows lead to every parked sender.                                   *)
(***************************************************************************)
Custody ==
  /\ WaiterHeld
  /\ QueuedHasRow
  /\ \A w \in Waiters :
       handler[w] = "new"
         => /\ completion[w] = "none"
            /\ w \notin active_prompts \cup queued_prompt_completions

\* dispatch_next_queued moves a sender from its row to the active prompts
\* and loses none.
LEMMA DispatchCustody ==
  ASSUME TypeOK, QueuedHasRow, NEW act \in SUBSET active_prompts, NEW frames,
         dispatch_next_queued(act, frames),
         active_prompts \cap queued_prompt_completions = {}
  PROVE  /\ active_prompts' \cup queued_prompt_completions'
              = act \cup queued_prompt_completions
         /\ active_prompts' \cap queued_prompt_completions' = {}
         /\ QueuedHasRow'
<1>1. CASE WillDispatch(act)
  <2> DEFINE e == Head(local_entries)
  <2>1. /\ local_entries' = Tail(local_entries)
        /\ active_prompts' = act \cup ({e} \cap queued_prompt_completions)
        /\ queued_prompt_completions' = queued_prompt_completions \ {e}
    BY <1>1 DEF dispatch_next_queued, SetActive
  <2>2. Range(local_entries) \ {e} \subseteq Range(Tail(local_entries))
    <3>1. SUFFICES ASSUME NEW k \in 1..Len(local_entries),
                          local_entries[k] # e
                   PROVE  local_entries[k] \in Range(Tail(local_entries))
      BY DEF TypeOK, AdapterTypeOK, Range
    <3>2. /\ local_entries \in Seq(Rows)
          /\ local_entries # <<>>
      BY <1>1 DEF TypeOK, AdapterTypeOK, WillDispatch
    <3>3. k # 1
      BY <3>1, <3>2
    <3>4. /\ k - 1 \in DOMAIN Tail(local_entries)
          /\ Tail(local_entries)[k - 1] = local_entries[k]
      BY <3>2, <3>3
    <3> QED BY <3>4 DEF Range
  <2> QED BY <2>1, <2>2 DEF QueuedHasRow
<1>2. CASE ~WillDispatch(act)
  BY <1>2 DEF dispatch_next_queued, SetActive, queueVars, QueuedHasRow
<1> QED BY <1>1, <1>2

\* A new row is the only one an appended queue adds.
LEMMA AppendRows ==
  ASSUME NEW S, NEW s \in Seq(S), NEW x \in S
  PROVE  Range(Append(s, x)) = Range(s) \cup {x}
<1>1. /\ Append(s, x) \in Seq(S)
      /\ Len(Append(s, x)) = Len(s) + 1
      /\ \A i \in 1..Len(s) : Append(s, x)[i] = s[i]
      /\ Append(s, x)[Len(s) + 1] = x
  OBVIOUS
<1>2. /\ DOMAIN s = 1..Len(s)
      /\ DOMAIN Append(s, x) = 1..(Len(s) + 1)
      /\ 1..(Len(s) + 1) = 1..Len(s) \cup {Len(s) + 1}
  BY <1>1
<1> QED BY <1>1, <1>2 DEF Range

\* A row pushed to the front of the queue is the only one it adds.
LEMMA PushFrontRows ==
  ASSUME NEW S, NEW s \in Seq(S), NEW x \in S
  PROVE  Range(<<x>> \o s) = Range(s) \cup {x}
<1>1. /\ <<x>> \o s \in Seq(S)
      /\ Len(<<x>> \o s) = Len(s) + 1
      /\ (<<x>> \o s)[1] = x
      /\ \A i \in 1..Len(s) : (<<x>> \o s)[i + 1] = s[i]
  OBVIOUS
<1>2. \A j \in 2..(Len(s) + 1) :
        j - 1 \in 1..Len(s) /\ (<<x>> \o s)[j] = s[j - 1]
  BY <1>1
<1>3. DOMAIN s = 1..Len(s) /\ DOMAIN (<<x>> \o s) = 1..(Len(s) + 1)
  BY <1>1
<1>4. Range(<<x>> \o s) \subseteq Range(s) \cup {x}
  <2>1. SUFFICES ASSUME NEW j \in 1..(Len(s) + 1)
                 PROVE  (<<x>> \o s)[j] \in Range(s) \cup {x}
    BY <1>3 DEF Range
  <2>2. CASE j = 1
    BY <1>1, <2>2
  <2>3. CASE j # 1
    BY <1>2, <1>3, <2>3 DEF Range
  <2> QED BY <2>2, <2>3
<1>5. Range(s) \cup {x} \subseteq Range(<<x>> \o s)
  <2>1. x \in Range(<<x>> \o s)
    BY <1>1, <1>3 DEF Range
  <2>2. ASSUME NEW i \in 1..Len(s) PROVE s[i] \in Range(<<x>> \o s)
    <3>1. i + 1 \in DOMAIN (<<x>> \o s) /\ (<<x>> \o s)[i + 1] = s[i]
      BY <1>1, <1>3
    <3> QED BY <3>1 DEF Range
  <2> QED BY <2>1, <2>2, <1>3 DEF Range
<1> QED BY <1>4, <1>5

\* A submitted prompt brings exactly its own sender.
LEMMA DispositionCustody ==
  ASSUME TypeOK, QueuedHasRow, NEW p \in Prompts,
         EnqueuePrompt(p) \/ ActivatePrompt(p),
         active_prompts \cap queued_prompt_completions = {},
         p \notin active_prompts \cup queued_prompt_completions
  PROVE  /\ active_prompts' \cup queued_prompt_completions'
              = active_prompts \cup queued_prompt_completions \cup {p}
         /\ active_prompts' \cap queued_prompt_completions' = {}
         /\ QueuedHasRow'
<1>1. CASE EnqueuePrompt(p)
  <2>1. Range(Append(local_entries, p)) = Range(local_entries) \cup {p}
    BY AppendRows, IdSets DEF TypeOK, AdapterTypeOK
  <2> QED BY <1>1, <2>1 DEF EnqueuePrompt, promptVars, QueuedHasRow
<1>2. CASE ActivatePrompt(p)
  BY <1>2 DEF ActivatePrompt, queueVars, QueuedHasRow
<1> QED BY <1>1, <1>2

\* Neither branch of interject_local_queue loses a sender.
LEMMA InterjectCustody ==
  ASSUME TypeOK, QueuedHasRow, NEW id,
         InterjectSteer(id) \/ InterjectFront(id),
         active_prompts \cap queued_prompt_completions = {}
  PROVE  /\ active_prompts' \cup queued_prompt_completions'
              = active_prompts \cup queued_prompt_completions
         /\ active_prompts' \cap queued_prompt_completions' = {}
         /\ QueuedHasRow'
<1>1. /\ Without(id) \in Seq(Rows)
      /\ Range(local_entries) \ {id} \subseteq Range(Without(id))
  BY WithoutRows DEF TypeOK, AdapterTypeOK
<1>2. CASE InterjectSteer(id)
  BY <1>1, <1>2 DEF InterjectSteer, QueuedHasRow
<1>3. CASE InterjectFront(id)
  <2>1. id \in Rows
    BY <1>3 DEF InterjectFront, Queued, TypeOK, AdapterTypeOK
  <2>2. Range(<<id>> \o Without(id)) = Range(Without(id)) \cup {id}
    BY <1>1, <2>1, PushFrontRows
  <2> QED BY <1>1, <1>3, <2>2 DEF InterjectFront, QueuedHasRow, promptVars
<1> QED BY <1>2, <1>3

\* Every step keeps the custody of the senders.
LEMMA CustodyStep == TypeOK /\ Custody /\ [Next]_vars => Custody'
<1> SUFFICES ASSUME TypeOK, Custody, [Next]_vars PROVE Custody'
  OBVIOUS
<1>0. active_prompts \cap queued_prompt_completions = {}
  BY IdSets DEF TypeOK, AdapterTypeOK, Custody, WaiterHeld
<1> USE IdSets DEF Custody, WaiterHeld, QueuedHasRow, Submitted
<1> USE DEF adapterVars, promptVars, queueVars, runVars, waiterVars,
            deliveryVars, pollVars, loopVars, callVars, piVars
<1>1. ASSUME NEW p \in Prompts, prompt(p) PROVE Custody'
  <2>1. /\ active_prompts' \cup queued_prompt_completions'
             = active_prompts \cup queued_prompt_completions \cup {p}
        /\ active_prompts' \cap queued_prompt_completions' = {}
        /\ QueuedHasRow'
    BY <1>1, <1>0, DispositionCustody DEF prompt
  <2>2. /\ completion' = completion
        /\ handler'[p] \in {"publish", "request"}
        /\ \A w \in Waiters \ {p} : handler'[w] = handler[w]
    BY <1>1 DEF prompt, TypeOK, CallTypeOK
  <2>3. QED
    BY <1>1, <2>1, <2>2 DEF prompt
<1>2. ASSUME NEW p \in Prompts, promptPlanFault(p) PROVE Custody'
  <2>1. /\ active_prompts' \cup queued_prompt_completions'
             = active_prompts \cup queued_prompt_completions \cup {p}
        /\ active_prompts' \cap queued_prompt_completions' = {}
        /\ QueuedHasRow'
    BY <1>2, <1>0, DispositionCustody DEF promptPlanFault
  <2>2. /\ completion' = completion
        /\ handler'[p] = "failed"
        /\ \A w \in Waiters \ {p} : handler'[w] = handler[w]
    BY <1>2 DEF promptPlanFault, TypeOK, CallTypeOK
  <2>3. QED
    BY <1>2, <2>1, <2>2 DEF promptPlanFault
<1>3. ASSUME NEW b \in BridgeCmds, run_bridge_command(b) PROVE Custody'
  BY <1>3 DEF TypeOK, AdapterTypeOK, CallTypeOK, run_bridge_command
<1>4. ASSUME NEW c \in Cancels, cancel(c) PROVE Custody'
  BY <1>4 DEF TypeOK, AdapterTypeOK, CallTypeOK, cancel, DrainQueue,
    Completed, SetActive
<1>5. ASSUME NEW id \in Rows, queue_interject(id) PROVE Custody'
  <2>1. UNCHANGED waiterVars
    BY <1>5 DEF queue_interject
  <2>2. QED
    BY <1>5, <2>1, <1>0, InterjectCustody DEF queue_interject
<1>6. ASSUME NEW id \in Rows, queue_remove(id) PROVE Custody'
  <2>1. Range(local_entries) \ {id} \subseteq Range(Without(id))
    BY WithoutRows DEF TypeOK, AdapterTypeOK
  <2>2. QED
    BY <1>6, <2>1 DEF TypeOK, AdapterTypeOK, CallTypeOK, queue_remove,
      Completed
<1>7. ASSUME queue_clear PROVE Custody'
  BY <1>7 DEF TypeOK, AdapterTypeOK, CallTypeOK, queue_clear, DrainQueue,
    Completed
<1>8. ASSUME queue_reorder PROVE Custody'
  BY <1>8 DEF TypeOK, AdapterTypeOK, CallTypeOK, queue_reorder
<1>9. ASSUME NEW s \in Sessions, replace_bootstrap(s) PROVE Custody'
  BY <1>9 DEF TypeOK, AdapterTypeOK, CallTypeOK, replace_bootstrap, Completed
<1>10. ASSUME execute_bash PROVE Custody'
  BY <1>10 DEF TypeOK, AdapterTypeOK, CallTypeOK, execute_bash
<1>11. ASSUME NEW w \in Waiters, promptQueued(w) PROVE Custody'
  <2>1. /\ active_prompts' \cup queued_prompt_completions'
             = active_prompts \cup queued_prompt_completions
        /\ active_prompts' \cap queued_prompt_completions' = {}
        /\ QueuedHasRow'
    BY <1>11, <1>0, DispatchCustody DEF promptQueued
  <2>2. /\ completion' = completion
        /\ handler[w] = "publish" /\ handler'[w] = "wait"
        /\ \A v \in Waiters \ {w} : handler'[v] = handler[v]
    BY <1>11 DEF promptQueued, TypeOK, CallTypeOK
  <2>3. QED
    BY <2>1, <2>2
<1>12. ASSUME NEW w \in Waiters, promptAccepted(w) PROVE Custody'
  BY <1>12 DEF TypeOK, AdapterTypeOK, CallTypeOK, promptAccepted
<1>13. ASSUME NEW w \in Waiters, promptRejected(w) PROVE Custody'
  BY <1>13 DEF TypeOK, AdapterTypeOK, CallTypeOK, promptRejected, SetActive
<1>14. ASSUME NEW i \in Ids, dispatchSend(i) PROVE Custody'
  BY <1>14 DEF TypeOK, AdapterTypeOK, CallTypeOK, dispatchSend
<1>15. ASSUME NEW i \in Ids, dispatchAccepted(i) PROVE Custody'
  BY <1>15 DEF TypeOK, AdapterTypeOK, CallTypeOK, dispatchAccepted
<1>16. ASSUME NEW i \in Ids, dispatchRejected(i) PROVE Custody'
  BY <1>16 DEF TypeOK, AdapterTypeOK, CallTypeOK, dispatchRejected,
    SetActive, Completed
<1>17. ASSUME NEW i \in Ids, dispatchRetry(i) PROVE Custody'
  BY <1>17, <1>0, DispatchCustody DEF TypeOK, AdapterTypeOK, CallTypeOK,
    dispatchRetry
<1>18. ASSUME NEW i \in Ids, interjectSend(i) PROVE Custody'
  BY <1>18 DEF TypeOK, AdapterTypeOK, CallTypeOK, interjectSend
<1>19. ASSUME NEW i \in Ids, interjectAccepted(i) PROVE Custody'
  BY <1>19 DEF TypeOK, AdapterTypeOK, CallTypeOK, interjectAccepted
<1>20. ASSUME NEW i \in Ids, interjectRejected(i) PROVE Custody'
  BY <1>20 DEF TypeOK, AdapterTypeOK, CallTypeOK, interjectRejected,
    SetActive, Completed
<1>21. ASSUME NEW i \in Ids, probeWake(i) PROVE Custody'
  BY <1>21 DEF TypeOK, AdapterTypeOK, CallTypeOK, probeWake
<1>22. ASSUME NEW i \in Ids, probeIdle(i) PROVE Custody'
  BY <1>22 DEF TypeOK, AdapterTypeOK, CallTypeOK, probeIdle
<1>23. ASSUME NEW i \in Ids, probeFinish(i) PROVE Custody'
  <2>1. /\ completion' = Completed(active_prompts, "end_turn")
        /\ UNCHANGED handler
    BY <1>23 DEF probeFinish
  <2>2. /\ active_prompts' \cup queued_prompt_completions'
             = queued_prompt_completions
        /\ active_prompts' \cap queued_prompt_completions' = {}
        /\ QueuedHasRow'
    BY <1>23, <1>0, DispatchCustody DEF probeFinish, SetActive
  <2>3. QED
    BY <2>1, <2>2, <1>0 DEF Completed
<1>24. ASSUME NEW i \in Ids, probeDispatch(i) PROVE Custody'
  BY <1>24, <1>0, DispatchCustody DEF TypeOK, AdapterTypeOK, CallTypeOK,
    probeDispatch
<1>25. ASSUME NEW c \in Cancels, cancelNotify(c) PROVE Custody'
  BY <1>25 DEF TypeOK, AdapterTypeOK, CallTypeOK, cancelNotify
<1>26. ASSUME NEW c \in Cancels, settlePoll(c) PROVE Custody'
  BY <1>26 DEF TypeOK, AdapterTypeOK, CallTypeOK, settlePoll
<1>27. ASSUME NEW c \in Cancels, settleConfirmed(c) PROVE Custody'
  BY <1>27 DEF TypeOK, AdapterTypeOK, CallTypeOK, settleConfirmed
<1>28. ASSUME NEW c \in Cancels, settleAgain(c) PROVE Custody'
  BY <1>28 DEF TypeOK, AdapterTypeOK, CallTypeOK, settleAgain
<1>29. ASSUME NEW c \in Cancels, settleDeadline(c) PROVE Custody'
  BY <1>29 DEF TypeOK, AdapterTypeOK, CallTypeOK, settleDeadline
<1>30. ASSUME NEW c \in Cancels, settleDispatch(c) PROVE Custody'
  BY <1>30, <1>0, DispatchCustody DEF TypeOK, AdapterTypeOK, CallTypeOK,
    settleDispatch
<1>31. ASSUME interjectDispatch PROVE Custody'
  BY <1>31, <1>0, DispatchCustody DEF TypeOK, AdapterTypeOK, CallTypeOK,
    interjectDispatch
<1>32. ASSUME on_agent_start PROVE Custody'
  BY <1>32 DEF TypeOK, AdapterTypeOK, CallTypeOK, on_agent_start
<1>33. ASSUME on_agent_settled PROVE Custody'
  BY <1>33 DEF TypeOK, AdapterTypeOK, CallTypeOK, on_agent_settled
<1>34. ASSUME settledReset PROVE Custody'
  BY <1>34 DEF TypeOK, AdapterTypeOK, CallTypeOK, settledReset
<1>35. ASSUME settledFinish PROVE Custody'
  <2>1. /\ completion' = Completed(active_prompts, "end_turn")
        /\ UNCHANGED handler
    BY <1>35 DEF settledFinish
  <2>2. /\ active_prompts' \cup queued_prompt_completions'
             = queued_prompt_completions
        /\ active_prompts' \cap queued_prompt_completions' = {}
        /\ QueuedHasRow'
    BY <1>35, <1>0, DispatchCustody DEF settledFinish, SetActive
  <2>3. QED
    BY <2>1, <2>2, <1>0 DEF Completed
<1>36. ASSUME settledDispatch PROVE Custody'
  BY <1>36, <1>0, DispatchCustody DEF TypeOK, AdapterTypeOK, CallTypeOK,
    settledDispatch
<1>37. ASSUME enqueue_extension_message PROVE Custody'
  <2>1. UNCHANGED <<promptVars, queued_prompt_completions, waiterVars>>
    BY <1>37 DEF enqueue_extension_message
  <2>2. Head(events).id \in Rows
    BY <1>37 DEF TypeOK, PiTypeOK, enqueue_extension_message, Receive, Events
  <2>3. Range(local_entries)
          \subseteq Range(Append(local_entries, Head(events).id))
    BY <2>2, AppendRows DEF TypeOK, AdapterTypeOK
  <2>4. Range(local_entries) \subseteq Range(local_entries')
    BY <1>37, <2>3 DEF enqueue_extension_message
  <2>5. QED
    BY <2>1, <2>4
<1>38. ASSUME enqueueDispatch PROVE Custody'
  BY <1>38, <1>0, DispatchCustody DEF TypeOK, AdapterTypeOK, CallTypeOK,
    enqueueDispatch
<1>39. ASSUME enqueueInterject PROVE Custody'
  <2>1. UNCHANGED waiterVars
    BY <1>39 DEF enqueueInterject
  <2>2. QED
    BY <1>39, <2>1, <1>0, InterjectCustody DEF enqueueInterject
<1>40. ASSUME on_process_exit PROVE Custody'
  BY <1>40 DEF TypeOK, AdapterTypeOK, CallTypeOK, on_process_exit,
    DrainQueue, Completed, SetActive
<1>41. ASSUME PiReads PROVE Custody'
  BY <1>41 DEF TypeOK, AdapterTypeOK, CallTypeOK, PiReads
<1>42. ASSUME NEW i \in Ids, NEW mode \in {"prompt", "steer"}, PiStartsRun(i,
              mode)
       PROVE  Custody'
  BY <1>42 DEF TypeOK, AdapterTypeOK, CallTypeOK, PiStartsRun, Decide
<1>43. ASSUME NEW i \in Ids, PiSteersRun(i) PROVE Custody'
  BY <1>43 DEF TypeOK, AdapterTypeOK, CallTypeOK, PiSteersRun, Decide
<1>44. ASSUME NEW i \in Ids, NEW mode \in {"prompt", "steer"}, PiConsumes(i,
              mode)
       PROVE  Custody'
  BY <1>44 DEF TypeOK, AdapterTypeOK, CallTypeOK, PiConsumes, Decide
<1>45. ASSUME NEW i \in Ids, NEW mode \in {"prompt", "steer"}, PiRefuses(i,
              mode)
       PROVE  Custody'
  BY <1>45 DEF TypeOK, AdapterTypeOK, CallTypeOK, PiRefuses, Decide
<1>46. ASSUME PiSettles PROVE Custody'
  BY <1>46 DEF TypeOK, AdapterTypeOK, CallTypeOK, PiSettles
<1>47. ASSUME NEW e \in ExtMsgs, PiSendsMessage(e) PROVE Custody'
  BY <1>47 DEF TypeOK, AdapterTypeOK, CallTypeOK, PiSendsMessage
<1>48. ASSUME PiExits PROVE Custody'
  BY <1>48 DEF TypeOK, AdapterTypeOK, CallTypeOK, PiExits
<1>49. ASSUME RequestFails PROVE Custody'
  BY <1>49 DEF TypeOK, AdapterTypeOK, CallTypeOK, RequestFails
<1>50. ASSUME bashReturned PROVE Custody'
  BY <1>50 DEF TypeOK, AdapterTypeOK, CallTypeOK, bashReturned
<1>51. CASE UNCHANGED vars
  BY <1>51 DEF vars
<1> QED
  BY <1>1, <1>2, <1>3, <1>4, <1>5, <1>6, <1>7, <1>8, <1>9, <1>10, <1>11,
    <1>12, <1>13, <1>14, <1>15, <1>16, <1>17, <1>18, <1>19, <1>20, <1>21,
    <1>22, <1>23, <1>24, <1>25, <1>26, <1>27, <1>28, <1>29, <1>30, <1>31,
    <1>32, <1>33, <1>34, <1>35, <1>36, <1>37, <1>38, <1>39, <1>40, <1>41,
    <1>42, <1>43, <1>44, <1>45, <1>46, <1>47, <1>48, <1>49, <1>50, <1>51 DEF
    Next, Client, Adapter, Pi, PromptHandler, Delivery, ProbeTask,
    SettleTask, EventLoop, PiDecides

----------------------------------------------------------------------------
(***************************************************************************)
(* A row runs at most once.  RowRunsOnce needs to know of the ids that are *)
(* still to come: a prompt that was not submitted and an extension message *)
(* that was not emitted, or that is still on its way, is neither queued    *)
(* nor delivered, and no message is on its way twice.                      *)
(***************************************************************************)
Fresh(i) == i \notin Range(local_entries) /\ via[i] = "none"

EventsFresh ==
  /\ \A k \in 1..Len(events) :
       events[k].type = "message"
         => events[k].id \in emitted /\ Fresh(events[k].id)
  /\ \A j, k \in 1..Len(events) :
       /\ events[j].type = "message" /\ events[k].type = "message"
       /\ events[j].id = events[k].id
       => j = k

RowsFresh ==
  /\ RowRunsOnce
  /\ \A p \in Prompts : handler[p] = "new" => Fresh(p)
  /\ \A e \in ExtMsgs \ emitted : Fresh(e)
  /\ EventsFresh

\* The same of the next state.
StaysFresh(i) == i \notin Range(local_entries') /\ via'[i] = "none"

\* What dispatch_next_queued and interject_local_queue guarantee: the queue
\* still holds unsent rows only, and no id that was fresh is touched but x.
RowsKept(x) ==
  /\ RowRunsOnce'
  /\ \A i \in Ids \ {x} : Fresh(i) => StaysFresh(i)

\* The queue without its first row.
LEMMA TailRows ==
  ASSUME NEW S, NEW s \in Seq(S), s # <<>>, IsInjective(s)
  PROVE  /\ IsInjective(Tail(s))
         /\ Range(Tail(s)) = Range(s) \ {Head(s)}
         /\ Head(s) \in Range(s)
<1>1. /\ DOMAIN s = 1..Len(s)
      /\ Len(s) \in Nat \ {0}
      /\ DOMAIN Tail(s) = 1..(Len(s) - 1)
      /\ Head(s) = s[1]
      /\ \A i \in 1..(Len(s) - 1) : Tail(s)[i] = s[i + 1]
  OBVIOUS
<1>2. \A a, b \in 1..Len(s) : s[a] = s[b] => a = b
  BY <1>1 DEF IsInjective
<1>3. IsInjective(Tail(s))
  BY <1>1, <1>2 DEF IsInjective
<1>4. ASSUME NEW i \in 1..(Len(s) - 1)
      PROVE  Tail(s)[i] \in Range(s) \ {Head(s)}
  <2>1. i + 1 \in 1..Len(s) /\ i + 1 # 1 /\ 1 \in 1..Len(s)
    BY <1>1
  <2> QED BY <1>1, <1>2, <2>1 DEF Range
<1>5. ASSUME NEW k \in 1..Len(s), s[k] # Head(s)
      PROVE  s[k] \in Range(Tail(s))
  <2>1. k - 1 \in 1..(Len(s) - 1) /\ Tail(s)[k - 1] = s[k]
    BY <1>1, <1>5
  <2> QED BY <1>1, <2>1 DEF Range
<1> QED BY <1>1, <1>3, <1>4, <1>5 DEF Range

\* A new row does not repeat one.
LEMMA NewRowInjective ==
  ASSUME NEW S, NEW s \in Seq(S), NEW x \in S,
         IsInjective(s), x \notin Range(s),
         NEW t \in Seq(S), Len(t) = Len(s) + 1,
         \A i \in 1..Len(s) : t[i] = s[i], t[Len(s) + 1] = x
  PROVE  IsInjective(t)
<1>1. /\ DOMAIN s = 1..Len(s)
      /\ DOMAIN t = 1..(Len(s) + 1)
      /\ \A i \in 1..Len(s) : t[i] = s[i] /\ s[i] # x
  BY DEF Range
<1>2. \A a, b \in 1..Len(s) : s[a] = s[b] => a = b
  BY <1>1 DEF IsInjective
<1>3. ASSUME NEW a \in 1..(Len(s) + 1), NEW b \in 1..(Len(s) + 1), t[a] = t[b]
      PROVE  a = b
  BY <1>1, <1>2, <1>3
<1> QED BY <1>1, <1>3 DEF IsInjective

\* A row put back at the front does not repeat one either.
LEMMA PushFrontInjective ==
  ASSUME NEW S, NEW s \in Seq(S), NEW x \in S,
         IsInjective(s), x \notin Range(s)
  PROVE  IsInjective(<<x>> \o s)
<1>1. /\ DOMAIN s = 1..Len(s)
      /\ DOMAIN (<<x>> \o s) = 1..(Len(s) + 1)
      /\ (<<x>> \o s)[1] = x
      /\ \A i \in 2..(Len(s) + 1) : (<<x>> \o s)[i] = s[i - 1]
  OBVIOUS
<1>2. \A a, b \in 1..Len(s) : s[a] = s[b] => a = b
  BY <1>1 DEF IsInjective
<1>3. \A i \in 2..(Len(s) + 1) : i - 1 \in 1..Len(s) /\ s[i - 1] # x
  BY <1>1 DEF Range
<1>4. ASSUME NEW a \in 1..(Len(s) + 1), NEW b \in 1..(Len(s) + 1),
             (<<x>> \o s)[a] = (<<x>> \o s)[b]
      PROVE  a = b
  BY <1>1, <1>2, <1>3, <1>4
<1>5. \A a, b \in 1..(Len(s) + 1) :
        (<<x>> \o s)[a] = (<<x>> \o s)[b] => a = b
  BY <1>4
<1> QED BY <1>1, <1>5 DEF IsInjective

\* dispatch_next_queued delivers a row it has just taken out of the queue.
LEMMA DispatchRows ==
  ASSUME TypeOK, RowRunsOnce, NEW act, NEW frames,
         dispatch_next_queued(act, frames)
  PROVE  RowsKept(None)
<1>1. CASE WillDispatch(act)
  <2> DEFINE e == Head(local_entries)
  <2>1. /\ local_entries' = Tail(local_entries)
        /\ via' = [via EXCEPT ![e] = "dispatch"]
    BY <1>1 DEF dispatch_next_queued
  <2>2. /\ IsInjective(local_entries')
        /\ Range(local_entries') = Range(local_entries) \ {e}
        /\ e \in Range(local_entries)
    BY <1>1, <2>1, TailRows
       DEF TypeOK, AdapterTypeOK, RowRunsOnce, WillDispatch
  <2>3. Range(local_entries) \subseteq Ids
    BY IdSets DEF TypeOK, AdapterTypeOK, Range
  <2> HIDE DEF e
  <2> QED BY <2>1, <2>2, <2>3
         DEF RowsKept, RowRunsOnce, Fresh, StaysFresh, TypeOK, CallTypeOK
<1>2. CASE ~WillDispatch(act)
  BY <1>2 DEF dispatch_next_queued, queueVars, RowsKept, RowRunsOnce, Fresh,
    StaysFresh
<1> QED BY <1>1, <1>2

\* interject_local_queue delivers a row it took out, or puts it back once.
LEMMA InterjectRows ==
  ASSUME TypeOK, RowRunsOnce, NEW id, InterjectSteer(id) \/ InterjectFront(id)
  PROVE  RowsKept(None)
<1>1. id \in Range(local_entries) /\ id \in Rows
  BY DEF InterjectSteer, InterjectFront, Queued, Range, TypeOK, AdapterTypeOK
<1>2. /\ Without(id) \in Seq(Rows)
      /\ IsInjective(Without(id))
      /\ Range(Without(id)) = Range(local_entries) \ {id}
  BY WithoutRows DEF TypeOK, AdapterTypeOK, RowRunsOnce
<1>3. Range(local_entries) \subseteq Ids
  BY IdSets DEF TypeOK, AdapterTypeOK, Range
<1>4. CASE InterjectSteer(id)
  BY <1>1, <1>2, <1>3, <1>4
     DEF InterjectSteer, RowsKept, RowRunsOnce, Fresh, StaysFresh, TypeOK,
       CallTypeOK
<1>5. CASE InterjectFront(id)
  <2>1. IsInjective(<<id>> \o Without(id))
    BY <1>1, <1>2, PushFrontInjective
  <2>2. Range(<<id>> \o Without(id)) = Range(Without(id)) \cup {id}
    BY <1>1, <1>2, PushFrontRows
  <2> QED BY <1>1, <1>2, <1>5, <2>1, <2>2
         DEF InterjectFront, deliveryVars, RowsKept, RowRunsOnce, Fresh,
           StaysFresh
<1> QED BY <1>4, <1>5

\* No row and no delivery changes.
LEMMA SameRows ==
  ASSUME RowRunsOnce, UNCHANGED <<local_entries, via>>
  PROVE  RowsKept(None)
BY DEF RowsKept, RowRunsOnce, Fresh, StaysFresh

\* The queue is emptied.
LEMMA EmptyRows ==
  ASSUME RowRunsOnce, local_entries' = <<>>, via' = via
  PROVE  RowsKept(None)
BY DEF RowsKept, RowRunsOnce, Fresh, StaysFresh, IsInjective, Range

\* A prompt that becomes a row or is sent was fresh.
LEMMA DispositionRows ==
  ASSUME TypeOK, RowRunsOnce, NEW p \in Prompts, Fresh(p),
         \/ EnqueuePrompt(p) /\ UNCHANGED via
         \/ ActivatePrompt(p) /\ UNCHANGED via
         \/ ActivatePrompt(p) /\ \E v : via' = [via EXCEPT ![p] = v]
  PROVE  RowsKept(p)
<1>1. p \in Rows /\ Range(local_entries) \subseteq Ids
  BY IdSets DEF TypeOK, AdapterTypeOK, Range
<1>2. CASE EnqueuePrompt(p) /\ UNCHANGED via
  <2>1. Range(Append(local_entries, p)) = Range(local_entries) \cup {p}
    BY <1>1, AppendRows DEF TypeOK, AdapterTypeOK
  <2>2. IsInjective(local_entries')
    <3>1. /\ local_entries \in Seq(Rows) /\ IsInjective(local_entries)
          /\ p \notin Range(local_entries)
      BY DEF TypeOK, AdapterTypeOK, RowRunsOnce, Fresh
    <3>2. /\ local_entries' \in Seq(Rows)
          /\ Len(local_entries') = Len(local_entries) + 1
          /\ \A i \in 1..Len(local_entries) :
               local_entries'[i] = local_entries[i]
          /\ local_entries'[Len(local_entries) + 1] = p
      BY <1>1, <1>2, <3>1 DEF EnqueuePrompt
    <3> QED BY <1>1, <3>1, <3>2, NewRowInjective
  <2> QED BY <1>2, <2>1, <2>2 DEF EnqueuePrompt, RowsKept, RowRunsOnce, Fresh,
           StaysFresh
<1>3. CASE ActivatePrompt(p) /\ UNCHANGED via
  BY <1>3 DEF ActivatePrompt, queueVars, RowsKept, RowRunsOnce, Fresh,
    StaysFresh
<1>4. CASE ActivatePrompt(p) /\ \E v : via' = [via EXCEPT ![p] = v]
  BY <1>1, <1>4 DEF ActivatePrompt, queueVars, RowsKept, RowRunsOnce, Fresh,
    StaysFresh,
     TypeOK, CallTypeOK
<1> QED BY <1>2, <1>3, <1>4

\* Receiving an event.
LEMMA ReceiveKeeps ==
  ASSUME TypeOK, EventsFresh, NEW type, Receive(type), emitted' = emitted,
         \A k \in 2..Len(events) :
           events[k].type = "message" => StaysFresh(events[k].id)
  PROVE  EventsFresh'
<1>1. /\ Len(events') = Len(events) - 1
      /\ Len(events) \in Nat
      /\ \A k \in 1..(Len(events) - 1) : events'[k] = events[k + 1]
  BY DEF Receive, TypeOK, PiTypeOK
<1>2. \A k \in 1..Len(events') : k + 1 \in 2..Len(events)
  BY <1>1
<1>3. ASSUME NEW k \in 1..Len(events'), events'[k].type = "message"
      PROVE  events'[k].id \in emitted' /\ StaysFresh(events'[k].id)
  <2>1. /\ k + 1 \in 2..Len(events) /\ k + 1 \in 1..Len(events)
        /\ events'[k] = events[k + 1]
    BY <1>1, <1>2
  <2>2. StaysFresh(events[k + 1].id)
    BY <1>3, <2>1
  <2>3. events[k + 1].id \in emitted
    BY <1>3, <2>1 DEF EventsFresh
  <2> QED BY <2>1, <2>2, <2>3
<1>4. ASSUME NEW j \in 1..Len(events'), NEW k \in 1..Len(events'),
             events'[j].type = "message", events'[k].type = "message",
             events'[j].id = events'[k].id
      PROVE  j = k
  <2>1. /\ j + 1 \in 1..Len(events) /\ events'[j] = events[j + 1]
        /\ k + 1 \in 1..Len(events) /\ events'[k] = events[k + 1]
    BY <1>1, <1>2
  <2>2. j + 1 = k + 1
    BY <1>4, <2>1 DEF EventsFresh
  <2> QED BY <2>2
<1> QED BY <1>3, <1>4 DEF EventsFresh, Fresh, StaysFresh

\* Emitting an event that is no message.
LEMMA EmitKeeps ==
  ASSUME TypeOK, EventsFresh, NEW type, Emit(type, None), type # "message",
         emitted' = emitted, via' = via, local_entries' = local_entries
  PROVE  EventsFresh'
<1>1. /\ Len(events') = Len(events) + 1
      /\ Len(events) \in Nat
      /\ \A k \in 1..Len(events) : events'[k] = events[k]
      /\ events'[Len(events) + 1].type = type
  BY DEF Emit, TypeOK, PiTypeOK
<1>2. \A k \in 1..Len(events') :
        events'[k].type = "message" => k \in 1..Len(events)
  BY <1>1
<1> QED BY <1>1, <1>2 DEF EventsFresh, Fresh

\* Every step keeps the rows fresh.
LEMMA RowsFreshStep == TypeOK /\ RowsFresh /\ [Next]_vars => RowsFresh'
<1> SUFFICES ASSUME TypeOK, RowsFresh, [Next]_vars PROVE RowsFresh'
  OBVIOUS
<1>0. RowRunsOnce /\ EventsFresh
  BY DEF RowsFresh
<1>z. /\ Prompts \cap ExtMsgs = {} /\ BridgeCmds \cap ExtMsgs = {}
      /\ None \notin Ids
  BY SetsAssumption DEF Rows
<1>m. \A k \in 1..Len(events) :
        events[k].type = "message" => events[k].id \in ExtMsgs
  BY DEF TypeOK, PiTypeOK, Events
<1>a. ASSUME NEW x, x \notin ExtMsgs, RowsKept(x),
             UNCHANGED <<events, emitted>>,
             \A p \in Prompts :
               handler'[p] = "new" => handler[p] = "new" /\ p # x
      PROVE  RowsFresh'
  <2>1. EventsFresh'
    BY <1>a, <1>m, IdSets
       DEF RowsFresh, RowsKept, EventsFresh, Fresh, StaysFresh
  <2> QED BY <1>a, <2>1, IdSets DEF RowsFresh, RowsKept, Fresh, StaysFresh
<1>b. ASSUME NEW type, Receive(type), RowsKept(None),
             UNCHANGED <<emitted, handler>>
      PROVE  RowsFresh'
  <2>1. \A k \in 2..Len(events) :
          events[k].type = "message" => StaysFresh(events[k].id)
    <3>1. SUFFICES ASSUME NEW k \in 2..Len(events), events[k].type = "message"
                   PROVE  StaysFresh(events[k].id)
      OBVIOUS
    <3>2. k \in 1..Len(events)
      BY DEF TypeOK, PiTypeOK
    <3>3. events[k].id \in Ids \ {None} /\ Fresh(events[k].id)
      BY <1>m, <1>z, <1>0, <3>1, <3>2, IdSets DEF EventsFresh
    <3> QED BY <1>b, <3>3 DEF RowsKept
  <2>2. EventsFresh'
    BY <1>0, <1>b, <2>1, ReceiveKeeps
  <2> QED BY <1>b, <1>z, <2>2, IdSets DEF RowsFresh, RowsKept, Fresh,
           StaysFresh
<1>c. ASSUME NEW type, Emit(type, None), type # "message",
             UNCHANGED <<emitted, handler, via, local_entries>>
      PROVE  RowsFresh'
  <2>1. EventsFresh'
    BY <1>0, <1>c, EmitKeeps
  <2> QED BY <1>c, <2>1 DEF RowsFresh, RowRunsOnce, Fresh
<1> USE DEF adapterVars, promptVars, queueVars, runVars, waiterVars,
            deliveryVars, pollVars, loopVars, callVars, piVars
<1>1. ASSUME NEW p \in Prompts, prompt(p) PROVE RowsFresh'
  <2>1. /\ Fresh(p) /\ p \in Ids /\ p \notin ExtMsgs
        /\ UNCHANGED <<events, emitted>>
        /\ \A q \in Prompts :
             handler'[q] = "new" => handler[q] = "new" /\ q # p
    BY <1>1, <1>z, IdSets DEF prompt, RowsFresh, TypeOK, CallTypeOK
  <2>2. RowsKept(p)
    BY <1>1, <1>0, <2>1, DispositionRows DEF prompt, TypeOK, CallTypeOK
  <2>3. QED
    BY <1>a, <2>1, <2>2
<1>2. ASSUME NEW p \in Prompts, promptPlanFault(p) PROVE RowsFresh'
  <2>1. /\ Fresh(p) /\ p \in Ids /\ p \notin ExtMsgs
        /\ UNCHANGED <<events, emitted>>
        /\ \A q \in Prompts :
             handler'[q] = "new" => handler[q] = "new" /\ q # p
    BY <1>2, <1>z, IdSets DEF promptPlanFault, RowsFresh, TypeOK, CallTypeOK
  <2>2. RowsKept(p)
    BY <1>2, <1>0, <2>1, DispositionRows DEF promptPlanFault
  <2>3. QED
    BY <1>a, <2>1, <2>2
<1>3. ASSUME NEW b \in BridgeCmds, run_bridge_command(b) PROVE RowsFresh'
  <2>1. /\ b \in Ids /\ b \notin Rows /\ b \notin ExtMsgs /\ b \notin Prompts
        /\ UNCHANGED <<events, emitted, local_entries>>
        /\ \A q \in Prompts : handler'[q] = handler[q]
    BY <1>3, <1>z, IdSets, SetsAssumption DEF run_bridge_command, TypeOK,
      CallTypeOK, Rows
  <2>2. Range(local_entries) \subseteq Rows
    BY DEF TypeOK, AdapterTypeOK, Range
  <2>3. RowsKept(b)
    BY <1>3, <1>0, <2>1, <2>2, IdSets DEF run_bridge_command, RowsKept,
      RowRunsOnce, Fresh, StaysFresh, TypeOK, CallTypeOK
  <2>4. QED
    BY <1>a, <2>1, <2>3
<1>4. ASSUME NEW c \in Cancels, cancel(c) PROVE RowsFresh'
  <2>1. RowsKept(None)
    BY <1>4, <1>0, EmptyRows DEF cancel, DrainQueue
  <2> QED BY <1>4, <1>a, <1>z, <2>1, IdSets DEF cancel
<1>5. ASSUME NEW id \in Rows, queue_interject(id) PROVE RowsFresh'
  <2>1. RowsKept(None)
    BY <1>5, <1>0, InterjectRows DEF queue_interject
  <2> QED BY <1>5, <1>a, <1>z, <2>1, IdSets DEF queue_interject
<1>6. ASSUME NEW id \in Rows, queue_remove(id) PROVE RowsFresh'
  <2>1. RowsKept(None)
    BY <1>6, <1>0, WithoutRows DEF queue_remove, RowsKept, RowRunsOnce,
      Fresh, StaysFresh, TypeOK, AdapterTypeOK
  <2>2. QED
    BY <1>6, <1>a, <1>z, <2>1, IdSets DEF queue_remove
<1>7. ASSUME queue_clear PROVE RowsFresh'
  <2>1. RowsKept(None)
    BY <1>7, <1>0, EmptyRows DEF queue_clear, DrainQueue
  <2> QED BY <1>7, <1>a, <1>z, <2>1, IdSets DEF queue_clear
<1>8. ASSUME queue_reorder PROVE RowsFresh'
  <2>1. /\ IsInjective(local_entries')
        /\ Range(local_entries') = Range(local_entries)
    BY <1>8 DEF queue_reorder
  <2>2. RowsKept(None)
    BY <1>8, <1>0, <2>1 DEF queue_reorder, RowsKept, RowRunsOnce, Fresh,
      StaysFresh
  <2>3. QED
    BY <1>8, <1>a, <1>z, <2>2, IdSets DEF queue_reorder
<1>9. ASSUME NEW s \in Sessions, replace_bootstrap(s) PROVE RowsFresh'
  <2>1. RowsKept(None)
    BY <1>9, <1>0, EmptyRows DEF replace_bootstrap, DrainQueue
  <2> QED BY <1>9, <1>a, <1>z, <2>1, IdSets DEF replace_bootstrap
<1>10. ASSUME execute_bash PROVE RowsFresh'
  <2>1. RowsKept(None)
    BY <1>10, <1>0, SameRows DEF execute_bash
  <2> QED BY <1>10, <1>a, <1>z, <2>1, IdSets DEF execute_bash
<1>11. ASSUME NEW w \in Waiters, promptQueued(w) PROVE RowsFresh'
  <2>1. RowsKept(None)
    BY <1>11, <1>0, DispatchRows DEF promptQueued
  <2> QED BY <1>11, <1>a, <1>z, <2>1, IdSets DEF promptQueued, TypeOK,
           CallTypeOK
<1>12. ASSUME NEW w \in Waiters, promptAccepted(w) PROVE RowsFresh'
  <2>1. RowsKept(None)
    BY <1>12, <1>0, SameRows DEF promptAccepted
  <2> QED BY <1>12, <1>a, <1>z, <2>1, IdSets DEF promptAccepted, TypeOK,
           CallTypeOK
<1>13. ASSUME NEW w \in Waiters, promptRejected(w) PROVE RowsFresh'
  <2>1. RowsKept(None)
    BY <1>13, <1>0, SameRows DEF promptRejected
  <2> QED BY <1>13, <1>a, <1>z, <2>1, IdSets DEF promptRejected, TypeOK,
           CallTypeOK
<1>14. ASSUME NEW i \in Ids, dispatchSend(i) PROVE RowsFresh'
  <2>1. RowsKept(None)
    BY <1>14, <1>0, SameRows DEF dispatchSend
  <2> QED BY <1>14, <1>a, <1>z, <2>1, IdSets DEF dispatchSend
<1>15. ASSUME NEW i \in Ids, dispatchAccepted(i) PROVE RowsFresh'
  <2>1. RowsKept(None)
    BY <1>15, <1>0, SameRows DEF dispatchAccepted
  <2> QED BY <1>15, <1>a, <1>z, <2>1, IdSets DEF dispatchAccepted
<1>16. ASSUME NEW i \in Ids, dispatchRejected(i) PROVE RowsFresh'
  <2>1. RowsKept(None)
    BY <1>16, <1>0, SameRows DEF dispatchRejected
  <2> QED BY <1>16, <1>a, <1>z, <2>1, IdSets DEF dispatchRejected
<1>17. ASSUME NEW i \in Ids, dispatchRetry(i) PROVE RowsFresh'
  <2>1. RowsKept(None)
    BY <1>17, <1>0, DispatchRows DEF dispatchRetry
  <2> QED BY <1>17, <1>a, <1>z, <2>1, IdSets DEF dispatchRetry
<1>18. ASSUME NEW i \in Ids, interjectSend(i) PROVE RowsFresh'
  <2>1. RowsKept(None)
    BY <1>18, <1>0, SameRows DEF interjectSend
  <2> QED BY <1>18, <1>a, <1>z, <2>1, IdSets DEF interjectSend
<1>19. ASSUME NEW i \in Ids, interjectAccepted(i) PROVE RowsFresh'
  <2>1. RowsKept(None)
    BY <1>19, <1>0, SameRows DEF interjectAccepted
  <2> QED BY <1>19, <1>a, <1>z, <2>1, IdSets DEF interjectAccepted
<1>20. ASSUME NEW i \in Ids, interjectRejected(i) PROVE RowsFresh'
  <2>1. RowsKept(None)
    BY <1>20, <1>0, SameRows DEF interjectRejected
  <2> QED BY <1>20, <1>a, <1>z, <2>1, IdSets DEF interjectRejected
<1>21. ASSUME NEW i \in Ids, probeWake(i) PROVE RowsFresh'
  <2>1. RowsKept(None)
    BY <1>21, <1>0, SameRows DEF probeWake
  <2> QED BY <1>21, <1>a, <1>z, <2>1, IdSets DEF probeWake
<1>22. ASSUME NEW i \in Ids, probeIdle(i) PROVE RowsFresh'
  <2>1. RowsKept(None)
    BY <1>22, <1>0, SameRows DEF probeIdle
  <2> QED BY <1>22, <1>a, <1>z, <2>1, IdSets DEF probeIdle
<1>23. ASSUME NEW i \in Ids, probeFinish(i) PROVE RowsFresh'
  <2>1. RowsKept(None)
    BY <1>23, <1>0, DispatchRows, SameRows DEF probeFinish
  <2> QED BY <1>23, <1>a, <1>z, <2>1, IdSets DEF probeFinish
<1>24. ASSUME NEW i \in Ids, probeDispatch(i) PROVE RowsFresh'
  <2>1. RowsKept(None)
    BY <1>24, <1>0, DispatchRows DEF probeDispatch
  <2> QED BY <1>24, <1>a, <1>z, <2>1, IdSets DEF probeDispatch
<1>25. ASSUME NEW c \in Cancels, cancelNotify(c) PROVE RowsFresh'
  <2>1. RowsKept(None)
    BY <1>25, <1>0, SameRows DEF cancelNotify
  <2> QED BY <1>25, <1>a, <1>z, <2>1, IdSets DEF cancelNotify
<1>26. ASSUME NEW c \in Cancels, settlePoll(c) PROVE RowsFresh'
  <2>1. RowsKept(None)
    BY <1>26, <1>0, SameRows DEF settlePoll
  <2> QED BY <1>26, <1>a, <1>z, <2>1, IdSets DEF settlePoll
<1>27. ASSUME NEW c \in Cancels, settleConfirmed(c) PROVE RowsFresh'
  <2>1. RowsKept(None)
    BY <1>27, <1>0, SameRows DEF settleConfirmed
  <2> QED BY <1>27, <1>a, <1>z, <2>1, IdSets DEF settleConfirmed
<1>28. ASSUME NEW c \in Cancels, settleAgain(c) PROVE RowsFresh'
  <2>1. RowsKept(None)
    BY <1>28, <1>0, SameRows DEF settleAgain
  <2> QED BY <1>28, <1>a, <1>z, <2>1, IdSets DEF settleAgain
<1>29. ASSUME NEW c \in Cancels, settleDeadline(c) PROVE RowsFresh'
  <2>1. RowsKept(None)
    BY <1>29, <1>0, SameRows DEF settleDeadline
  <2> QED BY <1>29, <1>a, <1>z, <2>1, IdSets DEF settleDeadline
<1>30. ASSUME NEW c \in Cancels, settleDispatch(c) PROVE RowsFresh'
  <2>1. RowsKept(None)
    BY <1>30, <1>0, DispatchRows DEF settleDispatch
  <2> QED BY <1>30, <1>a, <1>z, <2>1, IdSets DEF settleDispatch
<1>31. ASSUME interjectDispatch PROVE RowsFresh'
  <2>1. RowsKept(None)
    BY <1>31, <1>0, DispatchRows DEF interjectDispatch
  <2> QED BY <1>31, <1>a, <1>z, <2>1, IdSets DEF interjectDispatch
<1>32. ASSUME on_agent_start PROVE RowsFresh'
  BY <1>32, <1>0, <1>b, SameRows DEF on_agent_start
<1>33. ASSUME on_agent_settled PROVE RowsFresh'
  BY <1>33, <1>0, <1>b, SameRows DEF on_agent_settled
<1>34. ASSUME settledReset PROVE RowsFresh'
  <2>1. RowsKept(None)
    BY <1>34, <1>0, SameRows DEF settledReset
  <2> QED BY <1>34, <1>a, <1>z, <2>1, IdSets DEF settledReset
<1>35. ASSUME settledFinish PROVE RowsFresh'
  <2>1. RowsKept(None)
    BY <1>35, <1>0, DispatchRows, SameRows DEF settledFinish
  <2> QED BY <1>35, <1>a, <1>z, <2>1, IdSets DEF settledFinish
<1>36. ASSUME settledDispatch PROVE RowsFresh'
  <2>1. RowsKept(None)
    BY <1>36, <1>0, DispatchRows DEF settledDispatch
  <2> QED BY <1>36, <1>a, <1>z, <2>1, IdSets DEF settledDispatch
<1>37. ASSUME enqueue_extension_message PROVE RowsFresh'
  <2>1. CASE cancelling
    BY <1>37, <1>0, <1>b, <2>1, SameRows DEF enqueue_extension_message
  <2>2. CASE ~cancelling
    <3> DEFINE e == Head(events).id
    <3>1. /\ Receive("message")
          /\ local_entries' = Append(local_entries, e)
          /\ UNCHANGED <<via, emitted, handler>>
      BY <1>37, <2>2 DEF enqueue_extension_message
    <3>2. /\ 1 \in 1..Len(events)
          /\ Head(events) = events[1]
          /\ events[1].type = "message"
      BY <3>1 DEF Receive, TypeOK, PiTypeOK
    <3>3. e \in ExtMsgs /\ e \in emitted /\ Fresh(e)
      BY <1>0, <1>m, <3>2 DEF EventsFresh
    <3> HIDE DEF e
    <3>4. e \in Rows /\ local_entries \in Seq(Rows)
      BY <3>3 DEF TypeOK, AdapterTypeOK, Rows
    <3>5. RowsKept(e)
      <4>1. Range(local_entries') = Range(local_entries) \cup {e}
        BY <3>1, <3>4, AppendRows
      <4>2. IsInjective(local_entries')
        <5>1. IsInjective(local_entries) /\ e \notin Range(local_entries)
          BY <1>0, <3>3 DEF RowRunsOnce, Fresh
        <5>2. /\ local_entries' \in Seq(Rows)
              /\ Len(local_entries') = Len(local_entries) + 1
              /\ \A i \in 1..Len(local_entries) :
                   local_entries'[i] = local_entries[i]
              /\ local_entries'[Len(local_entries) + 1] = e
          BY <3>1, <3>4
        <5> QED BY <3>4, <5>1, <5>2, NewRowInjective
      <4> QED BY <1>0, <3>1, <3>3, <4>1, <4>2 DEF RowsKept, RowRunsOnce,
               Fresh, StaysFresh
    <3>6. ASSUME NEW k \in 2..Len(events), events[k].type = "message"
          PROVE  StaysFresh(events[k].id)
      <4>1. k \in 1..Len(events) /\ k # 1
        BY DEF TypeOK, PiTypeOK
      <4>2. events[k].id # e
        BY <1>0, <3>2, <3>6, <4>1 DEF EventsFresh, e
      <4>3. events[k].id \in Ids /\ Fresh(events[k].id)
        BY <1>0, <1>m, <3>6, <4>1, IdSets DEF EventsFresh
      <4> QED BY <3>5, <4>2, <4>3 DEF RowsKept
    <3>7. EventsFresh'
      BY <1>0, <3>1, <3>6, ReceiveKeeps
    <3> QED BY <1>z, <3>1, <3>3, <3>5, <3>7, IdSets
           DEF RowsFresh, RowsKept, Fresh, StaysFresh
  <2>3. QED
    BY <2>1, <2>2
<1>38. ASSUME enqueueDispatch PROVE RowsFresh'
  <2>1. RowsKept(None)
    BY <1>38, <1>0, DispatchRows DEF enqueueDispatch
  <2> QED BY <1>38, <1>a, <1>z, <2>1, IdSets DEF enqueueDispatch
<1>39. ASSUME enqueueInterject PROVE RowsFresh'
  <2>1. RowsKept(None)
    BY <1>39, <1>0, InterjectRows, SameRows DEF enqueueInterject
  <2> QED BY <1>39, <1>a, <1>z, <2>1, IdSets DEF enqueueInterject
<1>40. ASSUME on_process_exit PROVE RowsFresh'
  BY <1>40, <1>0, <1>b, EmptyRows DEF on_process_exit, DrainQueue
<1>41. ASSUME PiReads PROVE RowsFresh'
  <2>1. CASE UNCHANGED events
    BY <1>41, <1>0, <1>a, <1>z, <2>1, SameRows, IdSets DEF PiReads
  <2>2. CASE ~UNCHANGED events
    BY <1>41, <1>c, <2>2 DEF PiReads, Abort, EndRun
  <2>3. QED
    BY <2>1, <2>2
<1>42. ASSUME NEW i \in Ids, NEW mode \in {"prompt", "steer"}, PiStartsRun(i,
              mode)
       PROVE  RowsFresh'
  BY <1>42, <1>c DEF PiStartsRun, Decide
<1>43. ASSUME NEW i \in Ids, PiSteersRun(i) PROVE RowsFresh'
  <2>1. RowsKept(None)
    BY <1>43, <1>0, SameRows DEF PiSteersRun, Decide
  <2> QED BY <1>43, <1>a, <1>z, <2>1, IdSets DEF PiSteersRun, Decide
<1>44. ASSUME NEW i \in Ids, NEW mode \in {"prompt", "steer"}, PiConsumes(i,
              mode)
       PROVE  RowsFresh'
  <2>1. RowsKept(None)
    BY <1>44, <1>0, SameRows DEF PiConsumes, Decide
  <2> QED BY <1>44, <1>a, <1>z, <2>1, IdSets DEF PiConsumes, Decide
<1>45. ASSUME NEW i \in Ids, NEW mode \in {"prompt", "steer"}, PiRefuses(i,
              mode)
       PROVE  RowsFresh'
  <2>1. RowsKept(None)
    BY <1>45, <1>0, SameRows DEF PiRefuses, Decide
  <2> QED BY <1>45, <1>a, <1>z, <2>1, IdSets DEF PiRefuses, Decide
<1>46. ASSUME PiSettles PROVE RowsFresh'
  BY <1>46, <1>c DEF PiSettles, EndRun
<1>47. ASSUME NEW e \in ExtMsgs, PiSendsMessage(e) PROVE RowsFresh'
  <2>1. /\ events' = Append(events, [type |-> "message", id |-> e])
        /\ emitted' = emitted \cup {e} /\ e \notin emitted
        /\ UNCHANGED <<local_entries, via, handler>>
    BY <1>47 DEF PiSendsMessage, Emit
  <2>2. /\ Len(events) \in Nat /\ Len(events') = Len(events) + 1
        /\ \A k \in 1..Len(events) : events'[k] = events[k]
        /\ events'[Len(events) + 1].type = "message"
        /\ events'[Len(events) + 1].id = e
    BY <2>1 DEF TypeOK, PiTypeOK
  <2>3. \A k \in 1..Len(events) :
          events[k].type = "message" => events[k].id \in emitted \ {e}
    BY <1>0, <2>1 DEF EventsFresh
  <2>4. \A i : Fresh(i) => StaysFresh(i)
    BY <2>1 DEF Fresh, StaysFresh
  <2>5. Fresh(e)
    BY <1>47, <2>1 DEF RowsFresh
  <2>6. EventsFresh'
    <3>1. ASSUME NEW k \in 1..Len(events'), events'[k].type = "message"
          PROVE  events'[k].id \in emitted' /\ StaysFresh(events'[k].id)
      <4>1. CASE k = Len(events) + 1
        BY <2>1, <2>2, <2>4, <2>5, <4>1
      <4>2. CASE k \in 1..Len(events)
        BY <1>0, <2>1, <2>2, <2>4, <3>1, <4>2 DEF EventsFresh
      <4> QED BY <2>2, <4>1, <4>2
    <3>2. ASSUME NEW j \in 1..Len(events'), NEW k \in 1..Len(events'),
                 events'[j].type = "message", events'[k].type = "message",
                 events'[j].id = events'[k].id
          PROVE  j = k
      <4>1. CASE j \in 1..Len(events) /\ k \in 1..Len(events)
        BY <1>0, <2>2, <3>2, <4>1 DEF EventsFresh
      <4>2. CASE j = Len(events) + 1 \/ k = Len(events) + 1
        BY <2>2, <2>3, <3>2, <4>2
      <4> QED BY <2>2, <4>1, <4>2
    <3> QED BY <3>1, <3>2 DEF EventsFresh, Fresh, StaysFresh
  <2>7. QED
    BY <1>47, <1>0, <2>1, <2>6 DEF RowsFresh, RowRunsOnce, Fresh
<1>48. ASSUME PiExits PROVE RowsFresh'
  BY <1>48, <1>c DEF PiExits
<1>49. ASSUME RequestFails PROVE RowsFresh'
  <2>1. RowsKept(None)
    BY <1>49, <1>0, SameRows DEF RequestFails
  <2> QED BY <1>49, <1>a, <1>z, <2>1, IdSets DEF RequestFails
<1>50. ASSUME bashReturned PROVE RowsFresh'
  <2>1. RowsKept(None)
    BY <1>50, <1>0, SameRows DEF bashReturned
  <2> QED BY <1>50, <1>a, <1>z, <2>1, IdSets DEF bashReturned
<1>51. CASE UNCHANGED vars
  BY <1>51 DEF vars, RowsFresh, RowRunsOnce, EventsFresh, Fresh
<1> QED
  BY <1>1, <1>2, <1>3, <1>4, <1>5, <1>6, <1>7, <1>8, <1>9, <1>10, <1>11,
    <1>12, <1>13, <1>14, <1>15, <1>16, <1>17, <1>18, <1>19, <1>20, <1>21,
    <1>22, <1>23, <1>24, <1>25, <1>26, <1>27, <1>28, <1>29, <1>30, <1>31,
    <1>32, <1>33, <1>34, <1>35, <1>36, <1>37, <1>38, <1>39, <1>40, <1>41,
    <1>42, <1>43, <1>44, <1>45, <1>46, <1>47, <1>48, <1>49, <1>50, <1>51 DEF
    Next, Client, Adapter, Pi, PromptHandler, Delivery, ProbeTask,
    SettleTask, EventLoop, PiDecides
----------------------------------------------------------------------------
(***************************************************************************)
(* The theorems.                                                           *)
(***************************************************************************)
\* In the initial state nobody waits, nothing is queued and nothing was sent.
LEMMA InitHolds == Init => TypeOK /\ Custody /\ RowsFresh
<1> SUFFICES ASSUME Init PROVE TypeOK /\ Custody /\ RowsFresh
  OBVIOUS
<1>0. <<>> \in Seq(Rows) /\ <<>> \in Seq(Lines) /\ <<>> \in Seq(Events)
  OBVIOUS
<1>1. AdapterTypeOK
  BY <1>0 DEF Init, AdapterTypeOK
<1>2. CallTypeOK
  BY DEF Init, CallTypeOK
<1>3. TaskTypeOK
  <2>1. budget \in Budgets
    BY BoundsAssumption DEF Init
  <2>2. [c \in Cancels |-> 0] \in [Cancels -> Nat]
    OBVIOUS
  <2> QED BY <2>1, <2>2 DEF Init, TaskTypeOK
<1>6. PiTypeOK
  BY <1>0 DEF Init, PiTypeOK
<1>4. Custody
  BY DEF Init, Custody, WaiterHeld, QueuedHasRow, Submitted
<1>5. RowsFresh
  BY IdSets DEF Init, RowsFresh, RowRunsOnce, EventsFresh, Fresh, IsInjective,
     Range
<1> QED BY <1>1, <1>2, <1>3, <1>4, <1>5, <1>6 DEF TypeOK

\* Whatever the prompts, messages and bounds, the state keeps its type; in
\* particular a started flag never outlives its entry of active_prompts.
THEOREM TypeCorrect == Spec => []TypeOK
<1>1. Init => TypeOK
  BY InitHolds
<1>2. TypeOK /\ [Next]_vars => TypeOK'
  BY TypeOKStep
<1> QED BY <1>1, <1>2, PTL DEF Spec

\* Senders and rows are related by Custody, always.
LEMMA CustodyHolds == Spec => []Custody
<1>1. Init => Custody
  BY InitHolds
<1>2. TypeOK /\ Custody /\ [Next]_vars => Custody'
  BY CustodyStep
<1> QED BY <1>1, <1>2, TypeCorrect, PTL DEF Spec

\* No completion sender is lost, held twice or used twice, through dispatch,
\* send-now, a failed dispatch, cancel and the exit of Pi.
THEOREM SendersHeld == Spec => []WaiterHeld
<1>1. Custody => WaiterHeld
  BY DEF Custody
<1> QED BY <1>1, CustodyHolds, PTL

\* A parked completion sender can always be found through its queue row: the
\* reason why cancel, remove, clear and the exit of Pi, which go by the rows,
\* leave no ACP call hanging.
THEOREM QueuedSendersReachable == Spec => []QueuedHasRow
<1>1. Custody => QueuedHasRow
  BY DEF Custody
<1> QED BY <1>1, CustodyHolds, PTL

\* A row that still waits was never handed to Pi and stands in the queue
\* once, whatever the order of enqueue, dispatch, send-now and cancel.
THEOREM RowsRunOnce == Spec => []RowRunsOnce
<1>1. Init => RowsFresh
  BY InitHolds
<1>2. TypeOK /\ RowsFresh /\ [Next]_vars => RowsFresh'
  BY RowsFreshStep
<1>3. RowsFresh => RowRunsOnce
  BY DEF RowsFresh
<1> QED BY <1>1, <1>2, <1>3, TypeCorrect, PTL DEF Spec
============================================================================
