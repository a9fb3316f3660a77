-------------------------- MODULE PromptScheduler --------------------------
(***************************************************************************)
(* The prompt scheduler of the pi-grok-adapter: how ACP prompts, queued    *)
(* rows, extension messages, bridge commands, cancellation and the two     *)
(* kinds of idle poll share one AdapterState.                              *)
(*                                                                         *)
(* The adapter is a set of cooperative tasks on one thread: a task runs    *)
(* without interruption from one .await to the next.  One action below is  *)
(* one such stretch.  Every task that can be suspended has a program       *)
(* counter: `handler` (ACP prompt and bridge-command handlers), `frame`    *)
(* (one delivery of an id to Pi), `probe` and `settle` (the two idle       *)
(* polls), `loop` (the event loop), `interject` (a queue/interject call    *)
(* that ends in a dispatch).                                               *)
(*                                                                         *)
(* Pi is external; its part of the module is what the adapter relies on.   *)
(***************************************************************************)
EXTENDS Naturals, Sequences, SequencesExt, FiniteSets

CONSTANTS
  Prompts,       \* ACP session/prompt calls, each with its own promptId
  Anonymous,     \* those of them that carry no promptId
  SendNow,       \* those of them whose metadata asks for a steer
  ExtMsgs,       \* messages handed over by the compatibility extension
  SteerMsgs,     \* those of them with streamingBehavior "steer"
  BridgeCmds,    \* calls of run_bridge_command
  None,          \* no id
  CANCEL_IDLE_CONFIRMATIONS, \* idle polls that end a cancellation (code: 3)
  Sessions,      \* Pi session ids
  MaxCancels,    \* bound: session/cancel notifications
  Scenarios      \* what the environment may do in a run, see Budgets

Rows == Prompts \cup ExtMsgs
Waiters == Prompts \cup BridgeCmds
Ids == Rows \cup BridgeCmds
Cancels == 1..MaxCancels

(***************************************************************************)
(* What the outside world may still do: how many cancels, bootstrap        *)
(* reloads, direct Bash commands and pager operations on queue rows, which *)
(* calls and messages it makes at all, and which liberties it takes:       *)
(*   gap     Pi answers a later line before it starts a prompt,            *)
(*   reject  Pi answers a prompt with success = false,                     *)
(*   exit    the Pi process exits,                                         *)
(*   slow    the cancel deadline passes between two idle answers,          *)
(*   plan    writing the plan-mode files fails.                            *)
(***************************************************************************)
Liberties == {"gap", "reject", "exit", "slow", "plan"}
Budgets == [cancel: Nat, refresh: Nat, bash: Nat, queue: Nat,
            calls: SUBSET Ids, may: SUBSET Liberties]

ASSUME SetsAssumption ==
  /\ Anonymous \subseteq Prompts
  /\ SendNow \subseteq Prompts
  /\ SteerMsgs \subseteq ExtMsgs
  /\ Prompts \cap ExtMsgs = {}
  /\ BridgeCmds \cap Rows = {}
  /\ None \notin Ids

ASSUME BoundsAssumption ==
  /\ CANCEL_IDLE_CONFIRMATIONS \in Nat \ {0}
  /\ MaxCancels \in Nat
  /\ Scenarios \subseteq Budgets
  /\ \A s \in Scenarios : s.cancel <= MaxCancels
  /\ Sessions # {}

VARIABLES
  active_prompts,   \* ids whose completion sender is in active_prompts
  agent_started,    \* those of them with agent_started set
  queued_prompt_completions, \* ids whose sender waits with a queue row
  local_entries,    \* ids of the queue rows, first to be dispatched first
  running,          \* id of QueueMirror.running
  agent_running,
  cancelling,
  bash_running,
  acp_session_id,
  handler,          \* [Waiters -> pc of the ACP handler]
  completion,       \* [Waiters -> what the completion channel delivered]
  frame,            \* [Ids -> pc of the delivery of id to Pi]
  via,              \* [Ids -> which code path owns that delivery]
  probe,            \* [Ids -> pc of the probe_prompt_without_agent task]
  settle,           \* [Cancels -> pc of cancel and settle_cancelled_prompts]
  idle_polls,       \* [Cancels -> consecutive idle answers]
  loop,             \* pc of run_events / handle_event
  loopId,           \* the id the event loop is working for
  interject,        \* pc of an idle queue/interject
  budget,           \* what the outside world may still do
  toPi,             \* lines written to Pi's stdin
  events,           \* the event channel
  preflight,        \* prompts Pi has read and not yet decided on
  piRun,            \* ids in Pi's current run
  piStreaming,
  piAlive,
  emitted,          \* extension messages Pi has emitted so far
  outcome           \* [Ids -> what became of the id inside Pi] (history)

promptVars == <<active_prompts, agent_started>>
queueVars == <<local_entries, queued_prompt_completions>>
runVars == <<running, agent_running, cancelling>>
adapterVars == <<promptVars, queueVars, runVars>>
waiterVars == <<handler, completion>>
deliveryVars == <<frame, via>>
pollVars == <<probe, settle, idle_polls>>
loopVars == <<loop, loopId>>
callVars == <<acp_session_id, bash_running, interject, budget>>
piVars == <<preflight, piRun, piStreaming, piAlive, emitted, outcome>>
vars == <<adapterVars, waiterVars, deliveryVars, pollVars, loopVars, callVars,
          toPi, events, piVars>>

\* Commands written to Pi, and the events it writes.
Lines == [kind: {"prompt", "steer", "probe"}, id: Ids]
           \cup [kind: {"settle"}, id: Cancels]
           \cup [kind: {"abort", "abort_bash"}, id: {None}]
Events == [type: {"message"}, id: ExtMsgs]
            \cup [type: {"agent_start", "agent_settled", "exit"}, id: {None}]

\* The part of AdapterState the scheduler lives on.
AdapterTypeOK ==
  /\ active_prompts \subseteq Waiters
  /\ agent_started \subseteq active_prompts
  /\ queued_prompt_completions \subseteq Prompts
  /\ local_entries \in Seq(Rows)
  /\ running \in Rows \cup {None}
  /\ agent_running \in BOOLEAN
  /\ cancelling \in BOOLEAN

\* The ACP handlers and the deliveries they wait for.
CallTypeOK ==
  /\ handler \in [Waiters -> {"new", "publish", "request", "wait", "failed"}]
  /\ completion \in [Waiters -> {"none", "end_turn", "cancelled"}]
  /\ frame \in [Ids -> {"none", "publish", "request", "ok", "err", "retry"}]
  /\ via \in [Ids -> {"none", "prompt", "steer", "dispatch", "interject",
                      "bridge"}]

\* The background tasks.
TaskTypeOK ==
  /\ probe \in [Ids -> {"none", "sleep", "asked", "idle", "publish",
                        "publishExt", "complete"}]
  /\ settle \in [Cancels -> {"none", "abort", "abort_bash", "poll", "asked",
                             "idle", "busy", "publish", "done"}]
  /\ idle_polls \in [Cancels -> Nat]
  /\ loop \in {"recv", "usage", "rebroadcast", "rebroadcastExt", "complete",
               "deliver", "enqueue", "interject"}
  /\ loopId \in Ids \cup {None}
  /\ interject \in {"none", "publish"}
  /\ bash_running \in BOOLEAN
  /\ acp_session_id \in Sessions
  /\ budget \in Budgets

PiTypeOK ==
  /\ toPi \in Seq(Lines)
  /\ events \in Seq(Events)
  /\ preflight \subseteq Ids \X {"prompt", "steer"}
  /\ piRun \subseteq Ids
  /\ piStreaming \in BOOLEAN
  /\ piAlive \in BOOLEAN
  /\ emitted \subseteq ExtMsgs
  /\ outcome \in [Ids -> {"none", "running", "settled", "consumed",
                          "rejected"}]

TypeOK == AdapterTypeOK /\ CallTypeOK /\ TaskTypeOK /\ PiTypeOK

Init ==
  /\ active_prompts = {}
  /\ agent_started = {}
  /\ queued_prompt_completions = {}
  /\ local_entries = <<>>
  /\ running = None
  /\ agent_running = FALSE
  /\ cancelling = FALSE
  /\ bash_running = FALSE
  /\ acp_session_id \in Sessions
  /\ handler = [w \in Waiters |-> "new"]
  /\ completion = [w \in Waiters |-> "none"]
  /\ frame = [i \in Ids |-> "none"]
  /\ via = [i \in Ids |-> "none"]
  /\ probe = [i \in Ids |-> "none"]
  /\ settle = [c \in Cancels |-> "none"]
  /\ idle_polls = [c \in Cancels |-> 0]
  /\ loop = "recv"
  /\ loopId = None
  /\ interject = "none"
  /\ budget \in Scenarios
  /\ toPi = <<>>
  /\ events = <<>>
  /\ preflight = {}
  /\ piRun = {}
  /\ piStreaming = FALSE
  /\ piAlive = TRUE
  /\ emitted = {}
  /\ outcome = [i \in Ids |-> "none"]
----------------------------------------------------------------------------
(***************************************************************************)
(* Pieces shared by several handlers.                                      *)
(***************************************************************************)
\* adapter_busy, with act for the value active_prompts has at the call.
adapter_busy(act) ==
  agent_running \/ cancelling \/ bash_running \/ act # {} \/ running # None

\* What the oneshot channels hold after the senders of S were used.
Completed(S, reason) ==
  [w \in Waiters |-> IF w \in S THEN reason ELSE completion[w]]

\* Slip: the started flag outlives its entry.
SetActive_flagLeft(act) ==
  /\ active_prompts' = act
  /\ UNCHANGED agent_started

\* Slip: the entries are used without being taken out.
SetActive_notDrained(act) ==
  /\ active_prompts' = active_prompts \cup act
  /\ agent_started' = agent_started

\* remove_prompt / take_active_prompt / finish_prompts leave exactly `act`.
SetActive(act) ==
  /\ active_prompts' = act
  /\ agent_started' = agent_started \cap act

\* Slip: the senders of the drained rows are forgotten.
DrainQueue_unanswered(also) ==
  /\ local_entries' = <<>>
  /\ completion' = Completed(also, "cancelled")
  /\ queued_prompt_completions' =
       queued_prompt_completions \ Range(local_entries)

\* The drained rows' senders and those of `also` answer cancelled.
DrainQueue(also) ==
  LET rows == queued_prompt_completions \cap Range(local_entries) IN
  /\ local_entries' = <<>>
  /\ completion' = Completed(also \cup rows, "cancelled")
  /\ queued_prompt_completions' = queued_prompt_completions \ rows

Write(kind, id) == toPi' = Append(toPi, [kind |-> kind, id |-> id])

Without(id) ==
  IF \E k \in DOMAIN local_entries : local_entries[k] = id
  THEN RemoveAt(local_entries,
                CHOOSE k \in DOMAIN local_entries : local_entries[k] = id)
  ELSE local_entries

WillDispatch(act) == local_entries # <<>> /\ ~adapter_busy(act)

\* One turn of dispatch_next_queued up to its first await: when idle, pop the
\* first row, move its completion sender to active_prompts and pin it.
dispatch_next_queued(act, frames) ==
  \/ /\ WillDispatch(act)
     /\ LET e == Head(local_entries) IN
          /\ local_entries' = Tail(local_entries)
          /\ SetActive(act \cup ({e} \cap queued_prompt_completions))
          /\ queued_prompt_completions' = queued_prompt_completions \ {e}
          /\ agent_running' = TRUE
          /\ running' = e
          /\ frame' = [frames EXCEPT ![e] = "publish"]
          /\ via' = [via EXCEPT ![e] = "dispatch"]
     /\ UNCHANGED cancelling
  \/ /\ ~WillDispatch(act)
     /\ SetActive(act)
     /\ frame' = frames
     /\ UNCHANGED <<queueVars, runVars, via>>

\* The event loop goes on with what its dispatch call is doing.
LoopFollowsDispatch(act) ==
  /\ loop' = IF WillDispatch(act) THEN "deliver" ELSE "recv"
  /\ loopId' = IF WillDispatch(act) THEN Head(local_entries) ELSE None

LoopReturns(id) ==
  IF loop = "deliver" /\ loopId = id
  THEN loop' = "recv" /\ loopId' = None
  ELSE UNCHANGED loopVars
----------------------------------------------------------------------------
(***************************************************************************)
(* session/prompt.                                                         *)
(***************************************************************************)
\* Slip: the sender is registered only after the next await.
EnqueuePrompt_lateSender(p) ==
  /\ adapter_busy(active_prompts) /\ p \notin SendNow
  /\ local_entries' = Append(local_entries, p)
  /\ UNCHANGED <<promptVars, queued_prompt_completions, runVars>>

\* A prompt that finds the adapter busy and does not ask for a steer becomes
\* a queue row with its completion sender.
EnqueuePrompt(p) ==
  /\ adapter_busy(active_prompts) /\ p \notin SendNow
  /\ local_entries' = Append(local_entries, p)
  /\ queued_prompt_completions' = queued_prompt_completions \cup {p}
  /\ UNCHANGED <<promptVars, runVars>>

\* Every other prompt becomes active at once, and is pinned as the running
\* one when it is no steer and has a promptId.
ActivatePrompt(p) ==
  /\ ~adapter_busy(active_prompts) \/ p \in SendNow
  /\ active_prompts' = active_prompts \cup {p}
  /\ running' = IF ~adapter_busy(active_prompts) /\ p \notin Anonymous
                  THEN p ELSE running
  /\ agent_running' = TRUE
  /\ UNCHANGED <<queueVars, agent_started, cancelling>>

prompt(p) ==
  LET mode == IF adapter_busy(active_prompts) THEN "steer" ELSE "prompt" IN
  /\ handler[p] = "new" /\ p \in budget.calls
  /\ \/ /\ EnqueuePrompt(p)
        /\ handler' = [handler EXCEPT ![p] = "publish"]
        /\ UNCHANGED <<deliveryVars, toPi>>
     \/ /\ ActivatePrompt(p)
        /\ handler' = [handler EXCEPT ![p] = "request"]
        /\ frame' = [frame EXCEPT ![p] = "request"]
        /\ via' = [via EXCEPT ![p] = mode]
        /\ Write(mode, p)
  /\ UNCHANGED <<callVars, completion, pollVars, loopVars, events, piVars>>

\* The same handler when persist_plan_mode_state or sync_plan_mode_control
\* fails: it returns the error after the state was changed and before
\* anything was sent.
promptPlanFault(p) ==
  /\ "plan" \in budget.may
  /\ handler[p] = "new" /\ p \in budget.calls
  /\ handler' = [handler EXCEPT ![p] = "failed"]
  /\ EnqueuePrompt(p) \/ ActivatePrompt(p)
  /\ UNCHANGED <<callVars, completion, deliveryVars, pollVars, loopVars, toPi,
                 events, piVars>>

\* The queued branch: the snapshot is published, then the row may start.
promptQueued(p) ==
  /\ handler[p] = "publish"
  /\ handler' = [handler EXCEPT ![p] = "wait"]
  /\ dispatch_next_queued(active_prompts, frame)
  /\ UNCHANGED <<callVars, completion, pollVars, loopVars, toPi, events,
                 piVars>>

\* Pi accepted a directly sent prompt or bridge command: spawn its probe.
promptAccepted(w) ==
  /\ handler[w] = "request" /\ frame[w] = "ok"
  /\ handler' = [handler EXCEPT ![w] = "wait"]
  /\ frame' = [frame EXCEPT ![w] = "none"]
  /\ probe' = [probe EXCEPT ![w] = "sleep"]
  /\ UNCHANGED <<adapterVars, callVars, completion, via, settle, idle_polls,
                 loopVars, toPi, events, piVars>>

\* The request failed: forget the prompt, and unpin it when it was pinned.
promptRejected(w) ==
  LET pinned == via[w] = "prompt" /\ w \notin Anonymous IN
  /\ handler[w] = "request" /\ frame[w] = "err"
  /\ handler' = [handler EXCEPT ![w] = "failed"]
  /\ frame' = [frame EXCEPT ![w] = "none"]
  /\ SetActive(active_prompts \ {w})
  /\ agent_running' = (agent_running /\ ~pinned)
  /\ running' = IF pinned THEN None ELSE running
  /\ UNCHANGED <<callVars, queueVars, cancelling, completion, via, pollVars,
                 loopVars, toPi, events, piVars>>

\* A bridge command waits among the active prompts without marking the
\* agent as running.
run_bridge_command(b) ==
  /\ b \in BridgeCmds \cap budget.calls
  /\ handler[b] = "new"
  /\ handler' = [handler EXCEPT ![b] = "request"]
  /\ active_prompts' = active_prompts \cup {b}
  /\ frame' = [frame EXCEPT ![b] = "request"]
  /\ via' = [via EXCEPT ![b] = "bridge"]
  /\ Write("prompt", b)
  /\ UNCHANGED <<callVars, queueVars, agent_started, runVars, completion,
                 pollVars, loopVars, events, piVars>>
----------------------------------------------------------------------------
(***************************************************************************)
(* dispatch_next_queued after its first await.                             *)
(***************************************************************************)
dispatchSend(e) ==
  /\ via[e] = "dispatch" /\ frame[e] = "publish"
  /\ frame' = [frame EXCEPT ![e] = "request"]
  /\ Write("prompt", e)
  /\ UNCHANGED <<adapterVars, callVars, waiterVars, via, pollVars, loopVars,
                 events, piVars>>

dispatchAccepted(e) ==
  /\ via[e] = "dispatch" /\ frame[e] = "ok"
  /\ frame' = [frame EXCEPT ![e] = "none"]
  /\ probe' = [probe EXCEPT ![e] = "sleep"]
  /\ LoopReturns(e)
  /\ UNCHANGED <<adapterVars, callVars, waiterVars, via, settle, idle_polls,
                 toPi, events, piVars>>

\* A failed dispatch resets the run whoever owns it by now, reports the row
\* as cancelled, and after the notifications tries the next row.
dispatchRejected(e) ==
  /\ via[e] = "dispatch" /\ frame[e] = "err"
  /\ frame' = [frame EXCEPT ![e] = "retry"]
  /\ SetActive(active_prompts \ {e})
  /\ completion' = Completed({e} \cap active_prompts, "cancelled")
  /\ agent_running' = FALSE
  /\ running' = None
  /\ UNCHANGED <<callVars, queueVars, cancelling, handler, via, pollVars,
                 loopVars, toPi, events, piVars>>

dispatchRetry(e) ==
  /\ frame[e] = "retry"
  /\ dispatch_next_queued(active_prompts, [frame EXCEPT ![e] = "none"])
  /\ IF loop = "deliver" /\ loopId = e
     THEN LoopFollowsDispatch(active_prompts)
     ELSE UNCHANGED loopVars
  /\ UNCHANGED <<callVars, waiterVars, pollVars, toPi, events, piVars>>
----------------------------------------------------------------------------
(***************************************************************************)
(* Queue rows: extension messages and the pager's queue operations.        *)
(***************************************************************************)
Queued(id) == \E k \in DOMAIN local_entries : local_entries[k] = id

\* Slip: the row is copied out of the queue instead of taken.
InterjectSteer_rowKept(id) ==
  /\ Queued(id) /\ ~cancelling
  /\ agent_running \/ active_prompts # {}
  /\ active_prompts' = active_prompts
                         \cup ({id} \cap queued_prompt_completions)
  /\ queued_prompt_completions' = queued_prompt_completions \ {id}
  /\ frame' = [frame EXCEPT ![id] = "publish"]
  /\ via' = [via EXCEPT ![id] = "interject"]
  /\ UNCHANGED <<agent_started, local_entries, runVars>>

\* Slip: the row leaves and its sender stays behind.
InterjectSteer_senderKept(id) ==
  /\ Queued(id) /\ ~cancelling
  /\ agent_running \/ active_prompts # {}
  /\ local_entries' = Without(id)
  /\ frame' = [frame EXCEPT ![id] = "publish"]
  /\ via' = [via EXCEPT ![id] = "interject"]
  /\ UNCHANGED <<promptVars, queued_prompt_completions, runVars>>

\* The steering branch of interject_local_queue: the row leaves the queue and
\* its sender becomes active.
InterjectSteer(id) ==
  /\ Queued(id)
  /\ ~cancelling
  /\ agent_running \/ active_prompts # {}
  /\ local_entries' = Without(id)
  /\ active_prompts' = active_prompts
                         \cup ({id} \cap queued_prompt_completions)
  /\ queued_prompt_completions' = queued_prompt_completions \ {id}
  /\ frame' = [frame EXCEPT ![id] = "publish"]
  /\ via' = [via EXCEPT ![id] = "interject"]
  /\ UNCHANGED <<agent_started, runVars>>

\* The two branches that put the row back, at the front of the queue.
InterjectFront(id) ==
  /\ Queued(id)
  /\ local_entries' = <<id>> \o Without(id)
  /\ UNCHANGED <<promptVars, queued_prompt_completions, runVars,
                 deliveryVars>>

InterjectIdle == ~cancelling /\ ~agent_running /\ active_prompts = {}

\* x.ai/queue/interject
queue_interject(id) ==
  /\ budget.queue > 0
  /\ budget' = [budget EXCEPT !.queue = @ - 1]
  /\ \/ InterjectSteer(id) /\ UNCHANGED interject
     \/ InterjectFront(id) /\ cancelling /\ UNCHANGED interject
     \/ /\ InterjectFront(id)
        /\ InterjectIdle
        /\ interject = "none"
        /\ interject' = "publish"
  /\ UNCHANGED <<acp_session_id, bash_running, waiterVars, pollVars, loopVars,
                 toPi, events, piVars>>

interjectDispatch ==
  /\ interject = "publish"
  /\ interject' = "none"
  /\ dispatch_next_queued(active_prompts, frame)
  /\ UNCHANGED <<acp_session_id, bash_running, waiterVars, pollVars, loopVars,
                 budget, toPi, events, piVars>>

interjectSend(id) ==
  /\ via[id] = "interject" /\ frame[id] = "publish"
  /\ frame' = [frame EXCEPT ![id] = "request"]
  /\ Write("steer", id)
  /\ UNCHANGED <<adapterVars, callVars, waiterVars, via, pollVars, loopVars,
                 events, piVars>>

\* No probe is spawned for an interjected row.
interjectAccepted(id) ==
  /\ via[id] = "interject" /\ frame[id] = "ok"
  /\ frame' = [frame EXCEPT ![id] = "none"]
  /\ LoopReturns(id)
  /\ UNCHANGED <<adapterVars, callVars, waiterVars, via, pollVars, toPi,
                 events, piVars>>

interjectRejected(id) ==
  /\ via[id] = "interject" /\ frame[id] = "err"
  /\ frame' = [frame EXCEPT ![id] = "none"]
  /\ SetActive(active_prompts \ {id})
  /\ completion' = Completed({id} \cap active_prompts, "cancelled")
  /\ LoopReturns(id)
  /\ UNCHANGED <<callVars, queueVars, runVars, handler, via, pollVars, toPi,
                 events, piVars>>

\* x.ai/queue/remove and x.ai/queue/clear: take rows out and finish their
\* waiters as cancelled.
queue_remove(id) ==
  /\ budget.queue > 0
  /\ Queued(id)
  /\ local_entries' = Without(id)
  /\ completion' = Completed({id} \cap queued_prompt_completions, "cancelled")
  /\ queued_prompt_completions' = queued_prompt_completions \ {id}
  /\ budget' = [budget EXCEPT !.queue = @ - 1]
  /\ UNCHANGED <<acp_session_id, promptVars, runVars, bash_running, handler,
                 deliveryVars, pollVars, loopVars, interject, toPi, events,
                 piVars>>

queue_clear ==
  /\ budget.queue > 0
  /\ local_entries # <<>>
  /\ DrainQueue({})
  /\ budget' = [budget EXCEPT !.queue = @ - 1]
  /\ UNCHANGED <<acp_session_id, promptVars, runVars, bash_running, handler,
                 deliveryVars, pollVars, loopVars, interject, toPi, events,
                 piVars>>

\* x.ai/queue/reorder: the ids of a queue are distinct, so every order of the
\* rows can be asked for.
queue_reorder ==
  /\ budget.queue > 0
  /\ Len(local_entries) >= 2
  /\ local_entries' \in {s \in [DOMAIN local_entries -> Range(local_entries)] :
                           /\ Range(s) = Range(local_entries)
                           /\ IsInjective(s)}
  /\ budget' = [budget EXCEPT !.queue = @ - 1]
  /\ UNCHANGED <<acp_session_id, promptVars, queued_prompt_completions,
                 runVars, bash_running, waiterVars, deliveryVars, pollVars,
                 loopVars, interject, toPi, events, piVars>>
----------------------------------------------------------------------------
(***************************************************************************)
(* session/cancel and settle_cancelled_prompts.                            *)
(***************************************************************************)
\* Up to its first await cancel empties the queue and answers every waiter.
\* (The cancelled flag of an active prompt is set and used in this stretch.)
cancel(c) ==
  /\ budget.cancel > 0
  /\ c = MaxCancels - budget.cancel + 1
  /\ budget' = [budget EXCEPT !.cancel = @ - 1]
  /\ cancelling' = TRUE
  /\ running' = None
  /\ DrainQueue(active_prompts)
  /\ SetActive({})
  /\ settle' = [settle EXCEPT ![c] =
                  IF bash_running THEN "abort_bash" ELSE "abort"]
  /\ UNCHANGED <<acp_session_id, agent_running, bash_running, handler,
                 deliveryVars, probe, idle_polls, loopVars, interject, toPi,
                 events, piVars>>

\* After the notifications: tell Pi, and start the settle task.
cancelNotify(c) ==
  /\ settle[c] \in {"abort", "abort_bash"}
  /\ Write(settle[c], None)
  /\ settle' = [settle EXCEPT ![c] = "poll"]
  /\ UNCHANGED <<adapterVars, callVars, waiterVars, deliveryVars, probe,
                 idle_polls, loopVars, events, piVars>>

settlePoll(c) ==
  /\ settle[c] = "poll"
  /\ \/ /\ ~cancelling
        /\ settle' = [settle EXCEPT ![c] = "done"]
        /\ UNCHANGED toPi
     \/ /\ cancelling
        /\ settle' = [settle EXCEPT ![c] = "asked"]
        /\ Write("settle", c)
  /\ UNCHANGED <<adapterVars, callVars, waiterVars, deliveryVars, probe,
                 idle_polls, loopVars, events, piVars>>

cancellation_idle_confirmed(c) ==
  settle[c] = "idle" /\ idle_polls[c] + 1 >= CANCEL_IDLE_CONFIRMATIONS

\* Slip: the run is dropped and the cancellation flag is left set.
settleConfirmed_flagLeft(c) ==
  /\ cancellation_idle_confirmed(c)
  /\ agent_running' = FALSE
  /\ running' = None
  /\ settle' = [settle EXCEPT ![c] = "publish"]
  /\ UNCHANGED <<callVars, promptVars, queueVars, cancelling, waiterVars,
                 deliveryVars, probe, idle_polls, loopVars, toPi, events,
                 piVars>>

\* The third consecutive idle answer reopens the scheduler.
settleConfirmed(c) ==
  /\ cancellation_idle_confirmed(c)
  /\ agent_running' = FALSE
  /\ cancelling' = FALSE
  /\ running' = None
  /\ settle' = [settle EXCEPT ![c] = "publish"]
  /\ UNCHANGED <<callVars, promptVars, queueVars, waiterVars, deliveryVars,
                 probe, idle_polls, loopVars, toPi, events, piVars>>

\* Any other answer: poll again, or give up at the deadline.
settleAgain(c) ==
  /\ settle[c] \in {"idle", "busy"}
  /\ ~cancellation_idle_confirmed(c)
  /\ idle_polls' = [idle_polls EXCEPT ![c] =
                      IF settle[c] = "busy" THEN 0 ELSE @ + 1]
  /\ settle' = [settle EXCEPT ![c] = "poll"]
  /\ UNCHANGED <<adapterVars, callVars, waiterVars, deliveryVars, probe,
                 loopVars, toPi, events, piVars>>

settleDeadline(c) ==
  /\ settle[c] = "busy" \/ ("slow" \in budget.may /\ settle[c] = "idle")
  /\ ~cancellation_idle_confirmed(c)
  /\ cancelling' = FALSE
  /\ settle' = [settle EXCEPT ![c] = "done"]
  /\ UNCHANGED <<callVars, promptVars, queueVars, running, agent_running,
                 waiterVars, deliveryVars, probe, idle_polls, loopVars, toPi,
                 events, piVars>>

settleDispatch(c) ==
  /\ settle[c] = "publish"
  /\ settle' = [settle EXCEPT ![c] = "done"]
  /\ dispatch_next_queued(active_prompts, frame)
  /\ UNCHANGED <<callVars, waiterVars, probe, idle_polls, loopVars, toPi,
                 events, piVars>>
----------------------------------------------------------------------------
(***************************************************************************)
(* probe_prompt_without_agent.                                             *)
(***************************************************************************)
ShouldProbe ==
  active_prompts \ agent_started # {} \/ (running # None /\ agent_running)

probeWake(i) ==
  /\ probe[i] = "sleep"
  /\ \/ /\ ShouldProbe
        /\ probe' = [probe EXCEPT ![i] = "asked"]
        /\ Write("probe", i)
     \/ /\ ~ShouldProbe
        /\ probe' = [probe EXCEPT ![i] = "none"]
        /\ UNCHANGED toPi
  /\ UNCHANGED <<adapterVars, callVars, waiterVars, deliveryVars, settle,
                 idle_polls, loopVars, events, piVars>>

\* Pi was idle when it answered: drop the run, whoever owns it by now.
probeIdle(i) ==
  /\ probe[i] = "idle"
  /\ agent_running' = FALSE
  /\ cancelling' = FALSE
  /\ running' = None
  /\ probe' = [probe EXCEPT ![i] =
                 IF running \in ExtMsgs THEN "publishExt" ELSE "publish"]
  /\ UNCHANGED <<callVars, promptVars, queueVars, waiterVars, deliveryVars,
                 settle, idle_polls, loopVars, toPi, events, piVars>>

\* finish_prompts(EndTurn), then dispatch; a run owned by an extension is
\* announced in between.
probeFinish(i) ==
  /\ probe[i] \in {"publish", "publishExt"}
  /\ completion' = Completed(active_prompts, "end_turn")
  /\ \/ /\ probe[i] = "publish"
        /\ probe' = [probe EXCEPT ![i] = "none"]
        /\ dispatch_next_queued({}, frame)
     \/ /\ probe[i] = "publishExt"
        /\ probe' = [probe EXCEPT ![i] = "complete"]
        /\ SetActive({})
        /\ UNCHANGED <<queueVars, runVars, deliveryVars>>
  /\ UNCHANGED <<callVars, handler, settle, idle_polls, loopVars, toPi,
                 events, piVars>>

probeDispatch(i) ==
  /\ probe[i] = "complete"
  /\ probe' = [probe EXCEPT ![i] = "none"]
  /\ dispatch_next_queued(active_prompts, frame)
  /\ UNCHANGED <<callVars, waiterVars, settle, idle_polls, loopVars, toPi,
                 events, piVars>>
----------------------------------------------------------------------------
(***************************************************************************)
(* run_events: one event at a time; the handler's awaits block the loop.   *)
(***************************************************************************)
Receive(type) ==
  /\ loop = "recv"
  /\ events # <<>>
  /\ Head(events).type = type
  /\ events' = Tail(events)

\* While a cancellation is active a new run is aborted again.
on_agent_start ==
  /\ Receive("agent_start")
  /\ \/ /\ cancelling
        /\ Write("abort", None)
        /\ UNCHANGED <<agent_running, agent_started>>
     \/ /\ ~cancelling
        /\ agent_running' = TRUE
        /\ agent_started' = active_prompts
        /\ UNCHANGED toPi
  /\ UNCHANGED <<callVars, active_prompts, queueVars, running, cancelling,
                 waiterVars, deliveryVars, pollVars, loopVars, piVars>>

\* agent_settled first awaits the context usage ...
on_agent_settled ==
  /\ Receive("agent_settled")
  /\ loop' = "usage"
  /\ UNCHANGED <<adapterVars, callVars, waiterVars, deliveryVars, pollVars,
                 loopId, toPi, piVars>>

\* ... then ends the run and broadcasts the queue ...
settledReset ==
  /\ loop = "usage"
  /\ agent_running' = FALSE
  /\ cancelling' = FALSE
  /\ running' = None
  /\ \/ loop' = IF running \in ExtMsgs THEN "rebroadcastExt"
                                       ELSE "rebroadcast"
     \/ \* persisting a deferred exit failed
        "plan" \in budget.may /\ loop' = "recv"
  /\ UNCHANGED <<callVars, promptVars, queueVars, waiterVars, deliveryVars,
                 pollVars, loopId, toPi, events, piVars>>

\* Slip: the prompts are answered and the next row is not started.
settledFinish_noDispatch ==
  /\ loop \in {"rebroadcast", "rebroadcastExt"}
  /\ completion' = Completed(active_prompts, "end_turn")
  /\ SetActive({})
  /\ loop' = "recv"
  /\ UNCHANGED <<callVars, queueVars, runVars, handler, deliveryVars,
                 pollVars, loopId, toPi, events, piVars>>

\* ... and finally answers the active prompts and starts the next row.
settledFinish ==
  /\ loop \in {"rebroadcast", "rebroadcastExt"}
  /\ completion' = Completed(active_prompts, "end_turn")
  /\ \/ /\ loop = "rebroadcast"
        /\ dispatch_next_queued({}, frame)
        /\ LoopFollowsDispatch({})
     \/ /\ loop = "rebroadcastExt"
        /\ loop' = "complete"
        /\ SetActive({})
        /\ UNCHANGED <<queueVars, runVars, deliveryVars, loopId>>
  /\ UNCHANGED <<callVars, handler, pollVars, toPi, events, piVars>>

settledDispatch ==
  /\ loop = "complete"
  /\ dispatch_next_queued(active_prompts, frame)
  /\ LoopFollowsDispatch(active_prompts)
  /\ UNCHANGED <<callVars, waiterVars, pollVars, toPi, events, piVars>>

\* Slip: the message is queued although a cancellation is active.
enqueue_extension_message_always ==
  /\ Receive("message")
  /\ local_entries' = Append(local_entries, Head(events).id)
  /\ loop' = "enqueue"
  /\ loopId' = Head(events).id
  /\ UNCHANGED <<callVars, promptVars, queued_prompt_completions, runVars,
                 waiterVars, deliveryVars, pollVars, toPi, piVars>>

\* enqueue_extension_message: dropped while a cancellation is active.
enqueue_extension_message ==
  LET e == Head(events).id IN
  /\ Receive("message")
  /\ \/ /\ cancelling
        /\ UNCHANGED <<local_entries, loopVars>>
     \/ /\ ~cancelling
        /\ local_entries' = Append(local_entries, e)
        /\ loop' = IF e \in SteerMsgs /\ agent_running THEN "interject"
                                                      ELSE "enqueue"
        /\ loopId' = e
  /\ UNCHANGED <<callVars, promptVars, queued_prompt_completions, runVars,
                 waiterVars, deliveryVars, pollVars, toPi, piVars>>

enqueueDispatch ==
  /\ loop = "enqueue"
  /\ dispatch_next_queued(active_prompts, frame)
  /\ LoopFollowsDispatch(active_prompts)
  /\ UNCHANGED <<callVars, waiterVars, pollVars, toPi, events, piVars>>

enqueueInterject ==
  /\ loop = "interject"
  /\ \/ /\ InterjectSteer(loopId)
        /\ loop' = "deliver"
        /\ UNCHANGED loopId
     \/ /\ InterjectFront(loopId)
        /\ InterjectIdle \/ cancelling
        /\ loop' = IF cancelling THEN "recv" ELSE "enqueue"
        /\ loopId' = IF cancelling THEN None ELSE loopId
     \/ /\ ~Queued(loopId)
        /\ loop' = "recv"
        /\ loopId' = None
        /\ UNCHANGED <<adapterVars, acp_session_id, deliveryVars>>
  /\ UNCHANGED <<callVars, waiterVars, pollVars, toPi, events, piVars>>

\* The Pi process is gone: everything is answered as cancelled.
on_process_exit ==
  /\ Receive("exit")
  /\ agent_running' = FALSE
  /\ cancelling' = FALSE
  /\ running' = None
  /\ DrainQueue(active_prompts)
  /\ SetActive({})
  /\ UNCHANGED <<callVars, handler, deliveryVars, pollVars, loopVars, toPi,
                 piVars>>
----------------------------------------------------------------------------
(***************************************************************************)
(* Other handlers that touch the scheduler's state.                        *)
(***************************************************************************)
\* refresh() after a model, thinking-level, name or session change ends in
\* replace_bootstrap, which drops the queue with its senders.
replace_bootstrap(s) ==
  /\ budget.refresh > 0
  /\ budget' = [budget EXCEPT !.refresh = @ - 1]
  /\ local_entries' = <<>>
  /\ running' = None
  /\ completion' = Completed(queued_prompt_completions, "cancelled")
  /\ queued_prompt_completions' = {}
  /\ agent_running' = FALSE
  /\ cancelling' = FALSE
  /\ acp_session_id' = s
  /\ UNCHANGED <<promptVars, bash_running, handler, deliveryVars, pollVars,
                 loopVars, interject, toPi, events, piVars>>

execute_bash ==
  /\ budget.bash > 0
  /\ ~bash_running
  /\ budget' = [budget EXCEPT !.bash = @ - 1]
  /\ bash_running' = TRUE
  /\ UNCHANGED <<adapterVars, acp_session_id, waiterVars, deliveryVars,
                 pollVars, loopVars, interject, toPi, events, piVars>>

\* The bash RPC returned or failed; nothing is dispatched here.
bashReturned ==
  /\ bash_running
  /\ bash_running' = FALSE
  /\ UNCHANGED <<adapterVars, acp_session_id, waiterVars, deliveryVars,
                 pollVars, loopVars, interject, budget, toPi, events, piVars>>
----------------------------------------------------------------------------
(***************************************************************************)
(* Pi, as the adapter uses it: one reader of stdin lines, one run at a     *)
(* time, events and answers on stdout.                                     *)
(***************************************************************************)
Emit(type, id) == events' = Append(events, [type |-> type, id |-> id])

EndRun ==
  /\ piStreaming' = FALSE
  /\ piRun' = {}
  /\ outcome' = [i \in Ids |-> IF i \in piRun THEN "settled" ELSE outcome[i]]
  /\ Emit("agent_settled", None)

\* Aborting leaves queued steering messages behind, which may open another
\* turn of the same run.
Abort ==
  \/ ~piStreaming /\ UNCHANGED <<piStreaming, piRun, outcome, events>>
  \/ piStreaming /\ EndRun
  \/ /\ piStreaming
     /\ Cardinality(piRun) > 1
     /\ \E i \in piRun :
          /\ piRun' = piRun \ {i}
          /\ outcome' = [outcome EXCEPT ![i] = "settled"]
     /\ Emit("agent_start", None)
     /\ UNCHANGED piStreaming

PiReads ==
  LET line == Head(toPi) IN
  /\ piAlive
  /\ toPi # <<>>
  /\ "gap" \in budget.may \/ preflight = {}
  /\ toPi' = Tail(toPi)
  /\ \/ /\ line.kind \in {"prompt", "steer"}
        /\ preflight' = preflight \cup {<<line.id, line.kind>>}
        /\ UNCHANGED <<probe, settle, piStreaming, piRun, outcome, events>>
     \/ /\ line.kind = "probe"
        /\ probe' = [probe EXCEPT ![line.id] =
                       IF piStreaming THEN "none" ELSE "idle"]
        /\ UNCHANGED <<preflight, settle, piStreaming, piRun, outcome,
                       events>>
     \/ /\ line.kind = "settle"
        /\ settle' = [settle EXCEPT ![line.id] =
                        IF piStreaming THEN "busy" ELSE "idle"]
        /\ UNCHANGED <<preflight, probe, piStreaming, piRun, outcome, events>>
     \/ /\ line.kind = "abort"
        /\ Abort
        /\ UNCHANGED <<preflight, probe, settle>>
     \/ /\ line.kind = "abort_bash"
        /\ UNCHANGED <<preflight, probe, settle, piStreaming, piRun, outcome,
                       events>>
  /\ UNCHANGED <<adapterVars, callVars, waiterVars, deliveryVars, idle_polls,
                 loopVars, piAlive, emitted>>

\* Pi's verdict on a prompt it has read.
Decide(i, mode, answer, fate) ==
  /\ <<i, mode>> \in preflight
  /\ preflight' = preflight \ {<<i, mode>>}
  /\ frame' = [frame EXCEPT ![i] = answer]
  /\ outcome' = [outcome EXCEPT ![i] = fate]
  /\ UNCHANGED <<adapterVars, callVars, waiterVars, via, pollVars, loopVars,
                 toPi, piAlive, emitted>>

PiStartsRun(i, mode) ==
  /\ i \in Rows
  /\ ~piStreaming
  /\ Decide(i, mode, "ok", "running")
  /\ piStreaming' = TRUE
  /\ piRun' = {i}
  /\ Emit("agent_start", None)

PiSteersRun(i) ==
  /\ piStreaming
  /\ Decide(i, "steer", "ok", "running")
  /\ piRun' = piRun \cup {i}
  /\ UNCHANGED <<piStreaming, events>>

\* An input handler takes the prompt and no run starts; bridge commands are
\* extension commands and always end here.
PiConsumes(i, mode) ==
  /\ Decide(i, mode, "ok", "consumed")
  /\ UNCHANGED <<piStreaming, piRun, events>>

\* A plain prompt is refused during a run; any prompt may be refused.
PiRefuses(i, mode) ==
  /\ "reject" \in budget.may \/ (piStreaming /\ mode = "prompt" /\ i \in Rows)
  /\ Decide(i, mode, "err", "rejected")
  /\ UNCHANGED <<piStreaming, piRun, events>>

PiSettles ==
  /\ piStreaming
  /\ EndRun
  /\ UNCHANGED <<adapterVars, callVars, waiterVars, deliveryVars, pollVars,
                 loopVars, toPi, preflight, piAlive, emitted>>

\* An extension calls sendUserMessage; the compatibility extension forwards
\* it to the adapter.
PiSendsMessage(e) ==
  /\ piAlive
  /\ e \in budget.calls \ emitted
  /\ emitted' = emitted \cup {e}
  /\ Emit("message", e)
  /\ UNCHANGED <<adapterVars, callVars, waiterVars, deliveryVars, pollVars,
                 loopVars, toPi, preflight, piRun, piStreaming, piAlive,
                 outcome>>

\* The process exits: every outstanding request fails, then the exit event.
PiExits ==
  /\ "exit" \in budget.may
  /\ piAlive
  /\ piAlive' = FALSE
  /\ piStreaming' = FALSE
  /\ piRun' = {}
  /\ preflight' = {}
  /\ toPi' = <<>>
  /\ frame' = [i \in Ids |-> IF frame[i] = "request" THEN "err" ELSE frame[i]]
  /\ probe' = [i \in Ids |-> IF probe[i] = "asked" THEN "none" ELSE probe[i]]
  /\ settle' = [c \in Cancels |->
                  IF settle[c] = "asked" THEN "done" ELSE settle[c]]
  /\ Emit("exit", None)
  /\ UNCHANGED <<adapterVars, callVars, waiterVars, via, idle_polls, loopVars,
                 emitted, outcome>>

\* A request written after the exit fails (closed channel or timeout).
RequestFails ==
  LET line == Head(toPi) IN
  /\ ~piAlive
  /\ toPi # <<>>
  /\ toPi' = Tail(toPi)
  /\ frame' = IF line.kind \in {"prompt", "steer"}
              THEN [frame EXCEPT ![line.id] = "err"] ELSE frame
  /\ probe' = IF line.kind = "probe"
              THEN [probe EXCEPT ![line.id] = "none"] ELSE probe
  /\ settle' = IF line.kind = "settle"
               THEN [settle EXCEPT ![line.id] = "done"] ELSE settle
  /\ UNCHANGED <<adapterVars, callVars, waiterVars, via, idle_polls, loopVars,
                 events, piVars>>
----------------------------------------------------------------------------
PromptHandler(p) ==
  \/ promptQueued(p)
  \/ promptAccepted(p)
  \/ promptRejected(p)

Delivery(i) ==
  \/ dispatchSend(i) \/ dispatchAccepted(i) \/ dispatchRejected(i)
  \/ dispatchRetry(i)
  \/ interjectSend(i) \/ interjectAccepted(i) \/ interjectRejected(i)

SettleTask(c) ==
  \/ cancelNotify(c) \/ settlePoll(c) \/ settleConfirmed(c)
  \/ settleAgain(c) \/ settleDeadline(c) \/ settleDispatch(c)

ProbeTask(i) ==
  \/ probeWake(i) \/ probeIdle(i) \/ probeFinish(i) \/ probeDispatch(i)

EventLoop ==
  \/ on_agent_start \/ on_agent_settled \/ settledReset \/ settledFinish
  \/ settledDispatch \/ enqueue_extension_message \/ enqueueDispatch
  \/ enqueueInterject \/ on_process_exit

PiDecides ==
  \E i \in Ids :
    \/ PiSteersRun(i)
    \/ \E mode \in {"prompt", "steer"} :
         PiStartsRun(i, mode) \/ PiConsumes(i, mode) \/ PiRefuses(i, mode)

\* What the pager and the user may do at any time.
Client ==
  \/ \E p \in Prompts : prompt(p) \/ promptPlanFault(p)
  \/ \E b \in BridgeCmds : run_bridge_command(b)
  \/ \E c \in Cancels : cancel(c)
  \/ \E id \in Rows : queue_interject(id) \/ queue_remove(id)
  \/ queue_clear
  \/ queue_reorder
  \/ \E s \in Sessions : replace_bootstrap(s)
  \/ execute_bash

Adapter ==
  \/ \E w \in Waiters : PromptHandler(w)
  \/ \E i \in Ids : Delivery(i) \/ ProbeTask(i)
  \/ \E c \in Cancels : SettleTask(c)
  \/ interjectDispatch
  \/ EventLoop

Pi ==
  \/ PiReads
  \/ PiDecides
  \/ PiSettles
  \/ \E e \in ExtMsgs : PiSendsMessage(e)
  \/ PiExits
  \/ RequestFails
  \/ bashReturned

Next == Client \/ Adapter \/ Pi

Spec == Init /\ [][Next]_vars

\* Every task of the local executor that can run is run, and Pi keeps
\* reading, deciding and ending its runs.  Clients, extensions and the
\* process exit are not fair.
Fairness ==
  /\ \A w \in Waiters : WF_vars(PromptHandler(w))
  /\ \A i \in Ids : WF_vars(Delivery(i)) /\ WF_vars(ProbeTask(i))
  /\ \A c \in Cancels : WF_vars(SettleTask(c))
  /\ WF_vars(interjectDispatch)
  /\ WF_vars(EventLoop)
  /\ WF_vars(PiReads \/ RequestFails)
  /\ WF_vars(PiDecides)
  /\ WF_vars(PiSettles)
  /\ WF_vars(bashReturned)

FairSpec == Spec /\ Fairness
----------------------------------------------------------------------------
Submitted(w) == handler[w] \in {"publish", "request", "wait"}

Answered(w) ==
  handler[w] = "failed" \/ (handler[w] = "wait" /\ completion[w] # "none")

\* The completion senders are in good hands: one that the adapter holds
\* (active_prompts, queued_prompt_completions) is held in one place and was
\* not used yet, and a handler that still waits has its sender held.
WaiterHeld ==
  \A w \in Waiters :
    /\ ~(w \in active_prompts /\ w \in queued_prompt_completions)
    /\ w \in active_prompts \cup queued_prompt_completions
         => completion[w] = "none"
    /\ Submitted(w) /\ completion[w] = "none"
         => w \in active_prompts \cup queued_prompt_completions

\* A sender kept with the queue has its row there: remove, clear, cancel and
\* process exit find the waiters of queued prompts only through the rows.
QueuedHasRow == queued_prompt_completions \subseteq Range(local_entries)

\* A row that waits has not been handed to Pi and stands in the queue once:
\* however send-now, dispatch and cancel interleave, a row is executed at
\* most once.
RowRunsOnce ==
  /\ IsInjective(local_entries)
  /\ \A i \in Range(local_entries) : via[i] = "none"

\* While a cancellation is active the queue holds no extension message, so
\* nothing that waited or arrives is dispatched behind the user's Esc
\* (enqueue_extension_message); a row that a dispatch had taken out before is
\* still sent.
CancelBarrier == cancelling => Range(local_entries) \cap ExtMsgs = {}

\* The step that starts a cancellation answers every prompt submitted so far,
\* queued, sent or running (Session::cancel).
CancelAnswersAll ==
  [][\A c \in Cancels :
       settle[c] = "none" /\ settle'[c] # "none"
         => \A w \in Waiters : Submitted(w) => completion'[w] # "none"]_vars

\* What the ACP client knows of a call.
status ==
  [w \in Waiters |->
     IF handler[w] = "new" THEN "new"
     ELSE IF handler[w] = "failed" THEN "failed"
     ELSE IF handler[w] = "wait" /\ completion[w] # "none" THEN completion[w]
     ELSE "pending"]

Service == INSTANCE PromptService WITH Calls <- Waiters

\* The scheduler implements the service its client sees: a call is answered
\* at most once and its answer never changes.
ImplementsService == Service!Spec

\* Every prompt and bridge command that was submitted while Pi was there is
\* answered, also if Pi exits then.
EveryPromptAnswered ==
  \A w \in Waiters : handler[w] # "new" /\ piAlive ~> Answered(w)

\* A row that waits while the adapter is idle is taken up: it starts, or the
\* adapter is busy with something else, whose end will take it up.
IdleQueueMoves ==
  (local_entries # <<>> /\ ~adapter_busy(active_prompts))
    ~> (local_entries = <<>> \/ adapter_busy(active_prompts))

\* No row stays in the queue for ever.
QueueDrains == \A r \in Rows : Queued(r) /\ piAlive ~> ~Queued(r)

\* A prompt is answered with end_turn once Pi is done with it.
EndTurnWhenDone ==
  \A w \in Waiters :
    completion[w] = "end_turn" => outcome[w] \notin {"none", "running"}

\* The scheduler reopens after a cancellation: the settle task does it, or
\* the exit event when the settle task gives up because Pi is gone.
CancelEnds == cancelling /\ piAlive ~> ~cancelling
============================================================================
