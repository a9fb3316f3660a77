# Verification of grok-pi

grok-pi runs the Pi coding agent behind the Grok Build terminal UI.  The code of
its own is the crate `src/crates/codegen/pi-grok-adapter`: it starts Pi as a child
process, speaks Pi's JSONL RPC protocol with it, and offers it to the pager as an
ACP agent.  Most of the rest of the repository is the upstream terminal
application, which reaches the adapter only over ACP.  This directory holds TLA+
models of the adapter, the TLC runs that check them and TLAPS proofs about them.  One
library of the rest is modelled as well, because it is concurrent in a way tests hardly
reach: the circuit breaker (`src/crates/common/xai-circuit-breaker`) that all requests of
the storage client share.

Paths below are relative to `src/crates/codegen/pi-grok-adapter/src` unless they
say otherwise.

## Inventory

The adapter itself runs on one thread (a tokio `LocalSet`): tasks interleave at
`.await` and nowhere else.  The tasks of the RPC transport are spawned on the
multi-threaded runtime and interleave at every lock and channel.  All handlers
share one `AdapterState` in a `RefCell`.  Every `.await` (a notification to the
pager, a request to Pi, a sleep) is a point where any other handler may change
that state.

| Component | State | Operations | Interacts with |
|---|---|---|---|
| prompt scheduler (`pi_adapter/agent.rs`, `queue_runtime.rs`, `events.rs`) | `active_prompts`, `queued_prompt_completions`, `agent_running`, `cancelling`, `bash_running`, the local rows and the running row of the mirror | `prompt`, `cancel`, `dispatch_next_queued`, `interject_local_queue`, `enqueue_extension_message`, `settle_cancelled_prompts`, `probe_prompt_without_agent`, event handlers, queue operations of the pager | Pi (requests, events), the pager (ACP answers, snapshots), plan mode (files) |
| queue mirror (`queue_bridge.rs`) | local rows, rows reported by Pi, reservations, the running row, versions | enqueue, take, edit, reorder, reserve, `apply_queue_update`, `snapshot` | scheduler, Pi's `queue_update` |
| Pi RPC transport (`pi_rpc.rs`) | table of pending requests, writer channel, event channel, stderr ring, child process | `spawn`, `request`, `notify`, `kill`; writer, reader, stderr and exit tasks | everything that talks to Pi |
| plan mode (`plan_mode.rs`, parts of `agent.rs`, `tools.rs`, `session.rs`) | tracker (inactive, pending, active, exit pending), reminders, snapshot and control files | enter, activate, exit, deferred exit, approval, persist, load | prompts, settle, compaction, files shared with an extension |
| session switching and replay (`pi_adapter/session.rs`, `replay.rs`, `notifications.rs`) | session id, bootstrap, replay cache, pending subagent bridge | `refresh`, `switch_session`, `replace_bootstrap`, replay, guarded notifications | scheduler (queue reset), pager |
| tools bridge (`pi_adapter/tools.rs`, `tool_projection.rs`, `todo_bridge.rs`, `background_bash_bridge.rs`) | open tool calls, Bash flag, background tasks | tool events, permission and approval dialogs, direct Bash | pager, scheduler (`bash_running`) |
| side hosts (`loop_host.rs`, `goal_host.rs`, `workflow_host.rs`, `btw_bridge.rs`, `recap_bridge.rs`, `prompt_bridge.rs`) | one run table each | start, stop, result | scheduler (prompts, bridge commands, extension messages) |
| circuit breaker (`src/crates/common/xai-circuit-breaker/src`) | state, time stamps of the last trip and of the last claim, counter of probes, mirror, sliding window | `check`, `record`, `error_rate`, `is_open` | storage client (`xai-file-utils`), on any thread, without a common lock |
| projections (`model.rs`, `context_projection.rs`, `cache_metrics.rs`, `subagent_projection.rs`, `psm_session_catalog.rs`) | display data | parse, format | pager |

Hard behaviours: state read before an `.await` and used after it (probe, failed
dispatch), the order of Pi's events against its answers, cancellation while a row
is between the queue and Pi, two idle polls and the normal end of a run that all
want to finish the same prompts, the exit of Pi at any point, wake-ups that must
not be lost; in the breaker, changes of several atomics that other threads see half done.  `PROJECT.json` lists them as hazards, each at its line.

What makes each component correct:

* scheduler: every call is answered exactly once; cancel answers all of them at
  once; a row runs at most once; a row never waits in an idle adapter; nothing an
  extension sends restarts a run behind a cancellation;
* queue mirror: no two rows have one id, a version stands for one text, and the
  mirror shows what Pi has queued;
* transport: a request ends with exactly one result, also across timeouts, late
  answers and the exit of the process;
* plan mode: the tracker, its sidecar and the gate inside Pi agree between
  navigations; the mode is the one the user asked for; a deferred exit happens;
* session switching: a transition ends whatever fails, the subagent events of the
  session that is open reach the pager, and none of them twice;
* circuit breaker: it sheds requests only for a recent reason, recovers from lost probes,
  keeps its cool-down, and lets an abandoned claim be taken over once per lease.

## Modules

| Module | What it is |
|---|---|
| `PromptScheduler` | the scheduler with its tasks, and the part of Pi it relies on |
| `PromptService` | what the ACP client is promised about its calls (abstract specification) |
| `MCPromptScheduler` | its scenarios for TLC |
| `PromptSchedulerProofs` | invariants of the scheduler, proved |
| `PromptServiceProofs` | the refinement of `PromptService` and the two cancellation theorems, proved |
| `PiRpc` | the transport: requests, the four tasks of `spawn`, `kill`, and the pipes to Pi |
| `RequestService` | what the transport promises its callers (abstract specification) |
| `MCPiRpc` | model values for TLC |
| `PiRpcProofs` | invariants of the transport and its refinement of `RequestService`, proved |
| `PlanMode` | the plan-mode tracker, its two files and every handler that drives it |
| `MCPlanMode` | its worlds for TLC |
| `PlanModeProofs` | invariants of plan mode, proved |
| `SessionSwitch` | `session/load` and `session/new` with the pending subagent bridge |
| `MCSessionSwitch` | its scenarios for TLC |
| `SessionSwitchProofs` | invariants of session switching, proved |
| `QueueMirror` | the queue the pager shows, with Pi's two queues behind it |
| `MCQueueMirror` | its scenarios for TLC |
| `QueueMirrorProofs` | invariants of the mirror and theorems about its scans, proved |
| `CircuitBreaker` | the circuit breaker, one action per atomic operation |
| `MCCircuitBreaker` | its symmetry for TLC |
| `CircuitBreakerProofs` | invariants and action properties of the breaker, proved |

Each module of the adapter has a set of liberties, a constant that says what the outside world does
in a run (`Scenarios` or `Worlds`) and a variable `may` (`budget.may` in the
scheduler) that is chosen from it in `Init` and never changes.  A run so covers
several small worlds, each with the faults that meet in it, and a property says which
faults it excludes by looking at that variable.  The theorems hold for every such set.

### PromptScheduler

State.  `active_prompts`, `agent_started`, `queued_prompt_completions`,
`local_entries`, `running`, `agent_running`, `cancelling`, `bash_running` and
`acp_session_id` are the fields of `AdapterState` with the same names, reduced to
ids: a prompt, an extension message or a bridge command is a model value, and
`agent_started` is the set of active prompts with that flag.  A oneshot completion
channel is the pair of "where is the sender" (`active_prompts`,
`queued_prompt_completions`, or used) and `completion`, what it delivered.  The
program counters `handler`, `frame`, `probe`, `settle`, `loop`, `interject` say at
which `.await` each task stands; `via` says which code path delivered an id to Pi
and is never reset, so it doubles as history.

Actions.  One action is one stretch of a handler between two `.await`s with
everything it changes.  `prompt` is the handler up to its first await, with
`EnqueuePrompt` and `ActivatePrompt` for its two dispositions; `promptQueued`,
`promptAccepted`, `promptRejected` are its continuations.  `dispatch_next_queued`
is an operator used by every handler that calls it; `dispatchSend`,
`dispatchAccepted`, `dispatchRejected`, `dispatchRetry` continue it.  `cancel`,
`cancelNotify` and the `settle*` actions are `Session::cancel` and its settle
task, the `probe*` actions are `probe_prompt_without_agent`, and the event loop
handles one event at a time and is blocked by the awaits of its handler.
`replace_bootstrap` is the end of every `refresh`.

Pi is external.  It reads its input line by line, decides on a prompt at some time
after it read it (start a run, join the run as a steer, let an input handler
consume it, refuse it), answers `get_state` at once, ends a run spontaneously or
when aborted, and may exit.  The liberties are `gap` (it answers a later line before
it decided on an earlier prompt), `reject`, `exit`, `slow` (the cancel deadline passes
between two idle answers) and `plan` (a plan-mode file cannot be written); `budget`
also bounds cancels, reloads, Bash commands and queue operations.

Left out: row text, images, versions and edits (`QueueMirror` has texts and
versions); timestamps and `live_prompt_id`; notifications as such (only the await
they cause is kept); the goal continuation, which is off by default; `queue_update`
and reservations (`QueueMirror`); duplicate promptIds; the second abort on
`turn_start`, which repeats the one on `agent_start`; the time during which `refresh`
itself blocks the event loop.

### PiRpc

State.  `pending`, `writer`, `child` are the fields of `PiRpc`; a oneshot response
channel is the pair of "where is the sender" (`pending`, `drained` between the two
halves of `fail_pending`, or used) and `channel`.  Request ids come from one atomic
counter and are never reused, so a request is its own id.  `call`, `exit` and
`killer` are program counters.  `stdout` holds the lines Pi wrote and the reader
has not taken, `events` what was put into the event channel, as a set; `got` is
what reached Pi, `verdict` what it decided.  A stderr line is its number.

Actions.  `requestRegister`, `requestSend`, `requestReceive`, `requestTimeout` and
`requestExpired` are the steps of `request` between which other threads can act;
the firing of the timer and the removal of the sender are two of them.  `writerTask`,
`readerTask` with `Dispatch`, `readerEnd`, `stderrRead`, `stderrEnd` and the `exit*`
and `fail*` actions are the four tasks; `Dispatch` takes the sender out of the table
and uses it under one lock, `fail_pending` takes all of them and uses them later.
`kill` is `killCall`, `killLock`, `killReaped`.

Pi is external: it answers a request at most once, keeps its pipes open while it
lives and may exit at any time; a write to it fails once it is gone.  `garbled` is a
line that is not JSON, `broken` one that cannot be read at all.

Left out: the command line and environment of the process, JSON text and the parser
for deep trees (it decides between `garbled` and not), the stderr log file, the
branches that cannot be taken (a response channel closed without an answer, which
`WaitingHasSender` shows; a child handle already emptied, which nobody does).

`PromptScheduler` relies on this component for its external actions that answer a
line or fail a request after the exit; `RequestService` is that promise.

### PlanMode

State.  `plan_mode` is the tracker: a snapshot (`PiPlanSnapshot` without the reminder
counter) and the session whose plan file it names.  `saved` is the
`<session>.plan-mode.json` sidecar of every session, `control` the file the gate
extension inside Pi reads.  `nav` says where `new_session`, `load_session`, a fork or a
start stands between its awaits; `approval` is the session whose dialog is open;
`finishing` says that `agent_settled` waits between its two halves.  The scheduler is
reduced to `active` (the length of `active_prompts`), `agent_running`, `cancelling`, one
waiting row and one request to Pi.  `wanted` is history: the last decision of the user,
by the mode switch or in the approval dialog.

Actions.  The transitions of the tracker are functions from snapshots to snapshots with
the names of the code; every caller is an action that applies them and writes the files
it writes, in its order and with its reaction to a failure: a handler that ends with an
error (`Chains`), or one that logs it and goes on (`Writes`).  `request_plan_approval`,
`PlanApproved` and `PlanNotApproved` are the two sides of the await for the dialog,
which blocks the event loop and nothing else.  `restart` ends the program and starts it
on the same session with a new control file.

Left out: `reminder_count`, which picks the wording; the seeding of the plan file;
prompts that an input handler of Pi consumes; the gate extension itself, which reads
`control` on every tool call (`extensions/pi-grok-plan-mode/index.ts`).
`reset_after_compaction` has no caller.

What the module shows without a run of its own:

* a restart with the approval dialog open restores the flag without the dialog
  (`plan_mode.rs:106`), and `exit_plan_mode` does nothing from then on, although
  `plan_mode.rs:53` says of the flag that the approval "is outstanding";
  `AwaitingWithinProgram` excludes restarts for that reason;
* an approved exit sets no exit reminder, although `plan_mode.rs:287` says "one-shot after
  user exit or approved exit";
* a mode switch between the two halves of `agent_settled` (liberty `late`) finds prompts
  active that are about to be finished and defers an exit that no later settle of this
  turn completes; it stays `ExitPending` until the next turn;
* a dispatched row is sent also when the control file could not be written
  (`queue_runtime.rs:139-144` logs it), a direct prompt is not;
* a `new_session` that Pi vetoes resets plan mode of the session that stays
  (`agent.rs:59-62` does not look at `cancelled`);
* an approval answered after a session switch is applied to the tracker of the new
  session.

### SessionSwitch

State.  `target` and `events` are `PendingSubagentBridge`, `seen` is
`subagent_bridge_sequences`, `load` holds the program counter, the wanted session and
the events still to be handed out of every `session/load`.  `channel` is the event
channel, `sequence` the counter of the extension, which numbers all its events.  `shown`
and `owed` are history: what was projected to the pager, and what the session that Pi
has open emitted since it was opened.

Actions.  `handle_event` is the event loop; `switch_session`, `PiSwitches`, `PiRefuses`,
`bootstrap_loaded`, `bootstrap_failed`, `replay_failed`, `commit_if_target`, `drain` and
`load_ends` are the stretches of a load between its awaits, with an action per error path;
`load_active` is a load of the session that is already active.  When Pi opens a session its
extension replays the session's records before the response is written
(`extensions/pi-grok-subagents/index.ts`, external to the adapter but part of the
repository).  A subagent that is aborted when its session is left reports its end later.

Left out: the replay cache and the projection of history; forks; more than one subagent
per session; the awaits inside `PiBootstrap::load`, so the bootstrap is read and applied
in one step.

What the module shows without a run of its own:

* `load_session` returns on an unreadable plan sidecar (`agent.rs:116`) without ending the
  transition: every later switch fails with "already in progress".  `TransitionOwned` and
  `TransitionEnds` exclude that world (liberty `read`), which the run has for the other
  properties;
* a newer event can overtake the deferred ones while a load hands them out; the filter
  then drops a deferred live event, which is why `ReplayDelivered` allows one;
* with overlapping requests a load of the active session can commit the transition of
  another load back to it, and the later one finds nothing: `ReplayDelivered` excludes
  `overlap`;
* after a failed replay a second `session/load` does not bring the subagent replay back.

### QueueMirror

State.  `mirror` is the struct `QueueMirror`: local rows, mirrored rows, reservations, the
running row and the counter of generated ids.  `outbox` holds the lines of tasks that have
reserved and published but not written yet, so that lines reach Pi in another order than
their reservations; `stdin`, `pi` and `channel` are Pi's input, its two queues and its
events.  `published` is history: all local rows the pager was ever shown, so that its
operations may name rows that are gone or were edited.

Actions.  The methods of `queue_bridge.rs` are functions on the struct.  Their loops are
recursive functions over the positions of a sequence: `Match` is one round of the loop in
`apply_queue_update`, `Moved` one of the loop in `reorder_local`, and `Retain` is
`Vec::retain`.  The pager reorders by lists of ids it was shown, of which some may be gone
by then (`MaxOrder` bounds their length).  Their callers are the
actions, each with all the calls it makes up to its end; `dispatch_next_queued` ends many of
them.

A client sends each of its ids once (`fresh`): the pager makes a UUID per prompt.  So the
branch of `enqueue_local` for an id that is queued already (`queue_bridge.rs:85-92`), which
replaces the text and keeps the version, is in the model but not taken; a client that did
repeat an id would break `VersionNamesText` with it.

Left out: images; execution text and display text are one; prompts without an id, which get
a generated one when they are queued (`pi-client-queue`; the pager sends none, and
`PromptScheduler` has them); ids the pager was never shown (looking one up finds nothing).
The settle task's idle polls in a row (`CANCEL_IDLE_CONFIRMATIONS`) are one test of Pi here,
because their number matters to `PromptScheduler` only, and `probe` may run whenever a prompt
is unfinished.

What the module shows without a run of its own: the identity of mirrored rows is a guess.
Two equal texts may swap their ids, and a text without a reservation of its own takes the
oldest reservation of its lane (`queue_bridge.rs:261`), so a message queued inside Pi, or
one whose reservation a cancel or settle cleared, may appear under the id of another
client's prompt.  An edited row that is interjected reappears with version 0.  After the
deadline of a cancellation (30 s) the mirror is empty while Pi's queue may not be.

### CircuitBreaker

State.  `state`, `opened_at_millis`, `half_open_probes`, `probe_claimed_at_millis`,
`is_open_fast` and `window` are the fields of `CircuitBreakerInner`; the window keeps its
samples and its cached number of failures.  `pc` and `local` say where each thread stands
in `check`, `record` or `error_rate` and what it has read.  History: `trippedAt`,
`admittedAt`, `takenAt` (when the breaker was last tripped, a probe last admitted, a claim
last taken over), `openedAt` (when `Open` was last stored), `stale` (the checks that were
deciding while a trip had stored `Open` and not yet its time) and `raced` (two changes of
state overlapped).

Actions.  One action is one load, store, `fetch_add`, `fetch_sub`, `compare_exchange` or
reading of the clock, or what is done under the mutex of the window; `trip`, `close`,
`check_open` and `try_half_open_probe` are the chains of actions with their names.  A
request that was let through is recorded or not (`abandon`): its future is dropped, or its
answer is one the storage client does not report.  The atomics are sequentially
consistent; the orderings of the code (`Acquire`, `Release`) allow more.  The counter of
probes wraps at `USIZE`.

Left out: a disabled breaker (`check` and `record` do nothing), observers, the registry,
retry policies, the parsing of the configuration, `retry_after`, and the test hook
`force_half_open`.

`ShedForCause` is what the lease of a probe is for, and it holds however the races below
leave the counter: every admission stamps its time, and a check that finds no slot falls
back on that stamp.

What the module shows without a run of its own:

* a check that took the free slot has not stamped its claim yet (`breaker.rs:280`); another
  one finds the slot taken, reads the old stamp, takes the claim for abandoned and is
  admitted too, although `breaker_tests/half_open.rs:170` says "exactly one thread should
  claim the probe slot".  `OneTakeoverPerLease` is about takeovers only;
* `breaker.rs:211` says of the counter that "nothing increments it while `Open`".  A check
  that saw the breaker half-open does, after a trip zeroed it, and the next half-open phase
  has no free slot until the lease of the last claim is over;
* overlapping changes of state leave `is_open_fast` wrong until the next change: the last
  store to the mirror may belong to the first store to the state;
* `trip` publishes `Open` before the new `opened_at_millis` (`breaker.rs:249-254`), and a
  check in between compares with the previous trip and ends the cool-down at once; so does
  a check that read the stamp before the breaker went through another half-open phase and
  reaches its `compare_exchange` after the next trip.  `CoolDownUnlessStale` says that no
  other check can.

## Runs

| Run | Instance | Shows |
|---|---|---|
| `sched_safety` | five scenarios: a queued and a send-now prompt with a cancel; a steering message, a cancel and an exit; Bash with a cancel and an exit; Bash with a message; an anonymous prompt, a bridge command, a queue operation, refusals and failing plan files | `TypeOK`, `WaiterHeld`, `QueuedHasRow`, `RowRunsOnce`, `CancelBarrier`, `CancelAnswersAll`, `ImplementsService` |
| `sched_live` | four scenarios, fair: two prompts with a cancel; with two queue operations and a reload; with an exit; one prompt with a cancel and an exit | `EveryPromptAnswered`, `CancelEnds`, `QueueDrains` |
| `rpc_safety` | a request with and one without timeout, 1 notification, 1 kill call, 2 stderr lines, a ring of 1 | `TypeOK`, `WaitingHasSender`, `PendingIsOpen`, `AnswerOnce`, `StrayOnlyLate`, `DiagnosticComplete`, `ImplementsRequestService` |
| `rpc_live` | the two requests, 1 other line on stdout (event, garbled or unreadable), fair tasks, unfair Pi | `TimedRequestsEnd`, `ExitEndsInFlight`, `ExitReported` |
| `plan` | two sessions, up to two active prompts, five worlds: extension rows and late switches; failing writes and cancels; interjections, failing replays and cancels; restarts, refusals, extension rows and cancels; session changes, unreadable sidecars and vetoes | `TypeOK`, `GateMatches`, `RestartFaithful`, `PlanModeFollowsUser`, `AwaitingWithinProgram`, `DeferredExitEnds` |
| `switch` | three sessions with 1, 2 and 0 records, two loads, five scenarios of up to 3 switches and 2 reports | `TypeOK`, `TransitionOwned`, `ReplayDelivered`, `ShownOnce`, `TransitionEnds` |
| `mirror` | two clients, two texts, one message and one edit, orders of two ids, four scenarios | `TypeOK`, `IdsUnique`, `VersionNamesText`, `MirrorExact` |
| `breaker` | two threads, three recorded outcomes, a clock up to 2, one slot, a window of two samples | `WindowExact`, `MirrorUnlessRaced`, `ShedForCause`, `OneTakeoverPerLease`, `CoolDownUnlessStale` |

Everything the client does in the scheduler is bounded by the scenario; the tasks and Pi
are unbounded.  Deadlock is not checked in the runs of the scheduler, the transport and
the mirror: when all calls are answered and the bounds are used up the system rests.
`CANCEL_IDLE_CONFIRMATIONS` has the value of the code, 3, and 2 in `sched_live`, where only
"more than one in a row" matters.

Two prompts are the smallest number at which one is queued behind another and at
which the end of one can be mistaken for the end of the other.  One cancel meets a
prompt at each of its stages; that two may overlap is covered by the proofs, which
are for any number.  In `PiRpc` requests meet each other only in the writer channel,
in the table and in `fail_pending`, so two are enough; two stderr lines overflow a
ring of one (the capacity in the code is 32; the proofs cover any).  In `PlanMode` two
sessions are what a switch needs, and two active prompts what a steer needs; one settled
event in the channel is enough because the next turn ends no earlier than the loop
took it.  In `SessionSwitch` two loads overlap in every way two can; the second session
has two records so that a load can be interrupted between them, and the third none, for
`session/new`.  In `QueueMirror` two rows and two texts give equal and different texts;
texts and clients are symmetric; an order of two ids reaches every order of the rows, and
names rows twice, in part or that are gone.  In `CircuitBreaker` every race is one between a thread
that checks and another that checks or records, so two threads meet in all of them;
`USIZE` is 8, above what two threads can add, and a subtraction below zero shows as 7.

Four runs are expected to fail; each shows a disagreement between the code and
what the repository says about it (`findings` in `PROJECT.json`):

* `sched_bash_wakeup`: a prompt queued during a direct Bash command stays queued
  when the command ends (`tools.rs:41` clears the flag and dispatches nothing); a
  prompt queued behind one that Pi refuses is left behind in the same way
  (`agent.rs:327-335`; the same property in a scenario with `reject` and no Bash
  command);
* `sched_probe_race`: the idle probe of a short prompt and the `agent_settled` of
  the same run both finish "all active prompts"; the second ends the turn of the
  next prompt, which Pi has not run (`events.rs:427`);
* `rpc_kill`: `kill` waits for the mutex that the exit task holds across
  `child.wait()`, so it returns only when the process ends by itself
  (`pi_rpc.rs:197`, `:304`);
* `plan_gate`: sending a queued row now activates a pending plan mode and writes neither
  the sidecar nor the control file (`queue_runtime.rs:271`), so Pi plans with its write
  tools open.

Two more disagreements of the adapter have no run, beside those listed with the modules: a reload within the same session drops the queue
although the comment speaks of a session change (`session.rs:900-903`; the calls are
answered as cancelled, as `EveryPromptAnswered` shows), and a request that is registered
after `fail_pending` ran is failed by nobody, so that with no timeout (`bash`, `compact`)
it never ends (`pi_rpc.rs:222`; the properties of the transport are about requests that
were in flight at the exit).

Fairness.  `FairSpec` gives weak fairness to every task of the local executor (a
ready task is polled), and to Pi's reading, deciding and ending of runs and to the
end of a Bash command (without them no promise to the client could hold).  Clients,
extensions, cancels, reloads and the process exit are not fair.  The live run uses
a Pi that does not refuse, and speaks of prompts and cancels that came before its exit,
because of the wake-up finding: with refusals `EveryPromptAnswered` fails in the way
`sched_bash_wakeup` describes.
`PiRpc!FairSpec` gives weak fairness to the tasks, to the timers and to the death of
a signalled process, and none to Pi: it need not answer or exit, and the end of
stderr may never be seen.  `PlanMode!FairSpec` has the halves of `agent_settled` and a Pi
that takes prompts and ends its turns, and nothing of the user: `DeferredExitEnds` allows
the dialog to stay open, and excludes the worlds in which the turn never ran or its end
is not reported.  `SessionSwitch!FairSpec` has the event loop, the steps of a load and an
answer of Pi, if only an error; requests have a timeout in the transport.

## Proofs

The theorems hold for every set of prompts, messages, bridge commands and
sessions and for every value of the bounds and every set of scenarios; they assume
`SetsAssumption` (the kinds of ids are disjoint and `None` is none of them) and
`BoundsAssumption` (bounds are numbers, scenarios have their type).

* `TypeCorrect`: `Spec => []TypeOK`.  `TypeOK` is inductive; it includes that
  `agent_started` stays inside `active_prompts`.
* `SendersHeld` and `QueuedSendersReachable`: `Spec => []WaiterHeld` and
  `Spec => []QueuedHasRow`.  Their common inductive invariant
  is `Custody`: `WaiterHeld`, `QueuedHasRow`, and that a call not yet submitted has
  no sender and no answer.  `WaiterHeld` alone is not inductive: the senders parked
  with the queue are answered through the rows, so a sender without a row would be
  lost by the next cancel.
* `RowsRunOnce`: `Spec => []RowRunsOnce`.  The inductive invariant `RowsFresh` adds
  that ids still to come (prompts not submitted, messages not emitted or still in
  the event channel) are neither queued nor delivered, and that no message is in
  the channel twice.
* `SchedulerRefinesService`: `Spec => ImplementsService`.  The mapping `status` is
  what the client sees; every step is a step of `PromptService` or a stutter.  It
  rests on `Custody`: a sender that is used was not used before.
* `CancelAnswers`: `Spec => CancelAnswersAll`.  Only `cancel` starts a settle task
  (this needs `SettleLines`: an idle poll on its way to Pi belongs to a started
  one), and by `Custody` the senders it uses are all that anybody waits for.
* `CancelIsBarrier`: `Spec => []CancelBarrier`, inductive with `TypeOK`.

The transport (`PiRpcProofs`), for any requests, notifications and kill calls and any
ring capacity, from `CallsAssumption` and `LimitsAssumption`:

* `RpcTypeCorrect`: `Spec => []TypeOK`, inductive.
* `WaitersWakeable` and `PendingEntriesOpen`: `Spec => []WaitingHasSender` and
  `Spec => []PendingIsOpen`.  The inductive invariant `Table` also covers calls before
  and after they wait and the senders that `fail_pending` holds: those are in no table
  and not used yet.
* `AnswersDeliveredOnce`: `Spec => []AnswerOnce`, inductive with `Table` and the fact
  that only decided requests appear in the event channel.
* `StraysAreLate`: `Spec => []StrayOnlyLate`.  It needs `Table` (an open call without
  a sender in the table was failed), `Sent` (what Pi saw belongs to a call that waits
  or waited) and `AnswerOnce`.
* `DiagnosticIsTail`: `Spec => []DiagnosticComplete`, from `Diagnosed` (the ring is the
  end of what was read) and the lemma `RingPushKeepsTail`.
* `TransportRefinesService`: `Spec => ImplementsRequestService`, from the conjunction
  of the above and `Gone` (whoever says that Pi is gone is right).

Plan mode (`PlanModeProofs`), for any sessions, bounds and worlds, from `PlanAssumption`.
The five theorems share one inductive invariant, `IInv`: the type invariant, `Pristine`
(until `session/load` the program is as it started), `FilesInv` (the tracker, its sidecar
and the control file: `FlagsActive`, `StaysHere`, `GateMatches`, `SavedFollows`,
`SavedActive`) and `UserInv` (the user's decisions).

* `TypeCorrect`: `Spec => []TypeOK`.
* `GateInStep`: `Spec => []GateMatches`: every step that ends or happens outside a
  navigation and changes the tracker writes the control file, or its world is excluded.
* `SidecarInStep`: `Spec => []RestartFaithful`.  `SavedFollows` says it also while a
  session is being loaded, and rests on
  `from_snapshot` being idempotent, since a loaded tracker differs from its sidecar.
* `UserDecides`: `Spec => []PlanModeFollowsUser`.  It needs that an active sidecar
  belongs to an active tracker (`SavedActive`), because a restart reads it, and that the
  tracker names the file of the session while no switch is allowed (`StaysHere`).
* `FlagHasDialog`: `Spec => []AwaitingWithinProgram`.  `FlagsActive` supplies that the
  flag is set in an active tracker only, on disk too.

Session switching (`SessionSwitchProofs`), for any sessions, records, number of loads and
scenarios, from `SwitchAssumption`:

* `TypeCorrect`: `Spec => []TypeOK`.  The types grow with `sequence`; `EventsGrow` says
  that everything keeps its type when it does.
* `TransitionHasOwner`: `Spec => []TransitionOwned`, inductive with the type invariant;
  two loads cannot own one transition because `begin` refuses the second.
* `NeverShownTwice`: `Spec => []ShownOnce`.  The inductive invariant `Apart` says that the
  places an event can be in (the channel, the buffer, what a load hands out, what was
  shown) hold each number once and no number twice between them.
* `AllDelivered`: `Spec => []ReplayDelivered`.  The inductive invariant says where an event
  is that the open session owes: it was shown (or is a live one that was overtaken in the
  filter, `Reached`), or it is in the channel, in the buffer or in what a load still hands
  out (`Waits`).  This (`Delivers`) holds only while the session Pi has open is the one of
  the adapter or on its way there (`Open`); in between it may not, because an abandoned
  transition throws its buffer away, and Pi's next switch resets what is owed.  `Phases` says
  how the parts of a transition fit together: one load at a time, what each of its states
  says about the target and both sessions, and that the buffer holds events of the target
  only, which is why a commit to another session loses nothing that is owed.

The queue mirror (`QueueMirrorProofs`), for any clients, texts and scenarios, queues of any
length and reorderings of any length, from `MirrorAssumption` (`None` is no id, and no
client sends an id that looks like a generated one):

* `ReportApplied`: what `apply_queue_update` does to any mirror whose ids are different, for
  any report: the mirrored rows have the texts of the report in their order, and all ids are
  different again, although a row may take its id from the previous report, from a
  reservation or from the counter.  The invariant of the scan (`Scanned`) keeps the three
  supplies of ids apart.
* `ReorderKeepsRows`: `reorder_local` permutes the local rows whatever list of ids it gets
  (`Split`: moved rows and remaining rows are the rows, without repetition).
* `TypeCorrect` and `UniqueIds`: `Spec => []TypeOK` and `Spec => []IdsUnique`.  The inductive
  invariant `Inv` adds to the types that the rows, the reservations, the running prompt and
  the clients still to come have different ids (`Good`), and that no generated id is ahead
  of the counter.  `IdsUnique` alone is not inductive: it does not say that an id still to
  come is unused.
* `VersionsNameTexts`: `Spec => []VersionNamesText`.  `Shown` adds that a row that is still
  queued has the highest version that was ever shown for its id, and that ids still to come
  were never shown.
* `MirrorShowsPi`: `Spec => []MirrorExact`.  The invariant `Tracks` relates the mirror to the
  channel: the last event under way, or the mirror if there is none, has Pi's queues; while
  a cancellation hides reports the mirror is empty, and Pi's queues are too by the time it
  ends, because Pi starts and settles only with empty queues and the settle task waits for an
  idle Pi.

The library's induction rules take an operator as a parameter, which the provers cannot
instantiate.  The module derives from `WFMin` (every nonempty set of numbers has a least
element) an induction rule for sets (`Induction`, `BoundedInduction`) and the existence of
functions defined by recursion (`Recursion`); the scans of the mirror are then reasoned about
through the sets of positions up to which their invariants hold.

The circuit breaker (`CircuitBreakerProofs`), for any threads, configuration and bounds,
from `BreakerAssumption` (durations are numbers, the cool-down and the number of slots are
not 0):

* `TypeCorrect`: `Spec => []TypeOK`; proved for every instance, so no run repeats it.
* `ShedsForCause` and `TakesOverOnce`: `Spec => ShedForCause` and
  `Spec => OneTakeoverPerLease`.  Their inductive invariant `IInv` relates the stamps to
  the history: a stamp is not younger than the trip or admission it stands for (`Tripped`,
  `Claimed`), and what a thread has read is bounded by it (`Knows`).  A half-open breaker
  is at least one cool-down old, so the stamp 0 of a breaker that never admitted a probe
  counts as expired.
* `WindowCounts`: `Spec => []WindowExact`.  The lemmas `AppendFailed` and `CutFailed` say
  how many failed samples a window gains and loses at its ends.
* `CoolDownKept`: `Spec => CoolDownUnlessStale`.  The invariant `Cool` says that outside the
  two stores of a trip `opened_at_millis` is not older than the trip, and that a check that
  is not stale read it there.
* `MirrorFollows`: `Spec => []MirrorUnlessRaced`.  The invariant `Mirror` says what a lone
  thread in the middle of a change has yet to store.

The lemmas underneath `PromptSchedulerProofs` say what `dispatch_next_queued`,
`interject_local_queue` and taking a row out of the queue do to rows and senders;
they are proved once and cited per action.

Only model-checked: the liveness properties `EveryPromptAnswered`, `CancelEnds`,
`QueueDrains`, `TimedRequestsEnd`, `ExitEndsInFlight`, `ExitReported`, `TransitionEnds` and
`DeferredExitEnds`, because fairness and ENABLED are beyond the prover.  Every invariant,
action property and refinement of a passing run is stated by a theorem.  The four refuted
properties are shown by their counterexamples.

## Not modelled

* The replay cache (`PiEntryReplayCache`), history items, tool projection, todo and
  background Bash bridges: data that is parsed and formatted for display.
* The side hosts (`/btw`, recap, loops, goals, workflows).  They reach the scheduler as
  prompts, bridge commands and extension messages, which are modelled; each keeps a small
  table of its own.
* The pager, renderer, shell, tools, workspace and the rest of the upstream terminal
  application, and its other libraries (shared prompt queue, interjection core).  They make up nearly all of the repository's lines; the adapter meets them only
  as the client of `PromptService`.
* Pi itself, beyond the external actions of the modules.

* Of the circuit breaker: weaker orderings than sequential consistency, observers, the
  registry and the configuration.

The modules are kept apart: each models the fields of `AdapterState` its questions are
about and reduces the others to what it looks at.  A composition of the scheduler with the
mirror or with plan mode has too many interleavings for TLC at two prompts.

## Plan

In this order: safety facts that the liveness properties rest on, as theorems (a waiting
prompt has a task that will look at it, a pending transition has an enabled step); the replay
cache; the table of background Bash tasks; the side hosts.
