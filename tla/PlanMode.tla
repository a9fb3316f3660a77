------------------------------ MODULE PlanMode ------------------------------
(***************************************************************************)
(* Plan mode: the tracker (plan_mode.rs) and the handlers of the adapter   *)
(* that drive it, with the three copies of its state: the tracker itself,  *)
(* the <session>.plan-mode.json sidecar a restart reads (`saved`) and the  *)
(* control file that the write gate inside Pi reads (`control`).           *)
(*                                                                         *)
(* One action is one stretch of a handler between two awaits.  The prompt  *)
(* scheduler is reduced to what plan mode looks at: whether a prompt is    *)
(* active, whether a row waits, and one request in flight to Pi.           *)
(***************************************************************************)
EXTENDS Naturals

CONSTANTS
  Sessions,   \* Pi session ids; a session names its own plan files
  Start,      \* the session Pi starts with
  None,
  MaxActive,  \* bound: prompts in active_prompts
  MaxSettled, \* bound: agent_settled events not handled yet
  Worlds      \* sets of liberties the outside world takes, see Liberties

\* write: writing a plan file fails; read: reading the sidecar fails;
\* replay: replaying the history fails; sendNow: a queued row is interjected;
\* extension: an extension enqueues a row; cancel: the user cancels;
\* refuse: Pi rejects a prompt; veto: Pi cancels new_session; late: the user
\* changes the mode while agent_settled is between its two halves; switch,
\* restart: the user changes the session or restarts the program.
Liberties == {"write", "read", "replay", "sendNow", "extension", "cancel",
              "refuse", "veto", "late", "switch", "restart"}

States == {"Inactive", "Pending", "Active", "ExitPending"}

\* PiPlanSnapshot without reminder_count, which only picks the wording.
Snapshots == [state: States, was_previously_active: BOOLEAN,
              pending_exit_reminder: BOOLEAN,
              awaiting_plan_approval: BOOLEAN]
Trackers == [file: Sessions, snap: Snapshots]

ASSUME PlanAssumption ==
  /\ Start \in Sessions
  /\ None \notin Sessions \cup Snapshots
  /\ MaxActive \in Nat \ {0}
  /\ MaxSettled \in Nat
  /\ Worlds \subseteq SUBSET Liberties

VARIABLES
  plan_mode,     \* PiPlanTracker of the adapter
  saved,         \* [Sessions -> snapshot in the sidecar, or None]
  control,       \* what the gate extension reads
  session,       \* acp_session_id and bootstrap.state.session_id
  nav,           \* where new_session, load_session or a fork stands
  approval,      \* session whose exit_plan_mode dialog is open
  finishing,     \* agent_settled is between its two halves
  row,           \* owner of a row that waits in the adapter's queue
  active,        \* length of active_prompts
  agent_running,
  cancelling,
  sent,          \* the prompt request that Pi has not answered
  piRunning,     \* Pi works on a turn
  settled,       \* agent_settled events in the channel
  wanted,        \* the user's last decision asked for plan mode (history)
  may            \* the world's liberties

fileVars == <<saved, control>>
runVars == <<active, agent_running, cancelling, row>>
loopVars == <<approval, finishing>>
piVars == <<sent, piRunning, settled>>
vars == <<plan_mode, fileVars, session, nav, loopVars, runVars, piVars,
          wanted, may>>

\* A prompt request: pinned as the running entry, and owner of an active
\* prompt (an extension's row has none).
Requests == [pinned: BOOLEAN, owns: BOOLEAN]

\* The state has its type; a snapshot on disk is a snapshot the tracker had.
TypeOK ==
  /\ plan_mode \in Trackers
  /\ saved \in [Sessions -> Snapshots \cup {None}]
  /\ control \in [active: BOOLEAN, file: Sessions \cup {None}]
  /\ session \in Sessions
  /\ nav \in {"none", "rebound", "reset", "persist", "loaded"}
  /\ approval \in Sessions \cup {None}
  /\ finishing \in BOOLEAN
  /\ row \in {"none", "client", "extension"}
  /\ active \in 0..MaxActive
  /\ agent_running \in BOOLEAN
  /\ cancelling \in BOOLEAN
  /\ sent \in Requests \cup {None}
  /\ piRunning \in BOOLEAN
  /\ settled \in 0..MaxSettled
  /\ wanted \in BOOLEAN
  /\ may \in Worlds
----------------------------------------------------------------------------
(***************************************************************************)
(* The tracker: every transition maps a snapshot to a snapshot.            *)
(***************************************************************************)
FreshSnapshot ==
  [state |-> "Inactive", was_previously_active |-> FALSE,
   pending_exit_reminder |-> FALSE, awaiting_plan_approval |-> FALSE]

\* Slip: a deferred exit that was cut off by a restart is undone.
from_snapshot_resumed(s) ==
  CASE s.state = "Pending" -> [s EXCEPT !.state = "Inactive"]
    [] s.state = "ExitPending" -> [s EXCEPT !.state = "Active"]
    [] OTHER -> s

\* Transient states collapse when a snapshot is restored.
from_snapshot(s) ==
  CASE s.state = "Pending" -> [s EXCEPT !.state = "Inactive"]
    [] s.state = "ExitPending" -> [s EXCEPT !.state = "Inactive",
                                            !.pending_exit_reminder = TRUE]
    [] OTHER -> s

enter_pending(s) ==
  CASE s.state = "Inactive" -> [s EXCEPT !.state = "Pending",
                                         !.pending_exit_reminder = FALSE]
    [] s.state = "ExitPending" -> [s EXCEPT !.state = "Active",
                                            !.pending_exit_reminder = FALSE]
    [] OTHER -> s

activate(s) == [s EXCEPT !.state = "Active", !.was_previously_active = TRUE]

user_exit(s, turn_in_flight) ==
  LET t == [s EXCEPT !.awaiting_plan_approval = FALSE] IN
  CASE t.state = "Pending" -> [t EXCEPT !.state = "Inactive"]
    [] t.state = "Active" /\ turn_in_flight ->
         [t EXCEPT !.state = "ExitPending"]
    [] t.state = "Active" /\ ~turn_in_flight ->
         [t EXCEPT !.state = "Inactive", !.pending_exit_reminder = TRUE]
    [] OTHER -> t

complete_deferred_exit(s) ==
  IF s.state = "ExitPending"
  THEN [s EXCEPT !.state = "Inactive", !.pending_exit_reminder = TRUE]
  ELSE s

deactivate_approved(s) ==
  IF s.state = "Active"
  THEN [s EXCEPT !.state = "Inactive", !.awaiting_plan_approval = FALSE]
  ELSE s

\* build_reminder_for_prompt, called by prepare_execution_text.
Reminded(s) ==
  CASE s.state = "Pending" -> activate(s)
    [] s.state = "Active" -> s
    [] OTHER -> [s EXCEPT !.pending_exit_reminder = FALSE]

IsActive(s) == s.state = "Active"
On(s) == s.state \in {"Pending", "Active"}
----------------------------------------------------------------------------
(***************************************************************************)
(* The two files.                                                          *)
(***************************************************************************)
\* Outcomes of persist_plan_mode_state ("save") and sync_plan_mode_control
\* ("sync") called in a row, and the ones where a failure ends the handler.
Both == {"save", "sync"}
Writes == IF "write" \in may THEN SUBSET Both ELSE {Both}
Chains == {w \in Writes : "sync" \in w => "save" \in w}

Gate(t) == [active |-> IsActive(t.snap), file |-> t.file]

\* The tracker t is written to the files that w names (atomic_write).
WriteFiles(t, w) ==
  /\ saved' = IF "save" \in w
              THEN [saved EXCEPT ![t.file] = t.snap] ELSE saved
  /\ control' = IF "sync" \in w THEN Gate(t) ELSE control

\* load_plan_tracker for the plan file of session x.
load_plan_tracker(x) ==
  [file |-> x, snap |-> IF saved[x] = None THEN FreshSnapshot
                        ELSE from_snapshot(saved[x])]

Tracker(s) == [plan_mode EXCEPT !.snap = s]
----------------------------------------------------------------------------
(***************************************************************************)
(* set_session_mode.  The files are written when the call counts as a      *)
(* change; a second exit does, although the tracker stays ExitPending.     *)
(***************************************************************************)
SetMode(on, t, changed) ==
  /\ nav # "rebound"
  /\ finishing => "late" \in may
  /\ plan_mode' = t
  /\ wanted' = on
  /\ IF changed THEN \E w \in Chains : WriteFiles(t, w) ELSE UNCHANGED fileVars
  /\ UNCHANGED <<session, nav, loopVars, runVars, piVars, may>>

set_session_mode_plan ==
  SetMode(TRUE, Tracker(enter_pending(plan_mode.snap)),
          plan_mode.snap.state \in {"Inactive", "ExitPending"})
set_session_mode_default ==
  IF plan_mode.snap.state = "Inactive" THEN SetMode(FALSE, plan_mode, FALSE)
  ELSE SetMode(FALSE, Tracker(user_exit(plan_mode.snap, active > 0)), TRUE)
----------------------------------------------------------------------------
(***************************************************************************)
(* Prompts.                                                                *)
(***************************************************************************)
adapter_busy == agent_running \/ cancelling \/ active > 0

\* prompt with no turn in flight, or steering the one in flight: a file that
\* cannot be written ends the handler, the prompt stays in active_prompts.
prompt(steer) ==
  /\ nav # "rebound"
  /\ sent = None
  /\ active < MaxActive
  /\ steer = adapter_busy
  /\ plan_mode' = Tracker(Reminded(plan_mode.snap))
  /\ active' = active + 1
  /\ agent_running' = TRUE
  /\ \E w \in Chains :
       /\ WriteFiles(plan_mode', w)
       /\ sent' = IF w = Both THEN [pinned |-> ~steer, owns |-> TRUE]
                  ELSE None
  /\ UNCHANGED <<session, nav, loopVars, cancelling, row, piRunning, settled,
                 wanted, may>>

\* prompt that becomes a row of the local queue.
prompt_queued ==
  /\ nav # "rebound"
  /\ adapter_busy
  /\ row = "none"
  /\ row' = "client"
  /\ \E w \in Chains : WriteFiles(plan_mode, w)
  /\ UNCHANGED <<plan_mode, session, nav, loopVars, active, agent_running,
                 cancelling, piVars, wanted, may>>

\* Slip: a dispatched row is not persisted.
Launch_unsaved(owner, snap) ==
  /\ active' = IF owner = "client" THEN 1 ELSE 0
  /\ agent_running' = TRUE
  /\ row' = "none"
  /\ sent' = [pinned |-> TRUE, owns |-> owner = "client"]
  /\ plan_mode' = Tracker(Reminded(snap))
  /\ \E w \in Writes : WriteFiles(plan_mode', w \ {"save"})

\* dispatch_next_queued sends the row of `owner`: failed writes are logged.
Launch(owner, snap) ==
  /\ active' = IF owner = "client" THEN 1 ELSE 0
  /\ agent_running' = TRUE
  /\ row' = "none"
  /\ sent' = [pinned |-> TRUE, owns |-> owner = "client"]
  /\ plan_mode' = Tracker(Reminded(snap))
  /\ \E w \in Writes : WriteFiles(plan_mode', w)

\* dispatch_next_queued when nothing runs and active_prompts is empty.  The
\* model has room for one request: a row waits while one is unanswered.
dispatch_next_queued ==
  IF row # "none" /\ sent = None
  THEN Launch(row, plan_mode.snap)
  ELSE /\ active' = 0
       /\ agent_running' = FALSE
       /\ UNCHANGED <<plan_mode, fileVars, row, sent>>

enqueue_extension_message ==
  /\ "extension" \in may
  /\ nav # "rebound"
  /\ ~cancelling
  /\ row = "none"
  /\ sent = None
  /\ IF adapter_busy
     THEN /\ row' = "extension"
          /\ UNCHANGED <<plan_mode, fileVars, active, agent_running, sent>>
     ELSE Launch("extension", plan_mode.snap)
  /\ UNCHANGED <<session, nav, loopVars, cancelling, piRunning, settled,
                 wanted, may>>

\* interject_local_queue steers the waiting row into the run; it writes
\* neither file.  (While cancelling, or idle, the row goes back.)
interject_local_queue ==
  /\ "sendNow" \in may
  /\ row # "none"
  /\ sent = None
  /\ active < MaxActive
  /\ ~cancelling
  /\ agent_running \/ active > 0
  /\ plan_mode' = Tracker(Reminded(plan_mode.snap))
  /\ active' = active + (IF row = "client" THEN 1 ELSE 0)
  /\ sent' = [pinned |-> FALSE, owns |-> row = "client"]
  /\ row' = "none"
  /\ UNCHANGED <<fileVars, session, nav, loopVars, agent_running, cancelling,
                 piRunning, settled, wanted, may>>

cancel ==
  /\ "cancel" \in may
  /\ adapter_busy
  /\ cancelling' = TRUE
  /\ active' = 0
  /\ row' = "none"
  /\ UNCHANGED <<plan_mode, fileVars, session, nav, loopVars, agent_running,
                 piVars, wanted, may>>

\* settle_cancelled_prompts: Pi is idle, or the deadline passed.
settle_cancelled_idle ==
  /\ cancelling
  /\ ~piRunning
  /\ cancelling' = FALSE
  /\ IF active = 0 THEN dispatch_next_queued
     ELSE /\ agent_running' = FALSE
          /\ UNCHANGED <<plan_mode, fileVars, active, row, sent>>
  /\ UNCHANGED <<session, nav, loopVars, piRunning, settled, wanted, may>>

settle_cancelled_deadline ==
  /\ cancelling
  /\ piRunning
  /\ cancelling' = FALSE
  /\ UNCHANGED <<plan_mode, fileVars, session, nav, loopVars, active,
                 agent_running, row, piVars, wanted, may>>
----------------------------------------------------------------------------
(***************************************************************************)
(* The event loop.  It handles no event while the exit_plan_mode dialog is *)
(* open or agent_settled is between its halves.                            *)
(***************************************************************************)
LoopFree == approval = None /\ ~finishing

\* Slip: a turn that is being cancelled does not complete the exit.
agent_settled_uncancelled ==
  /\ LoopFree
  /\ settled > 0
  /\ settled' = settled - 1
  /\ agent_running' = FALSE
  /\ cancelling' = FALSE
  /\ plan_mode' = IF cancelling THEN plan_mode
                  ELSE Tracker(complete_deferred_exit(plan_mode.snap))
  /\ IF plan_mode' = plan_mode
     THEN finishing' = TRUE /\ UNCHANGED fileVars
     ELSE \E w \in Chains :
            /\ WriteFiles(plan_mode', w)
            /\ finishing' = (w = Both)
  /\ UNCHANGED <<session, nav, approval, active, row, sent, piRunning, wanted,
                 may>>

\* First half of agent_settled: a file that cannot be written ends it.
agent_settled ==
  /\ LoopFree
  /\ settled > 0
  /\ settled' = settled - 1
  /\ agent_running' = FALSE
  /\ cancelling' = FALSE
  /\ plan_mode' = Tracker(complete_deferred_exit(plan_mode.snap))
  /\ IF plan_mode.snap.state # "ExitPending"
     THEN finishing' = TRUE /\ UNCHANGED fileVars
     ELSE \E w \in Chains :
            /\ WriteFiles(plan_mode', w)
            /\ finishing' = (w = Both)
  /\ UNCHANGED <<session, nav, approval, active, row, sent, piRunning, wanted,
                 may>>

\* Second half: finish_prompts and dispatch_next_queued.
agent_settled_finish ==
  /\ finishing
  /\ finishing' = FALSE
  /\ IF ~agent_running /\ ~cancelling THEN dispatch_next_queued
     ELSE /\ active' = 0
          /\ UNCHANGED <<plan_mode, fileVars, agent_running, row, sent>>
  /\ UNCHANGED <<session, nav, approval, cancelling, piRunning, settled,
                 wanted, may>>

\* Slip: the flag stays set when the request cannot be published.
request_plan_approval_flagKept ==
  LET asked == Tracker([plan_mode.snap EXCEPT
                          !.awaiting_plan_approval = TRUE]) IN
  /\ LoopFree /\ piRunning /\ settled = 0 /\ ~cancelling
  /\ IsActive(plan_mode.snap)
  /\ ~plan_mode.snap.awaiting_plan_approval
  /\ plan_mode' = asked
  /\ \E w \in Chains :
       /\ WriteFiles(asked, w)
       /\ approval' = IF w = Both THEN plan_mode.file ELSE None
  /\ UNCHANGED <<session, nav, finishing, runVars, piVars, wanted, may>>

\* The model calls exit_plan_mode.  Events of a cancelled run are dropped.
request_plan_approval ==
  LET asked == Tracker([plan_mode.snap EXCEPT
                          !.awaiting_plan_approval = TRUE]) IN
  /\ LoopFree /\ piRunning /\ settled = 0 /\ ~cancelling
  /\ IsActive(plan_mode.snap)
  /\ ~plan_mode.snap.awaiting_plan_approval
  /\ \E w \in Chains :
       /\ WriteFiles(asked, w)
       /\ IF w = Both
          THEN plan_mode' = asked /\ approval' = plan_mode.file
          ELSE UNCHANGED <<plan_mode, approval>>
  /\ UNCHANGED <<session, nav, finishing, runVars, piVars, wanted, may>>

\* The rest of request_plan_approval works on the tracker of the moment.  If
\* the user left plan mode meanwhile, the mode switch decided, not the dialog.
PlanApproved ==
  /\ approval # None
  /\ approval' = None
  /\ plan_mode' = Tracker(deactivate_approved(plan_mode.snap))
  /\ \E w \in Writes : WriteFiles(plan_mode', w)
  /\ wanted' = (wanted /\ ~IsActive(plan_mode.snap))
  /\ UNCHANGED <<session, nav, finishing, runVars, piVars, may>>

\* The user asks for changes, or the request fails and nothing is written.
PlanNotApproved(answered) ==
  /\ approval # None
  /\ approval' = None
  /\ plan_mode' = Tracker([plan_mode.snap EXCEPT
                             !.awaiting_plan_approval = FALSE])
  /\ IF answered THEN \E w \in Writes : WriteFiles(plan_mode', w \ {"sync"})
     ELSE UNCHANGED fileVars
  /\ UNCHANGED <<session, nav, finishing, runVars, piVars, wanted, may>>
----------------------------------------------------------------------------
(***************************************************************************)
(* Sessions.  A session without a sidecar also stands for a new one.       *)
(***************************************************************************)
\* replace_bootstrap; Pi aborts the run of the session that is left.
replace_bootstrap(x) ==
  /\ session' = x
  /\ agent_running' = FALSE
  /\ cancelling' = FALSE
  /\ row' = "none"
  /\ piRunning' = FALSE
  /\ settled' \in {settled} \cup
       IF piRunning /\ settled < MaxSettled THEN {settled + 1} ELSE {}
  /\ UNCHANGED <<active, sent>>

sameSession == UNCHANGED <<session, runVars, piVars>>
IsNew(x) == x # session /\ saved[x] = None
Idle == nav \in {"none", "rebound"}

new_session(x) ==
  /\ Idle
  /\ \/ "switch" \in may /\ IsNew(x) /\ replace_bootstrap(x)
     \/ "veto" \in may /\ x = session /\ sameSession
  /\ nav' = "reset"
  /\ UNCHANGED <<plan_mode, fileVars, loopVars, wanted, may>>

new_session_tracker ==
  /\ nav = "reset"
  /\ nav' = "persist"
  /\ plan_mode' = [file |-> session, snap |-> FreshSnapshot]
  /\ UNCHANGED <<fileVars, session, loopVars, runVars, piVars, wanted, may>>

new_session_publish ==
  /\ nav = "persist"
  /\ nav' = "none"
  /\ \E w \in Chains : WriteFiles(plan_mode, w)
  /\ UNCHANGED <<plan_mode, session, loopVars, runVars, piVars, wanted, may>>

\* load_session up to the replay: a sidecar that cannot be read ends it.
load_session(x) ==
  /\ Idle
  /\ \/ x = session /\ (nav = "rebound" \/ "switch" \in may) /\ sameSession
     \/ x # session /\ "switch" \in may /\ replace_bootstrap(x)
  /\ \/ plan_mode' = load_plan_tracker(x) /\ nav' = "loaded"
     \/ "read" \in may /\ UNCHANGED <<plan_mode, nav>>
  /\ UNCHANGED <<fileVars, loopVars, wanted, may>>

\* Slip: a loaded session does not publish its gate.
load_session_publish_never ==
  /\ nav = "loaded"
  /\ nav' = "none"
  /\ UNCHANGED <<plan_mode, fileVars, session, loopVars, runVars, piVars,
                 wanted, may>>

\* load_session after the replay, which may fail.
load_session_publish ==
  /\ nav = "loaded"
  /\ nav' = "none"
  /\ \/ \E w \in Writes : WriteFiles(plan_mode, w \ {"save"})
     \/ "replay" \in may /\ UNCHANGED fileVars
  /\ UNCHANGED <<plan_mode, session, loopVars, runVars, piVars, wanted, may>>

\* rebind_after_session_branch: the pager loads the session afterwards.
fork(x) ==
  /\ nav = "none"
  /\ "switch" \in may
  /\ IsNew(x)
  /\ replace_bootstrap(x)
  /\ plan_mode' = load_plan_tracker(x)
  /\ nav' = "rebound"
  /\ UNCHANGED <<fileVars, loopVars, wanted, may>>

\* The program ends and starts on the same session: a new control file.
restart ==
  /\ "restart" \in may
  /\ plan_mode' = load_plan_tracker(session)
  /\ control' = [active |-> FALSE, file |-> None]
  /\ nav' = "rebound"
  /\ approval' = None
  /\ finishing' = FALSE
  /\ active' = 0
  /\ agent_running' = FALSE
  /\ cancelling' = FALSE
  /\ row' = "none"
  /\ sent' = None
  /\ piRunning' = FALSE
  /\ settled' = 0
  /\ UNCHANGED <<saved, session, wanted, may>>
----------------------------------------------------------------------------
(***************************************************************************)
(* Pi.                                                                     *)
(***************************************************************************)
PiAccepts ==
  /\ sent # None
  /\ sent' = None
  /\ piRunning' = TRUE
  /\ UNCHANGED <<plan_mode, fileVars, session, nav, loopVars, runVars,
                 settled, wanted, may>>

\* Slip: a prompt that was finished meanwhile is removed again.
PiRefuses_twice ==
  /\ "refuse" \in may
  /\ sent # None
  /\ sent' = None
  /\ active' = active - (IF sent.owns THEN 1 ELSE 0)
  /\ agent_running' = (agent_running /\ ~sent.pinned)
  /\ UNCHANGED <<plan_mode, fileVars, session, nav, loopVars, cancelling,
                 row, piRunning, settled, wanted, may>>

\* The error paths of prompt, dispatch_next_queued and interject: the prompt
\* is removed if it is still there; a pinned one also ends the run.
PiRefuses ==
  /\ "refuse" \in may
  /\ sent # None
  /\ sent' = None
  /\ active' = active - (IF sent.owns /\ active > 0 THEN 1 ELSE 0)
  /\ agent_running' = (agent_running /\ ~sent.pinned)
  /\ UNCHANGED <<plan_mode, fileVars, session, nav, loopVars, cancelling,
                 row, piRunning, settled, wanted, may>>

PiSettles ==
  /\ piRunning
  /\ settled < MaxSettled
  /\ piRunning' = FALSE
  /\ settled' = settled + 1
  /\ UNCHANGED <<plan_mode, fileVars, session, nav, loopVars, runVars, sent,
                 wanted, may>>
----------------------------------------------------------------------------
\* The program starts on a session without sidecars, before session/load.
Init ==
  /\ session = Start
  /\ plan_mode = [file |-> Start, snap |-> FreshSnapshot]
  /\ saved = [x \in Sessions |-> None]
  /\ control = [active |-> FALSE, file |-> None]
  /\ nav = "rebound"
  /\ approval = None
  /\ finishing = FALSE
  /\ row = "none"
  /\ active = 0
  /\ agent_running = FALSE
  /\ cancelling = FALSE
  /\ sent = None
  /\ piRunning = FALSE
  /\ settled = 0
  /\ wanted = FALSE
  /\ may \in Worlds

Next ==
  \/ set_session_mode_plan
  \/ set_session_mode_default
  \/ \E steer \in BOOLEAN : prompt(steer)
  \/ prompt_queued
  \/ enqueue_extension_message
  \/ interject_local_queue
  \/ cancel
  \/ settle_cancelled_idle
  \/ settle_cancelled_deadline
  \/ agent_settled
  \/ agent_settled_finish
  \/ request_plan_approval
  \/ PlanApproved
  \/ \E answered \in BOOLEAN : PlanNotApproved(answered)
  \/ \E x \in Sessions : new_session(x) \/ load_session(x) \/ fork(x)
  \/ new_session_tracker
  \/ new_session_publish
  \/ load_session_publish
  \/ restart
  \/ PiAccepts
  \/ PiRefuses
  \/ PiSettles

Spec == Init /\ [][Next]_vars

\* Tasks of the adapter run on and Pi answers and ends its turns; nothing is
\* assumed of the user, who may leave a dialog open.
Fairness ==
  /\ WF_vars(agent_settled)
  /\ WF_vars(agent_settled_finish)
  /\ WF_vars(PiAccepts)
  /\ WF_vars(PiSettles)
FairSpec == Spec /\ Fairness
----------------------------------------------------------------------------
Without(faults) == may \cap faults = {}

\* Between navigations the gate inside Pi enforces exactly the tracker's
\* mode, for the tracker's plan file (sync_plan_mode_control runs after every
\* transition), unless a file could not be written, a replay failed after the
\* tracker was replaced, or a row was interjected.
GateMatches ==
  nav = "none" /\ Without({"write", "replay", "sendNow"})
    => control = Gate(plan_mode)

\* The comment on PiPlanState::Active: "Write tools are blocked except for
\* the plan file", here for a run of Pi in a program whose files are written.
ActiveIsGated ==
  nav = "none" /\ piRunning /\ IsActive(plan_mode.snap) /\ Without({"write"})
    => control = Gate(plan_mode)

\* A restart at any point between navigations resumes the tracker, but for
\* the transient states that from_snapshot collapses: the sidecar is never
\* behind.  The approval flag is AwaitingIsOutstanding's business.
Durable(s) == [from_snapshot(s) EXCEPT !.awaiting_plan_approval = FALSE]
RestartFaithful ==
  nav = "none" /\ Without({"write", "replay", "sendNow"})
    => Durable(load_plan_tracker(plan_mode.file).snap)
         = Durable(plan_mode.snap)

\* In a program that stays on one session, plan mode is on only if the user's
\* last decision, by the mode switch or in the approval dialog, turned it on;
\* and it is still on if the program was not restarted since.
PlanModeFollowsUser ==
  Without({"write", "switch", "veto"}) =>
    /\ On(plan_mode.snap) => wanted
    /\ wanted /\ Without({"restart"}) => On(plan_mode.snap)

\* The comment on the flag: "`exit_plan_mode` approval is outstanding".  A
\* flag without a dialog makes request_plan_approval return at once, so the
\* plan can never be submitted again.
AwaitingIsOutstanding ==
  plan_mode.snap.awaiting_plan_approval => approval = plan_mode.file

\* ... and it is so as long as the tracker is not restored from a sidecar.
AwaitingWithinProgram ==
  Without({"switch", "veto", "restart"}) => AwaitingIsOutstanding

\* A deferred exit is completed ("Wait for turn to finish, then cleanly
\* exit"), unless the user leaves the approval dialog open, or the turn never
\* ran or ended without a settled event.
DeferredExitEnds ==
  plan_mode.snap.state = "ExitPending"
    /\ Without({"write", "late", "refuse", "switch"})
  ~> plan_mode.snap.state # "ExitPending" \/ approval # None
=============================================================================
