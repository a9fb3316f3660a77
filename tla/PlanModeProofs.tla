--------------------------- MODULE PlanModeProofs ---------------------------
(***************************************************************************)
(* What holds of plan mode for every set of sessions and in every world:   *)
(* the gate and the sidecar follow the tracker, the tracker follows the    *)
(* user, and the approval flag stands for an open dialog.                  *)
(***************************************************************************)
EXTENDS PlanMode, TLAPS

(***************************************************************************)
(* The tracker.                                                            *)
(***************************************************************************)
\* Every transition of PiPlanTracker yields a snapshot.
LEMMA Transitions ==
  ASSUME NEW s \in Snapshots
  PROVE  /\ FreshSnapshot \in Snapshots
         /\ from_snapshot(s) \in Snapshots
         /\ enter_pending(s) \in Snapshots
         /\ \A f \in BOOLEAN : user_exit(s, f) \in Snapshots
         /\ complete_deferred_exit(s) \in Snapshots
         /\ deactivate_approved(s) \in Snapshots
         /\ Reminded(s) \in Snapshots
         /\ \A f \in BOOLEAN :
              [s EXCEPT !.awaiting_plan_approval = f] \in Snapshots
<1> USE DEF Snapshots, States
<1>1. FreshSnapshot \in Snapshots
  BY DEF FreshSnapshot
<1>2. from_snapshot(s) \in Snapshots
  BY DEF from_snapshot
<1>3. enter_pending(s) \in Snapshots
  BY DEF enter_pending
<1>4. ASSUME NEW f \in BOOLEAN PROVE user_exit(s, f) \in Snapshots
  <2> DEFINE t == [s EXCEPT !.awaiting_plan_approval = FALSE]
  <2>1. t \in Snapshots
    OBVIOUS
  <2> HIDE DEF t
  <2>2. \/ user_exit(s, f) = t
        \/ user_exit(s, f) = [t EXCEPT !.state = "Inactive"]
        \/ user_exit(s, f) = [t EXCEPT !.state = "ExitPending"]
        \/ user_exit(s, f) = [t EXCEPT !.state = "Inactive",
                                       !.pending_exit_reminder = TRUE]
    BY DEF user_exit, t
  <2> QED BY <2>1, <2>2
<1>5. complete_deferred_exit(s) \in Snapshots
  BY DEF complete_deferred_exit
<1>6. deactivate_approved(s) \in Snapshots
  BY DEF deactivate_approved
<1>7. Reminded(s) \in Snapshots
  BY DEF Reminded, activate
<1>8. \A f \in BOOLEAN : [s EXCEPT !.awaiting_plan_approval = f] \in Snapshots
  OBVIOUS
<1> QED BY <1>1, <1>2, <1>3, <1>4, <1>5, <1>6, <1>7, <1>8

\* What the transitions do to the mode, and to the flag of a tracker that
\* awaits an approval only while it is active.
FlagIsActive(s) == s.awaiting_plan_approval => IsActive(s)

\* enter_pending turns plan mode on, leaving turns it off, a prompt leaves it
\* as it is; none of them keeps the approval flag outside Active.
LEMMA ModeAfter ==
  ASSUME NEW s \in Snapshots, FlagIsActive(s)
  PROVE  /\ FlagIsActive(FreshSnapshot) /\ ~On(FreshSnapshot)
         /\ FlagIsActive(from_snapshot(s))
         /\ On(from_snapshot(s)) <=> IsActive(s)
         /\ FlagIsActive(enter_pending(s)) /\ On(enter_pending(s))
         /\ enter_pending(s).awaiting_plan_approval
              = s.awaiting_plan_approval
         /\ \A f \in BOOLEAN :
              /\ ~user_exit(s, f).awaiting_plan_approval
              /\ ~On(user_exit(s, f))
         /\ complete_deferred_exit(s).awaiting_plan_approval
              = s.awaiting_plan_approval
         /\ FlagIsActive(complete_deferred_exit(s))
         /\ On(complete_deferred_exit(s)) <=> On(s)
         /\ ~deactivate_approved(s).awaiting_plan_approval
         /\ On(deactivate_approved(s)) <=> s.state = "Pending"
         /\ FlagIsActive(Reminded(s))
         /\ Reminded(s).awaiting_plan_approval = s.awaiting_plan_approval
         /\ On(Reminded(s)) <=> On(s)
<1> USE DEF Snapshots, States, FlagIsActive, IsActive, On
<1>1. FlagIsActive(FreshSnapshot) /\ ~On(FreshSnapshot)
  BY DEF FreshSnapshot
<1>2. FlagIsActive(from_snapshot(s)) /\ (On(from_snapshot(s)) <=> IsActive(s))
  BY DEF from_snapshot
<1>3. /\ FlagIsActive(enter_pending(s)) /\ On(enter_pending(s))
      /\ enter_pending(s).awaiting_plan_approval = s.awaiting_plan_approval
  BY DEF enter_pending
<1>4. ASSUME NEW f \in BOOLEAN
      PROVE  ~user_exit(s, f).awaiting_plan_approval /\ ~On(user_exit(s, f))
  <2> DEFINE t == [s EXCEPT !.awaiting_plan_approval = FALSE]
  <2>1. t \in Snapshots /\ ~t.awaiting_plan_approval /\ t.state = s.state
    OBVIOUS
  <2>2. CASE s.state = "Pending"
    <3>1. user_exit(s, f) = [t EXCEPT !.state = "Inactive"]
      BY <2>2 DEF user_exit
    <3> QED BY <3>1
  <2>3. CASE s.state = "Active" /\ f
    <3>1. user_exit(s, f) = [t EXCEPT !.state = "ExitPending"]
      BY <2>3 DEF user_exit
    <3> QED BY <3>1
  <2>4. CASE s.state = "Active" /\ ~f
    <3>1. user_exit(s, f) = [t EXCEPT !.state = "Inactive",
                                      !.pending_exit_reminder = TRUE]
      BY <2>4 DEF user_exit
    <3> QED BY <3>1
  <2>5. CASE s.state \notin {"Pending", "Active"}
    <3>1. user_exit(s, f) = t
      BY <2>5 DEF user_exit
    <3> QED BY <3>1, <2>5, <2>1
  <2> QED BY <2>2, <2>3, <2>4, <2>5
<1>5. /\ complete_deferred_exit(s).awaiting_plan_approval
           = s.awaiting_plan_approval
      /\ FlagIsActive(complete_deferred_exit(s))
      /\ On(complete_deferred_exit(s)) <=> On(s)
  BY DEF complete_deferred_exit
<1>6. /\ ~deactivate_approved(s).awaiting_plan_approval
      /\ On(deactivate_approved(s)) <=> s.state = "Pending"
  BY DEF deactivate_approved
<1>7. /\ FlagIsActive(Reminded(s))
      /\ Reminded(s).awaiting_plan_approval = s.awaiting_plan_approval
      /\ On(Reminded(s)) <=> On(s)
  BY DEF Reminded, activate
<1> QED BY <1>1, <1>2, <1>3, <1>4, <1>5, <1>6, <1>7

(***************************************************************************)
(* The inductive invariant.                                                *)
(***************************************************************************)
\* The flag is set in an active tracker only, in memory and on disk.
FlagsActive ==
  /\ FlagIsActive(plan_mode.snap)
  /\ \A x \in Sessions : saved[x] # None => FlagIsActive(saved[x])

Trouble == {"switch", "veto", "restart"}

\* Until session/load the program is as it started, unless it was restarted
\* or left its session.
Pristine ==
  nav = "rebound" /\ Without(Trouble) =>
    /\ plan_mode = [file |-> Start, snap |-> FreshSnapshot]
    /\ session = Start
    /\ saved = [x \in Sessions |-> None]
    /\ ~wanted /\ approval = None /\ ~finishing
    /\ active = 0 /\ ~agent_running /\ ~cancelling
    /\ sent = None /\ ~piRunning /\ settled = 0

\* Only a change of session takes new_session's path and another plan file.
StaysHere ==
  Without({"switch", "veto"}) =>
    /\ nav \in {"none", "rebound", "loaded"}
    /\ plan_mode.file = session

\* RestartFaithful is also needed while a session is being loaded.
SavedFollows ==
  nav \notin {"reset", "persist"} /\ Without({"write", "replay", "sendNow"})
    => Durable(load_plan_tracker(plan_mode.file).snap)
         = Durable(plan_mode.snap)

\* An active sidecar belongs to an active tracker.
SavedActive ==
  Without({"write", "switch", "veto"}) =>
    (saved[session] # None /\ saved[session].state = "Active"
       => IsActive(plan_mode.snap))

\* The part of the invariant that is about the tracker and its files.
FilesInv ==
  /\ plan_mode \in Trackers
  /\ saved \in [Sessions -> Snapshots \cup {None}]
  /\ control \in [active: BOOLEAN, file: Sessions \cup {None}]
  /\ session \in Sessions
  /\ FlagsActive
  /\ StaysHere
  /\ GateMatches
  /\ SavedFollows
  /\ SavedActive

\* The part about the user's decisions.
UserInv ==
  /\ PlanModeFollowsUser
  /\ AwaitingWithinProgram

IInv ==
  /\ TypeOK
  /\ Pristine
  /\ FilesInv
  /\ UserInv

(***************************************************************************)
(* Facts about trackers and files.                                         *)
(***************************************************************************)
\* Replacing the snapshot keeps the plan file.
LEMMA TrackerFacts ==
  ASSUME plan_mode \in Trackers, NEW s \in Snapshots
  PROVE  /\ Tracker(s) \in Trackers
         /\ Tracker(s).file = plan_mode.file
         /\ Tracker(s).snap = s
BY DEF Tracker, Trackers

\* Loading a tracker gives a tracker of that session.
LEMMA LoadFacts ==
  ASSUME NEW x \in Sessions, FlagsActive,
         saved \in [Sessions -> Snapshots \cup {None}]
  PROVE  /\ load_plan_tracker(x) \in Trackers
         /\ load_plan_tracker(x).file = x
         /\ FlagIsActive(load_plan_tracker(x).snap)
         /\ On(load_plan_tracker(x).snap) <=>
              saved[x] # None /\ saved[x].state = "Active"
         /\ IsActive(load_plan_tracker(x).snap) <=>
              saved[x] # None /\ saved[x].state = "Active"
<1>1. CASE saved[x] = None
  <2>1. load_plan_tracker(x) = [file |-> x, snap |-> FreshSnapshot]
    BY <1>1 DEF load_plan_tracker
  <2>2. /\ FreshSnapshot \in Snapshots /\ ~IsActive(FreshSnapshot)
        /\ FlagIsActive(FreshSnapshot) /\ ~On(FreshSnapshot)
    BY DEF FreshSnapshot, Snapshots, States, IsActive, On, FlagIsActive
  <2> QED BY <1>1, <2>1, <2>2 DEF Trackers
<1>2. CASE saved[x] # None
  <2>1. load_plan_tracker(x) = [file |-> x, snap |-> from_snapshot(saved[x])]
    BY <1>2 DEF load_plan_tracker
  <2>2. saved[x] \in Snapshots /\ FlagIsActive(saved[x])
    BY <1>2 DEF FlagsActive
  <2>3. /\ from_snapshot(saved[x]) \in Snapshots
        /\ FlagIsActive(from_snapshot(saved[x]))
        /\ On(from_snapshot(saved[x])) <=> IsActive(saved[x])
    BY <2>2, Transitions, ModeAfter
  <2>4. IsActive(from_snapshot(saved[x])) <=> IsActive(saved[x])
    BY <2>2 DEF from_snapshot, IsActive, Snapshots, States
  <2> QED BY <1>2, <2>1, <2>2, <2>3, <2>4 DEF Trackers, IsActive
<1> QED BY <1>1, <1>2

\* Collapsing twice is collapsing once, so a sidecar that holds the tracker's
\* snapshot is faithful, and so is a tracker that was just loaded.
LEMMA DurableFacts ==
  ASSUME NEW s \in Snapshots
  PROVE  /\ Durable(from_snapshot(s)) = Durable(s)
         /\ \A f \in BOOLEAN :
              Durable([s EXCEPT !.awaiting_plan_approval = f]) = Durable(s)
<1> USE DEF Durable, Snapshots, States
<1>1. Durable(from_snapshot(s)) = Durable(s)
  <2>1. from_snapshot(from_snapshot(s)) = from_snapshot(s)
    BY DEF from_snapshot
  <2> QED BY <2>1
<1>2. ASSUME NEW f \in BOOLEAN
      PROVE  Durable([s EXCEPT !.awaiting_plan_approval = f]) = Durable(s)
  BY DEF from_snapshot
<1> QED BY <1>1, <1>2

(***************************************************************************)
(* The steps of FilesInv.                                                  *)
(***************************************************************************)
\* A tracker that is written to the files, which fail only in a world where
\* they may, keeps the files in step.
LEMMA WriteStep ==
  ASSUME FilesInv, NEW s \in Snapshots, FlagIsActive(s),
         NEW w \in SUBSET Both, Without({"write"}) => w = Both,
         plan_mode' = Tracker(s), WriteFiles(plan_mode', w),
         UNCHANGED <<session, may>>,
         nav' = nav \/ ~Without({"switch", "veto"})
  PROVE  FilesInv'
<1> USE DEF FilesInv
<1>1. /\ plan_mode' \in Trackers /\ plan_mode'.file = plan_mode.file
      /\ plan_mode'.snap = s
  BY TrackerFacts
<1>2. plan_mode.file \in Sessions
  BY DEF Trackers
<1>3. saved' = IF "save" \in w
               THEN [saved EXCEPT ![plan_mode.file] = s] ELSE saved
  BY <1>1 DEF WriteFiles
<1>4. control' = IF "sync" \in w THEN Gate(plan_mode') ELSE control
  BY DEF WriteFiles
<1>5. saved' \in [Sessions -> Snapshots \cup {None}]
  BY <1>2, <1>3
<1>6. Gate(plan_mode') \in [active: BOOLEAN, file: Sessions \cup {None}]
  BY <1>1, <1>2 DEF Gate, IsActive
<1>7. control' \in [active: BOOLEAN, file: Sessions \cup {None}]
  BY <1>4, <1>6
<1>8. FlagsActive'
  <2>1. FlagIsActive(plan_mode'.snap)
    BY <1>1
  <2>2. ASSUME NEW x \in Sessions, saved'[x] # None
        PROVE  FlagIsActive(saved'[x])
    BY <1>2, <1>3, <2>2 DEF FlagsActive
  <2> QED BY <2>1, <2>2 DEF FlagsActive, FlagIsActive, IsActive
<1>9. StaysHere'
  BY <1>1 DEF StaysHere, Without
<1>10. Without({"write"})' => w = Both
  BY DEF Without
<1>11. GateMatches'
  BY <1>4, <1>10 DEF GateMatches, Without, Both
<1>12. ASSUME w = Both
       PROVE  saved'[plan_mode.file] = s
  BY <1>2, <1>3, <1>12 DEF Both
<1>13. SavedFollows'
  <2> SUFFICES ASSUME w = Both
               PROVE  Durable(load_plan_tracker(plan_mode.file).snap)'
                        = Durable(plan_mode.snap)'
    BY <1>10 DEF SavedFollows, Without
  <2>1. load_plan_tracker(plan_mode.file).snap' = from_snapshot(s)
    BY <1>1, <1>12, PlanAssumption DEF load_plan_tracker
  <2>2. Durable(from_snapshot(s)) = Durable(s)
    BY DurableFacts
  <2> QED BY <1>1, <2>1, <2>2 DEF Durable
<1>14. SavedActive'
  BY <1>1, <1>9, <1>10, <1>12 DEF SavedActive, StaysHere, Without, IsActive
<1> QED BY <1>1, <1>5, <1>7, <1>8, <1>9, <1>11, <1>13, <1>14

\* A step that leaves the tracker, the files and the session alone.
LEMMA QuietStep ==
  ASSUME FilesInv, UNCHANGED <<plan_mode, fileVars, session, nav, may>>
  PROVE  FilesInv'
BY DEF FilesInv, fileVars, FlagsActive, StaysHere, GateMatches, SavedFollows,
       SavedActive, Without, load_plan_tracker, Gate

\* Clearing the approval flag, saved or not, changes nothing a restart or the
\* gate can see.
LEMMA ClearFlagStep ==
  ASSUME FilesInv, NEW w \in SUBSET {"save"},
         plan_mode' = Tracker([plan_mode.snap EXCEPT
                                 !.awaiting_plan_approval = FALSE]),
         WriteFiles(plan_mode', w), UNCHANGED <<session, nav, may>>
  PROVE  FilesInv'
<1> USE DEF FilesInv
<1> DEFINE s == [plan_mode.snap EXCEPT !.awaiting_plan_approval = FALSE]
<1>0. plan_mode.snap \in Snapshots /\ plan_mode.file \in Sessions
  BY DEF Trackers
<1>1. s \in Snapshots /\ s.state = plan_mode.snap.state /\ FlagIsActive(s)
  BY <1>0 DEF Snapshots, FlagIsActive
<1>2. Durable(s) = Durable(plan_mode.snap)
  BY <1>0, DurableFacts
<1> HIDE DEF s
<1>3. /\ plan_mode' \in Trackers /\ plan_mode'.file = plan_mode.file
      /\ plan_mode'.snap = s
  BY <1>1, TrackerFacts DEF s
<1>4. saved' = IF "save" \in w
               THEN [saved EXCEPT ![plan_mode.file] = s] ELSE saved
  BY <1>3 DEF WriteFiles
<1>5. control' = control
  BY DEF WriteFiles
<1>6. saved' \in [Sessions -> Snapshots \cup {None}]
  BY <1>0, <1>1, <1>4
<1>7. FlagsActive'
  <2>1. FlagIsActive(plan_mode'.snap)
    BY <1>1, <1>3
  <2>2. ASSUME NEW x \in Sessions, saved'[x] # None
        PROVE  FlagIsActive(saved'[x])
    BY <1>0, <1>1, <1>4, <2>2 DEF FlagsActive
  <2> QED BY <2>1, <2>2 DEF FlagsActive, FlagIsActive, IsActive
<1>8. StaysHere'
  BY <1>3 DEF StaysHere, Without
<1>9. GateMatches'
  <2>1. Gate(plan_mode') = Gate(plan_mode)
    BY <1>1, <1>3 DEF Gate, IsActive
  <2> QED BY <1>5, <2>1 DEF GateMatches, Without
<1>10. SavedFollows'
  <2>1. CASE "save" \in w
    <3>1. saved'[plan_mode.file] = s
      BY <1>0, <1>4, <2>1
    <3>2. load_plan_tracker(plan_mode.file).snap' = from_snapshot(s)
      BY <1>1, <1>3, <3>1, PlanAssumption DEF load_plan_tracker
    <3>3. Durable(from_snapshot(s)) = Durable(s)
      BY <1>1, DurableFacts
    <3> QED BY <1>3, <3>2, <3>3 DEF SavedFollows, Durable
  <2>2. CASE "save" \notin w
    BY <1>2, <1>3, <1>4, <2>2 DEF SavedFollows, Without, load_plan_tracker
  <2> QED BY <2>1, <2>2
<1>11. SavedActive'
  BY <1>0, <1>1, <1>3, <1>4, <1>8
     DEF SavedActive, StaysHere, Without, IsActive
<1> QED BY <1>3, <1>5, <1>6, <1>7, <1>8, <1>9, <1>10, <1>11

(***************************************************************************)
(* The steps of the rest.                                                  *)
(***************************************************************************)
\* The types of what FilesInv does not speak of.
RunTypes ==
  /\ nav \in {"none", "rebound", "reset", "persist", "loaded"}
  /\ approval \in Sessions \cup {None}
  /\ finishing \in BOOLEAN
  /\ row \in {"none", "client", "extension"}
  /\ active \in 0..MaxActive
  /\ agent_running \in BOOLEAN
  /\ cancelling \in BOOLEAN
  /\ sent \in Requests \cup {None}
  /\ piRunning \in BOOLEAN
  /\ settled \in 0..MaxSettled
  /\ wanted \in BOOLEAN
  /\ may \in Worlds

\* The invariant without what the type invariant repeats.
LEMMA Parts ==
  /\ IInv <=> RunTypes /\ Pristine /\ FilesInv /\ UserInv
  /\ IInv' <=> RunTypes' /\ Pristine' /\ FilesInv' /\ UserInv'
BY DEF IInv, TypeOK, RunTypes, FilesInv

\* A step that neither switches the mode nor touches the flag or the dialog.
Neutral ==
  /\ plan_mode'.file = plan_mode.file
  /\ On(plan_mode'.snap) <=> On(plan_mode.snap)
  /\ plan_mode'.snap.awaiting_plan_approval
       = plan_mode.snap.awaiting_plan_approval
  /\ UNCHANGED <<wanted, approval, may>>

\* ... keeps what the user decided.
LEMMA NeutralStep ==
  ASSUME UserInv, Neutral
  PROVE  UserInv'
BY DEF UserInv, Neutral, PlanModeFollowsUser, AwaitingWithinProgram,
       AwaitingIsOutstanding, Without, On

\* A step that changes none of what plan mode is about.
LEMMA IdleStep ==
  ASSUME FilesInv, UserInv,
         UNCHANGED <<plan_mode, fileVars, session, nav, approval, wanted,
                     may>>
  PROVE  FilesInv' /\ UserInv'
<1>1. FilesInv'
  BY QuietStep
<1>2. Neutral
  BY DEF Neutral, On
<1> QED BY <1>1, <1>2, NeutralStep

\* Outcomes of writing the files.
LEMMA WritesFacts ==
  /\ \A w \in Writes : w \in SUBSET Both /\ (Without({"write"}) => w = Both)
  /\ \A w \in Chains : w \in SUBSET Both /\ (Without({"write"}) => w = Both)
BY DEF Writes, Chains, Both, Without

\* A prompt is prepared and the files are written, or not at all.
LEMMA RemindStep ==
  ASSUME FilesInv, UserInv, NEW w \in SUBSET Both,
         Without({"write"}) => w = Both,
         plan_mode' = Tracker(Reminded(plan_mode.snap)),
         WriteFiles(plan_mode', w),
         UNCHANGED <<session, nav, approval, wanted, may>>
  PROVE  FilesInv' /\ UserInv'
<1>1. plan_mode.snap \in Snapshots /\ FlagIsActive(plan_mode.snap)
  BY DEF FilesInv, FlagsActive, Trackers
<1>2. /\ Reminded(plan_mode.snap) \in Snapshots
      /\ FlagIsActive(Reminded(plan_mode.snap))
  BY <1>1, Transitions, ModeAfter
<1>3. FilesInv'
  BY <1>2, WriteStep
<1>4. Neutral
  <2>1. /\ plan_mode'.file = plan_mode.file
        /\ plan_mode'.snap = Reminded(plan_mode.snap)
    BY <1>2, TrackerFacts DEF FilesInv
  <2> QED BY <1>1, <2>1, ModeAfter DEF Neutral
<1> QED BY <1>3, <1>4, NeutralStep

\* dispatch_next_queued after the run ended.
LEMMA DispatchStep ==
  ASSUME FilesInv, UserInv, RunTypes, dispatch_next_queued,
         UNCHANGED <<session, nav, approval, wanted, may>>
  PROVE  /\ FilesInv' /\ UserInv'
         /\ active' \in 0..MaxActive /\ agent_running' \in BOOLEAN
         /\ row' \in {"none", "client", "extension"}
         /\ sent' \in Requests \cup {None}
<1>1. CASE row # "none" /\ sent = None
  <2>1. Launch(row, plan_mode.snap)
    BY <1>1 DEF dispatch_next_queued
  <2>2. PICK w \in Writes : WriteFiles(plan_mode', w)
    BY <2>1 DEF Launch
  <2>3. FilesInv' /\ UserInv'
    BY <2>1, <2>2, WritesFacts, RemindStep DEF Launch
  <2>4. /\ active' \in 0..MaxActive /\ agent_running' \in BOOLEAN
        /\ row' \in {"none", "client", "extension"}
        /\ sent' \in Requests \cup {None}
    BY <2>1, PlanAssumption DEF Launch, Requests
  <2> QED BY <2>3, <2>4
<1>2. CASE ~(row # "none" /\ sent = None)
  <2>1. /\ active' = 0 /\ agent_running' = FALSE
        /\ UNCHANGED <<plan_mode, fileVars, row, sent>>
    BY <1>2 DEF dispatch_next_queued
  <2>2. FilesInv' /\ UserInv'
    BY <2>1, IdleStep
  <2>3. active' \in 0..MaxActive
    BY <2>1, PlanAssumption
  <2>4. /\ agent_running' \in BOOLEAN
        /\ row' \in {"none", "client", "extension"}
        /\ sent' \in Requests \cup {None}
    BY <2>1 DEF RunTypes
  <2> QED BY <2>2, <2>3, <2>4
<1> QED BY <1>1, <1>2

(***************************************************************************)
(* The actions.                                                            *)
(***************************************************************************)
\* set_session_mode, either way.
LEMMA SetModeStep ==
  ASSUME IInv, set_session_mode_plan \/ set_session_mode_default
  PROVE  IInv'
<1>0. RunTypes /\ FilesInv /\ UserInv
  BY Parts
<1>1. plan_mode.snap \in Snapshots /\ FlagIsActive(plan_mode.snap)
  BY <1>0 DEF FilesInv, FlagsActive, Trackers
<1>2. PICK s \in Snapshots, on \in BOOLEAN, changed \in BOOLEAN :
        /\ SetMode(on, Tracker(s), changed)
        /\ ~changed => Tracker(s) = plan_mode
        /\ FlagIsActive(s)
        /\ On(s) <=> on
        /\ s.awaiting_plan_approval => plan_mode.snap.awaiting_plan_approval
  <2>1. CASE set_session_mode_plan
    <3> DEFINE c == plan_mode.snap.state \in {"Inactive", "ExitPending"}
    <3>1. SetMode(TRUE, Tracker(enter_pending(plan_mode.snap)), c)
      BY <2>1 DEF set_session_mode_plan
    <3>2. /\ enter_pending(plan_mode.snap) \in Snapshots
          /\ FlagIsActive(enter_pending(plan_mode.snap))
          /\ On(enter_pending(plan_mode.snap))
          /\ enter_pending(plan_mode.snap).awaiting_plan_approval
               = plan_mode.snap.awaiting_plan_approval
      BY <1>1, Transitions, ModeAfter
    <3>3. ~c => Tracker(enter_pending(plan_mode.snap)) = plan_mode
      BY <1>0 DEF enter_pending, Tracker, FilesInv, Trackers
    <3>4. c \in BOOLEAN
      OBVIOUS
    <3> HIDE DEF c
    <3> QED BY <3>1, <3>2, <3>3, <3>4
  <2>2. CASE set_session_mode_default /\ plan_mode.snap.state = "Inactive"
    <3>0. Tracker(plan_mode.snap) = plan_mode
      BY <1>0 DEF Tracker, FilesInv, Trackers
    <3>1. SetMode(FALSE, Tracker(plan_mode.snap), FALSE)
      BY <2>2, <3>0 DEF set_session_mode_default
    <3>2. ~On(plan_mode.snap)
      BY <2>2 DEF On
    <3> QED BY <1>1, <3>0, <3>1, <3>2
  <2>3. CASE set_session_mode_default /\ plan_mode.snap.state # "Inactive"
    <3>1. SetMode(FALSE, Tracker(user_exit(plan_mode.snap, active > 0)), TRUE)
      BY <2>3 DEF set_session_mode_default
    <3>2. (active > 0) \in BOOLEAN
      OBVIOUS
    <3> HIDE <1>0
    <3>3. /\ user_exit(plan_mode.snap, active > 0) \in Snapshots
          /\ ~user_exit(plan_mode.snap, active > 0).awaiting_plan_approval
          /\ ~On(user_exit(plan_mode.snap, active > 0))
      BY <1>1, <3>2, Transitions, ModeAfter
    <3>4. FlagIsActive(user_exit(plan_mode.snap, active > 0))
      BY <3>3 DEF FlagIsActive
    <3> QED BY <3>1, <3>3, <3>4
  <2> QED BY <2>1, <2>2, <2>3
<1>3. /\ nav # "rebound" /\ plan_mode' = Tracker(s) /\ wanted' = on
      /\ UNCHANGED <<session, nav, loopVars, runVars, piVars, may>>
      /\ IF changed THEN \E w \in Chains : WriteFiles(Tracker(s), w)
         ELSE UNCHANGED fileVars
  BY <1>2 DEF SetMode
<1>4. FilesInv'
  <2>1. CASE ~changed
    BY <1>0, <1>2, <1>3, <2>1, QuietStep
  <2>2. CASE changed
    <3>1. PICK w \in Chains : WriteFiles(plan_mode', w)
      BY <1>3, <2>2
    <3> QED BY <1>0, <1>2, <1>3, <3>1, WritesFacts, WriteStep
  <2> QED BY <2>1, <2>2
<1>5. UserInv'
  <2>1. /\ plan_mode'.file = plan_mode.file /\ plan_mode'.snap = s
    BY <1>0, <1>3, TrackerFacts DEF FilesInv
  <2>2. PlanModeFollowsUser'
    BY <1>2, <1>3, <2>1 DEF PlanModeFollowsUser, On
  <2>3. AwaitingWithinProgram'
    BY <1>0, <1>2, <1>3, <2>1
       DEF UserInv, AwaitingWithinProgram, AwaitingIsOutstanding, Without,
           loopVars
  <2> QED BY <2>2, <2>3 DEF UserInv
<1>6. RunTypes'
  BY <1>0, <1>2, <1>3 DEF RunTypes, loopVars, runVars, piVars
<1>7. Pristine'
  BY <1>3 DEF Pristine
<1> QED BY <1>4, <1>5, <1>6, <1>7, Parts

\* prompt, sent at once.
LEMMA PromptStep ==
  ASSUME IInv, NEW steer \in BOOLEAN, prompt(steer)
  PROVE  IInv'
<1>0. RunTypes /\ FilesInv /\ UserInv
  BY Parts
<1>1. PICK w \in Chains :
        /\ WriteFiles(plan_mode', w)
        /\ sent' = IF w = Both THEN [pinned |-> ~steer, owns |-> TRUE]
                   ELSE None
  BY DEF prompt
<1>2. FilesInv' /\ UserInv'
  BY <1>0, <1>1, WritesFacts, RemindStep DEF prompt, loopVars
<1>3. sent' \in Requests \cup {None}
  BY <1>1 DEF Requests
<1>4. active' \in 0..MaxActive
  BY <1>0, PlanAssumption DEF prompt, RunTypes
<1>5. RunTypes'
  BY <1>0, <1>3, <1>4 DEF prompt, RunTypes, loopVars
<1>6. Pristine'
  BY DEF prompt, Pristine
<1> QED BY <1>2, <1>5, <1>6, Parts

\* prompt, put into the local queue.
LEMMA PromptQueuedStep ==
  ASSUME IInv, prompt_queued
  PROVE  IInv'
<1>0. RunTypes /\ FilesInv /\ UserInv
  BY Parts
<1>1. PICK w \in Chains : WriteFiles(plan_mode, w)
  BY DEF prompt_queued
<1>2. plan_mode = Tracker(plan_mode.snap)
  BY <1>0 DEF FilesInv, Tracker, Trackers
<1>3. plan_mode.snap \in Snapshots /\ FlagIsActive(plan_mode.snap)
  BY <1>0 DEF FilesInv, FlagsActive, Trackers
<1>4. /\ plan_mode' = Tracker(plan_mode.snap) /\ WriteFiles(plan_mode', w)
      /\ UNCHANGED <<session, nav, may>>
  BY <1>1, <1>2 DEF prompt_queued
<1>5. FilesInv'
  BY <1>0, <1>3, <1>4, WritesFacts, WriteStep
<1>6. Neutral
  BY DEF prompt_queued, Neutral, On, loopVars
<1>7. UserInv'
  BY <1>0, <1>6, NeutralStep
<1>8. RunTypes'
  BY <1>0 DEF prompt_queued, RunTypes, loopVars, piVars
<1>9. Pristine'
  BY DEF prompt_queued, Pristine
<1> QED BY <1>5, <1>7, <1>8, <1>9, Parts

\* An extension's row, kept or dispatched.
LEMMA ExtensionStep ==
  ASSUME IInv, enqueue_extension_message
  PROVE  IInv'
<1>0. RunTypes /\ FilesInv /\ UserInv
  BY Parts
<1>1. /\ nav # "rebound"
      /\ UNCHANGED <<session, nav, loopVars, cancelling, piRunning, settled,
                     wanted, may>>
  BY DEF enqueue_extension_message
<1>2. /\ FilesInv' /\ UserInv'
      /\ active' \in 0..MaxActive /\ agent_running' \in BOOLEAN
      /\ row' \in {"none", "client", "extension"}
      /\ sent' \in Requests \cup {None}
  <2>1. CASE adapter_busy
    <3>1. /\ row' = "extension"
          /\ UNCHANGED <<plan_mode, fileVars, active, agent_running, sent>>
      BY <2>1 DEF enqueue_extension_message
    <3>2. FilesInv' /\ UserInv'
      BY <1>0, <1>1, <3>1, IdleStep DEF loopVars
    <3> QED BY <1>0, <3>1, <3>2 DEF RunTypes
  <2>2. CASE ~adapter_busy
    <3>1. Launch("extension", plan_mode.snap)
      BY <2>2 DEF enqueue_extension_message
    <3>2. PICK w \in Writes : WriteFiles(plan_mode', w)
      BY <3>1 DEF Launch
    <3>3. FilesInv' /\ UserInv'
      BY <1>0, <1>1, <3>1, <3>2, WritesFacts, RemindStep
         DEF Launch, loopVars
    <3> QED BY <3>1, <3>3, PlanAssumption DEF Launch, Requests
  <2> QED BY <2>1, <2>2
<1>3. RunTypes'
  BY <1>0, <1>1, <1>2 DEF RunTypes, loopVars
<1>4. Pristine'
  BY <1>1 DEF Pristine
<1> QED BY <1>2, <1>3, <1>4, Parts

\* interject_local_queue: no file follows, but no active sidecar is left
\* behind by a tracker that goes from Pending to Active.
LEMMA InterjectStep ==
  ASSUME IInv, interject_local_queue
  PROVE  IInv'
<1>0. RunTypes /\ FilesInv /\ UserInv /\ Pristine
  BY Parts
<1>1. plan_mode.snap \in Snapshots /\ FlagIsActive(plan_mode.snap)
  BY <1>0 DEF FilesInv, FlagsActive, Trackers
<1>2. /\ Reminded(plan_mode.snap) \in Snapshots
      /\ FlagIsActive(Reminded(plan_mode.snap))
      /\ On(Reminded(plan_mode.snap)) <=> On(plan_mode.snap)
      /\ Reminded(plan_mode.snap).awaiting_plan_approval
           = plan_mode.snap.awaiting_plan_approval
  BY <1>1, Transitions, ModeAfter
<1>3. /\ plan_mode' \in Trackers /\ plan_mode'.file = plan_mode.file
      /\ plan_mode'.snap = Reminded(plan_mode.snap)
  BY <1>0, <1>2, TrackerFacts DEF interject_local_queue, FilesInv
<1>4. /\ "sendNow" \in may
      /\ UNCHANGED <<saved, control, session, nav, may>>
  BY DEF interject_local_queue, fileVars
<1>5. FilesInv'
  <2>1. GateMatches' /\ SavedFollows'
    BY <1>4 DEF GateMatches, SavedFollows, Without
  <2>2. FlagsActive'
    BY <1>0, <1>2, <1>3, <1>4 DEF FilesInv, FlagsActive, FlagIsActive, IsActive
  <2>3. StaysHere'
    BY <1>0, <1>3, <1>4 DEF FilesInv, StaysHere, Without
  <2>4. IsActive(plan_mode.snap) => IsActive(plan_mode'.snap)
    BY <1>1, <1>3 DEF Reminded, IsActive, Snapshots, States
  <2>5. SavedActive'
    BY <1>0, <1>4, <2>4 DEF FilesInv, SavedActive, Without, IsActive
  <2> QED BY <1>0, <1>3, <1>4, <2>1, <2>2, <2>3, <2>5 DEF FilesInv
<1>6. UserInv'
  <2>1. Neutral
    BY <1>2, <1>3 DEF Neutral, interject_local_queue, loopVars
  <2> QED BY <1>0, <2>1, NeutralStep
<1>7. RunTypes'
  <2>1. sent' \in Requests
    BY DEF interject_local_queue, Requests
  <2>2. active' \in 0..MaxActive
    BY <1>0, PlanAssumption DEF interject_local_queue, RunTypes
  <2> QED BY <1>0, <2>1, <2>2 DEF interject_local_queue, RunTypes, loopVars
<1>8. Pristine'
  <2>1. agent_running \/ active > 0
    BY DEF interject_local_queue
  <2> QED BY <1>0, <1>4, <2>1 DEF Pristine, Without
<1> QED BY <1>5, <1>6, <1>7, <1>8, Parts

\* cancel and its settle task.
LEMMA CancelStep ==
  ASSUME IInv,
         cancel \/ settle_cancelled_idle \/ settle_cancelled_deadline
  PROVE  IInv'
<1>0. RunTypes /\ FilesInv /\ UserInv /\ Pristine
  BY Parts
<1>1. CASE cancel
  <2>1. FilesInv' /\ UserInv'
    BY <1>0, <1>1, IdleStep DEF cancel, loopVars
  <2>2. RunTypes'
    BY <1>0, <1>1, PlanAssumption DEF cancel, RunTypes, loopVars, piVars
  <2>3. Pristine'
    BY <1>0, <1>1 DEF cancel, adapter_busy, Pristine, Without
  <2> QED BY <2>1, <2>2, <2>3, Parts
<1>2. CASE settle_cancelled_deadline
  <2>1. FilesInv' /\ UserInv'
    BY <1>0, <1>2, IdleStep DEF settle_cancelled_deadline, loopVars
  <2>2. RunTypes'
    BY <1>0, <1>2
       DEF settle_cancelled_deadline, RunTypes, loopVars, piVars
  <2>3. Pristine'
    BY <1>0, <1>2 DEF settle_cancelled_deadline, Pristine, Without
  <2> QED BY <2>1, <2>2, <2>3, Parts
<1>3. CASE settle_cancelled_idle
  <2>1. /\ cancelling /\ cancelling' = FALSE
        /\ UNCHANGED <<session, nav, approval, finishing, piRunning, settled,
                       wanted, may>>
    BY <1>3 DEF settle_cancelled_idle, loopVars
  <2>2. /\ FilesInv' /\ UserInv'
        /\ active' \in 0..MaxActive /\ agent_running' \in BOOLEAN
        /\ row' \in {"none", "client", "extension"}
        /\ sent' \in Requests \cup {None}
    <3>1. CASE active = 0
      BY <1>0, <1>3, <2>1, <3>1, DispatchStep DEF settle_cancelled_idle
    <3>2. CASE active # 0
      <4>1. /\ agent_running' = FALSE
            /\ UNCHANGED <<plan_mode, fileVars, active, row, sent>>
        BY <1>3, <3>2 DEF settle_cancelled_idle
      <4>2. FilesInv' /\ UserInv'
        BY <1>0, <2>1, <4>1, IdleStep
      <4> QED BY <1>0, <4>1, <4>2 DEF RunTypes
    <3> QED BY <3>1, <3>2
  <2>3. RunTypes'
    BY <1>0, <2>1, <2>2 DEF RunTypes
  <2>4. Pristine'
    BY <1>0, <2>1 DEF Pristine, Without
  <2> QED BY <2>2, <2>3, <2>4, Parts
<1> QED BY <1>1, <1>2, <1>3

\* agent_settled, both halves.
LEMMA SettledStep ==
  ASSUME IInv, agent_settled \/ agent_settled_finish
  PROVE  IInv'
<1>0. RunTypes /\ FilesInv /\ UserInv /\ Pristine
  BY Parts
<1>1. CASE agent_settled
  <2>1. /\ settled > 0 /\ settled' = settled - 1
        /\ agent_running' = FALSE /\ cancelling' = FALSE
        /\ plan_mode' = Tracker(complete_deferred_exit(plan_mode.snap))
        /\ UNCHANGED <<session, nav, approval, active, row, sent, piRunning,
                       wanted, may>>
    BY <1>1 DEF agent_settled
  <2>2. plan_mode.snap \in Snapshots /\ FlagIsActive(plan_mode.snap)
    BY <1>0 DEF FilesInv, FlagsActive, Trackers
  <2>3. FilesInv' /\ UserInv' /\ finishing' \in BOOLEAN
    <3>1. CASE plan_mode.snap.state # "ExitPending"
      <4>1. plan_mode' = plan_mode
        BY <1>0, <2>1, <3>1
           DEF complete_deferred_exit, Tracker, FilesInv, Trackers
      <4>2. finishing' = TRUE /\ UNCHANGED fileVars
        BY <1>1, <3>1 DEF agent_settled
      <4> QED BY <1>0, <2>1, <4>1, <4>2, IdleStep
    <3>2. CASE plan_mode.snap.state = "ExitPending"
      <4>1. PICK w \in Chains : /\ WriteFiles(plan_mode', w)
                                /\ finishing' = (w = Both)
        BY <1>1, <3>2 DEF agent_settled
      <4>2. /\ complete_deferred_exit(plan_mode.snap) \in Snapshots
            /\ FlagIsActive(complete_deferred_exit(plan_mode.snap))
            /\ On(complete_deferred_exit(plan_mode.snap))
                 <=> On(plan_mode.snap)
            /\ complete_deferred_exit(plan_mode.snap).awaiting_plan_approval
                 = plan_mode.snap.awaiting_plan_approval
        BY <2>2, Transitions, ModeAfter
      <4>3. FilesInv'
        BY <1>0, <2>1, <4>1, <4>2, WritesFacts, WriteStep
      <4>4. Neutral
        <5>1. /\ plan_mode'.file = plan_mode.file
              /\ plan_mode'.snap = complete_deferred_exit(plan_mode.snap)
          BY <1>0, <2>1, <4>2, TrackerFacts DEF FilesInv
        <5> QED BY <2>1, <4>2, <5>1 DEF Neutral
      <4> QED BY <1>0, <4>1, <4>3, <4>4, NeutralStep
    <3> QED BY <3>1, <3>2
  <2>4. RunTypes'
    <3>1. settled \in 0..MaxSettled
      BY <1>0 DEF RunTypes
    <3>2. settled' \in 0..MaxSettled
      BY <2>1, <3>1, PlanAssumption
    <3> QED BY <1>0, <2>1, <2>3, <3>2 DEF RunTypes
  <2>5. Pristine'
    <3>1. settled # 0
      BY <2>1
    <3> QED BY <1>0, <2>1, <3>1 DEF Pristine, Without
  <2> QED BY <2>3, <2>4, <2>5, Parts
<1>2. CASE agent_settled_finish
  <2>1. /\ finishing /\ finishing' = FALSE
        /\ UNCHANGED <<session, nav, approval, cancelling, piRunning, settled,
                       wanted, may>>
    BY <1>2 DEF agent_settled_finish
  <2>2. /\ FilesInv' /\ UserInv'
        /\ active' \in 0..MaxActive /\ agent_running' \in BOOLEAN
        /\ row' \in {"none", "client", "extension"}
        /\ sent' \in Requests \cup {None}
    <3>1. CASE ~agent_running /\ ~cancelling
      BY <1>0, <1>2, <2>1, <3>1, DispatchStep DEF agent_settled_finish
    <3>2. CASE ~(~agent_running /\ ~cancelling)
      <4>1. /\ active' = 0
            /\ UNCHANGED <<plan_mode, fileVars, agent_running, row, sent>>
        BY <1>2, <3>2 DEF agent_settled_finish
      <4>2. FilesInv' /\ UserInv'
        BY <1>0, <2>1, <4>1, IdleStep
      <4>3. active' \in 0..MaxActive
        BY <4>1, PlanAssumption
      <4> QED BY <1>0, <4>1, <4>2, <4>3 DEF RunTypes
    <3> QED BY <3>1, <3>2
  <2>3. RunTypes'
    BY <1>0, <2>1, <2>2 DEF RunTypes
  <2>4. Pristine'
    BY <1>0, <2>1 DEF Pristine, Without
  <2> QED BY <2>2, <2>3, <2>4, Parts
<1> QED BY <1>1, <1>2

\* request_plan_approval opens the dialog, or gives up with the flag unset.
LEMMA RequestStep ==
  ASSUME IInv, request_plan_approval
  PROVE  IInv'
<1>0. RunTypes /\ FilesInv /\ UserInv /\ Pristine
  BY Parts
<1> DEFINE s == [plan_mode.snap EXCEPT !.awaiting_plan_approval = TRUE]
<1>1. plan_mode.snap \in Snapshots /\ plan_mode.file \in Sessions
  BY <1>0 DEF FilesInv, Trackers
<1>2. s \in Snapshots /\ s.state = "Active" /\ FlagIsActive(s)
  BY <1>1 DEF request_plan_approval, IsActive, Snapshots, FlagIsActive
<1>3. PICK w \in Chains :
        /\ WriteFiles(Tracker(s), w)
        /\ IF w = Both
           THEN plan_mode' = Tracker(s) /\ approval' = plan_mode.file
           ELSE UNCHANGED <<plan_mode, approval>>
  BY DEF request_plan_approval
<1>4. /\ piRunning /\ IsActive(plan_mode.snap)
      /\ UNCHANGED <<session, nav, finishing, runVars, piVars, wanted, may>>
  BY DEF request_plan_approval
<1> HIDE DEF s
<1>5. /\ Tracker(s) \in Trackers /\ Tracker(s).file = plan_mode.file
      /\ Tracker(s).snap = s
  BY <1>0, <1>2, TrackerFacts DEF FilesInv
<1>6. FilesInv' /\ UserInv'
  <2>1. CASE w = Both
    <3>1. FilesInv'
      BY <1>0, <1>2, <1>3, <1>4, <2>1, WriteStep
    <3>2. On(plan_mode'.snap) /\ On(plan_mode.snap)
      BY <1>2, <1>3, <1>4, <1>5, <2>1 DEF On, IsActive
    <3>3. PlanModeFollowsUser'
      BY <1>0, <1>4, <3>2 DEF UserInv, PlanModeFollowsUser, Without, On
    <3>4. AwaitingWithinProgram'
      BY <1>3, <1>5, <2>1 DEF AwaitingWithinProgram, AwaitingIsOutstanding
    <3> QED BY <3>1, <3>3, <3>4 DEF UserInv
  <2>2. CASE w # Both
    <3>1. "write" \in may
      BY <2>2, WritesFacts DEF Without
    <3>2. UNCHANGED <<plan_mode, approval>>
      BY <1>3, <2>2
    <3>3. Neutral
      BY <1>4, <3>2 DEF Neutral, On
    <3>4. /\ saved' \in [Sessions -> Snapshots \cup {None}]
          /\ control' \in [active: BOOLEAN, file: Sessions \cup {None}]
          /\ FlagsActive'
      <4>1. saved' = IF "save" \in w
                     THEN [saved EXCEPT ![plan_mode.file] = s] ELSE saved
        BY <1>3, <1>5 DEF WriteFiles
      <4>2. saved' \in [Sessions -> Snapshots \cup {None}]
        BY <1>0, <1>1, <1>2, <4>1 DEF FilesInv
      <4>3. \A x \in Sessions : saved'[x] # None => FlagIsActive(saved'[x])
        BY <1>0, <1>1, <1>2, <4>1 DEF FilesInv, FlagsActive
      <4>4. control' \in [active: BOOLEAN, file: Sessions \cup {None}]
        BY <1>0, <1>1, <1>3, <1>5 DEF WriteFiles, FilesInv, Gate, IsActive
      <4> QED BY <1>0, <3>2, <4>2, <4>3, <4>4
           DEF FilesInv, FlagsActive, FlagIsActive, IsActive
    <3>5. GateMatches' /\ SavedFollows' /\ SavedActive'
      BY <1>4, <3>1 DEF GateMatches, SavedFollows, SavedActive, Without
    <3>6. StaysHere'
      BY <1>0, <1>4, <3>2 DEF FilesInv, StaysHere, Without
    <3> QED BY <1>0, <1>4, <3>2, <3>3, <3>4, <3>5, <3>6, NeutralStep
         DEF FilesInv
  <2> QED BY <2>1, <2>2
<1>7. approval' \in Sessions \cup {None}
  BY <1>0, <1>1, <1>3 DEF RunTypes
<1>8. RunTypes'
  BY <1>0, <1>4, <1>7 DEF RunTypes, runVars, piVars
<1>9. Pristine'
  BY <1>0, <1>4 DEF Pristine, Without
<1> QED BY <1>6, <1>8, <1>9, Parts

\* The user approves the plan, of whatever tracker is current.
LEMMA ApprovedStep ==
  ASSUME IInv, PlanApproved
  PROVE  IInv'
<1>0. RunTypes /\ FilesInv /\ UserInv /\ Pristine
  BY Parts
<1>1. plan_mode.snap \in Snapshots /\ FlagIsActive(plan_mode.snap)
  BY <1>0 DEF FilesInv, FlagsActive, Trackers
<1>2. /\ deactivate_approved(plan_mode.snap) \in Snapshots
      /\ ~deactivate_approved(plan_mode.snap).awaiting_plan_approval
      /\ On(deactivate_approved(plan_mode.snap))
           <=> plan_mode.snap.state = "Pending"
  BY <1>1, Transitions, ModeAfter
<1>3. FlagIsActive(deactivate_approved(plan_mode.snap))
  BY <1>2 DEF FlagIsActive
<1>4. /\ approval # None /\ approval' = None
      /\ plan_mode' = Tracker(deactivate_approved(plan_mode.snap))
      /\ wanted' = (wanted /\ ~IsActive(plan_mode.snap))
      /\ UNCHANGED <<session, nav, finishing, runVars, piVars, may>>
  BY DEF PlanApproved
<1>5. PICK w \in Writes : WriteFiles(plan_mode', w)
  BY DEF PlanApproved
<1>6. FilesInv'
  BY <1>0, <1>2, <1>3, <1>4, <1>5, WritesFacts, WriteStep
<1>7. UserInv'
  <2>1. plan_mode'.snap = deactivate_approved(plan_mode.snap)
    BY <1>0, <1>2, <1>4, TrackerFacts DEF FilesInv
  <2>2. AwaitingWithinProgram'
    BY <1>2, <2>1 DEF AwaitingWithinProgram, AwaitingIsOutstanding
  <2>3. On(plan_mode'.snap) <=> On(plan_mode.snap) /\ ~IsActive(plan_mode.snap)
    BY <1>2, <2>1 DEF On, IsActive
  <2>4. PlanModeFollowsUser'
    BY <1>0, <1>4, <2>3 DEF UserInv, PlanModeFollowsUser, Without, On
  <2> QED BY <2>2, <2>4 DEF UserInv
<1>8. RunTypes'
  BY <1>0, <1>4 DEF RunTypes, runVars, piVars
<1>9. Pristine'
  BY <1>0, <1>4 DEF Pristine, Without
<1> QED BY <1>6, <1>7, <1>8, <1>9, Parts

\* The user asks for changes, or the request fails.
LEMMA NotApprovedStep ==
  ASSUME IInv, NEW answered \in BOOLEAN, PlanNotApproved(answered)
  PROVE  IInv'
<1>0. RunTypes /\ FilesInv /\ UserInv /\ Pristine
  BY Parts
<1>1. plan_mode.snap \in Snapshots
  BY <1>0 DEF FilesInv, Trackers
<1> DEFINE s == [plan_mode.snap EXCEPT !.awaiting_plan_approval = FALSE]
<1>2. /\ s \in Snapshots /\ ~s.awaiting_plan_approval
      /\ s.state = plan_mode.snap.state
  BY <1>1 DEF Snapshots
<1>3. /\ approval # None /\ approval' = None
      /\ plan_mode' = Tracker(s)
      /\ UNCHANGED <<session, nav, finishing, runVars, piVars, wanted, may>>
  BY DEF PlanNotApproved
<1>4. PICK w \in SUBSET {"save"} : WriteFiles(plan_mode', w)
  <2>1. CASE answered
    <3>1. PICK v \in Writes : WriteFiles(plan_mode', v \ {"sync"})
      BY <2>1 DEF PlanNotApproved
    <3>2. v \ {"sync"} \in SUBSET {"save"}
      BY WritesFacts DEF Both
    <3> QED BY <3>1, <3>2
  <2>2. CASE ~answered
    <3>1. UNCHANGED fileVars
      BY <2>2 DEF PlanNotApproved
    <3>2. WriteFiles(plan_mode', {})
      BY <3>1 DEF WriteFiles, fileVars
    <3> QED BY <3>2
  <2> QED BY <2>1, <2>2
<1>5. FilesInv'
  BY <1>0, <1>3, <1>4, ClearFlagStep
<1>6. UserInv'
  <2>1. plan_mode'.snap = s
    BY <1>0, <1>2, <1>3, TrackerFacts DEF FilesInv
  <2>2. AwaitingWithinProgram'
    BY <1>2, <2>1 DEF AwaitingWithinProgram, AwaitingIsOutstanding
  <2>3. On(plan_mode'.snap) <=> On(plan_mode.snap)
    BY <1>2, <2>1 DEF On
  <2>4. PlanModeFollowsUser'
    BY <1>0, <1>3, <2>3 DEF UserInv, PlanModeFollowsUser, Without, On
  <2> QED BY <2>2, <2>4 DEF UserInv
<1>7. RunTypes'
  BY <1>0, <1>3 DEF RunTypes, runVars, piVars
<1>8. Pristine'
  BY <1>0, <1>3 DEF Pristine, Without
<1> QED BY <1>5, <1>6, <1>7, <1>8, Parts

\* A tracker that is loaded for the session that becomes current, by a load,
\* a fork or a restart: the files are in step but for the gate.
LEMMA LoadStep ==
  ASSUME FilesInv, NEW x \in Sessions, plan_mode' = load_plan_tracker(x),
         session' = x, saved' = saved, may' = may,
         control' \in [active: BOOLEAN, file: Sessions \cup {None}],
         nav' \in {"rebound", "loaded"}
  PROVE  FilesInv'
<1>1. /\ plan_mode' \in Trackers /\ plan_mode'.file = x
      /\ FlagIsActive(plan_mode'.snap)
      /\ saved[x] # None /\ saved[x].state = "Active"
           => IsActive(plan_mode'.snap)
  BY LoadFacts DEF FilesInv
<1>2. FlagsActive'
  BY <1>1 DEF FilesInv, FlagsActive, FlagIsActive, IsActive
<1>3. StaysHere' /\ GateMatches'
  BY <1>1 DEF StaysHere, GateMatches
<1>4. SavedFollows'
  <2>1. load_plan_tracker(plan_mode.file)' = plan_mode'
    BY <1>1 DEF load_plan_tracker
  <2> QED BY <2>1 DEF SavedFollows
<1>5. SavedActive'
  BY <1>1 DEF SavedActive, IsActive
<1> QED BY <1>1, <1>2, <1>3, <1>4, <1>5 DEF FilesInv

\* A change of session keeps the types of the run.
LEMMA ReplaceTypes ==
  ASSUME RunTypes, NEW x, replace_bootstrap(x) \/ sameSession
  PROVE  /\ row' \in {"none", "client", "extension"}
         /\ active' \in 0..MaxActive
         /\ agent_running' \in BOOLEAN
         /\ cancelling' \in BOOLEAN
         /\ sent' \in Requests \cup {None}
         /\ piRunning' \in BOOLEAN
         /\ settled' \in 0..MaxSettled
<1>1. CASE sameSession
  BY <1>1 DEF sameSession, RunTypes, runVars, piVars
<1>2. CASE replace_bootstrap(x)
  <2>1. settled \in 0..MaxSettled /\ settled' \in {settled} \cup
          IF piRunning /\ settled < MaxSettled THEN {settled + 1} ELSE {}
    BY <1>2 DEF replace_bootstrap, RunTypes
  <2>2. settled' = settled \/ (settled' = settled + 1 /\ settled < MaxSettled)
    <3>1. CASE piRunning /\ settled < MaxSettled
      BY <2>1, <3>1
    <3>2. CASE ~(piRunning /\ settled < MaxSettled)
      BY <2>1, <3>2
    <3> QED BY <3>1, <3>2
  <2>3. settled' \in 0..MaxSettled
    <3>1. settled \in 0..MaxSettled /\ MaxSettled \in Nat
      BY <2>1, PlanAssumption
    <3> HIDE <2>1
    <3> QED BY <2>2, <3>1
  <2> QED BY <1>2, <2>3 DEF replace_bootstrap, RunTypes
<1> QED BY <1>1, <1>2

\* new_session, its three stretches: only where the program leaves its
\* session or Pi vetoes it.
LEMMA NewSessionStep ==
  ASSUME IInv,
         \/ \E x \in Sessions : new_session(x)
         \/ new_session_tracker
         \/ new_session_publish
  PROVE  IInv'
<1>0. RunTypes /\ FilesInv /\ UserInv /\ Pristine
  BY Parts
<1>1. ~Without({"switch", "veto"}) /\ may' = may
  <2>1. CASE \E x \in Sessions : new_session(x)
    BY <2>1 DEF new_session, Without
  <2>2. CASE new_session_tracker \/ new_session_publish
    BY <1>0, <2>2
       DEF new_session_tracker, new_session_publish, FilesInv, StaysHere
  <2> QED BY <2>1, <2>2
<1>2. Pristine' /\ UserInv' /\ StaysHere' /\ SavedActive'
  BY <1>1 DEF Pristine, UserInv, StaysHere, SavedActive, PlanModeFollowsUser,
              AwaitingWithinProgram, Without, Trouble
<1>3. CASE \E x \in Sessions : new_session(x)
  <2>1. PICK x \in Sessions : new_session(x)
    BY <1>3
  <2>2. /\ nav' = "reset"
        /\ UNCHANGED <<plan_mode, saved, control, approval, finishing, wanted,
                       may>>
        /\ replace_bootstrap(x) \/ sameSession
    BY <2>1 DEF new_session, fileVars, loopVars
  <2>3. session' \in Sessions
    BY <1>0, <2>2 DEF replace_bootstrap, sameSession, FilesInv
  <2>4. FilesInv'
    BY <1>0, <1>2, <2>2, <2>3
       DEF FilesInv, FlagsActive, GateMatches, SavedFollows
  <2>5. RunTypes'
    BY <1>0, <2>2, ReplaceTypes DEF RunTypes
  <2> QED BY <1>2, <2>4, <2>5, Parts
<1>4. CASE new_session_tracker
  <2>1. /\ nav' = "persist"
        /\ plan_mode' = [file |-> session, snap |-> FreshSnapshot]
        /\ UNCHANGED <<saved, control, session, approval, finishing, runVars,
                       piVars, wanted, may>>
    BY <1>4 DEF new_session_tracker, fileVars, loopVars
  <2>2. plan_mode' \in Trackers /\ FlagIsActive(plan_mode'.snap)
    BY <1>0, <2>1 DEF FilesInv, Trackers, FreshSnapshot, Snapshots, States,
                      FlagIsActive
  <2>3. FilesInv'
    BY <1>0, <1>2, <2>1, <2>2
       DEF FilesInv, FlagsActive, FlagIsActive, IsActive, GateMatches,
           SavedFollows
  <2>4. RunTypes'
    BY <1>0, <2>1 DEF RunTypes, runVars, piVars
  <2> QED BY <1>2, <2>3, <2>4, Parts
<1>5. CASE new_session_publish
  <2>1. /\ nav' = "none"
        /\ UNCHANGED <<plan_mode, session, approval, finishing, runVars,
                       piVars, wanted, may>>
    BY <1>5 DEF new_session_publish, loopVars
  <2>2. PICK w \in Chains : WriteFiles(plan_mode, w)
    BY <1>5 DEF new_session_publish
  <2>3. plan_mode = Tracker(plan_mode.snap)
    BY <1>0 DEF FilesInv, Tracker, Trackers
  <2>4. plan_mode.snap \in Snapshots /\ FlagIsActive(plan_mode.snap)
    BY <1>0 DEF FilesInv, FlagsActive, Trackers
  <2>5. plan_mode' = Tracker(plan_mode.snap) /\ WriteFiles(plan_mode', w)
    BY <2>1, <2>2, <2>3
  <2>6. FilesInv'
    BY <1>0, <1>1, <2>1, <2>4, <2>5, WritesFacts, WriteStep
  <2>7. RunTypes'
    BY <1>0, <2>1 DEF RunTypes, runVars, piVars
  <2> QED BY <1>2, <2>6, <2>7, Parts
<1> QED BY <1>3, <1>4, <1>5

\* load_session: the tracker of the sidecar, or an error.
LEMMA LoadSessionStep ==
  ASSUME IInv, NEW x \in Sessions, load_session(x)
  PROVE  IInv'
<1>0. RunTypes /\ FilesInv /\ UserInv /\ Pristine
  BY Parts
<1>1. /\ \/ x = session /\ (nav = "rebound" \/ "switch" \in may)
            /\ sameSession
         \/ "switch" \in may /\ replace_bootstrap(x)
      /\ UNCHANGED <<saved, control, approval, finishing, wanted, may>>
  BY DEF load_session, fileVars, loopVars
<1>2. session' = x
  BY <1>1 DEF replace_bootstrap, sameSession
<1>3. CASE plan_mode' = load_plan_tracker(x) /\ nav' = "loaded"
  <2>1. FilesInv'
    BY <1>0, <1>1, <1>2, <1>3, LoadStep DEF FilesInv
  <2>2. On(plan_mode'.snap) <=> saved[x] # None /\ saved[x].state = "Active"
    BY <1>0, <1>3, LoadFacts DEF FilesInv
  <2>3. PlanModeFollowsUser'
    <3> SUFFICES ASSUME Without({"write", "switch", "veto"})
                 PROVE  /\ On(plan_mode'.snap) => wanted
                        /\ wanted /\ Without({"restart"})
                             => On(plan_mode'.snap)
      BY <1>1 DEF PlanModeFollowsUser, Without, On
    <3>1. x = session /\ nav = "rebound"
      BY <1>1 DEF Without
    <3>2. On(plan_mode'.snap) => IsActive(plan_mode.snap)
      BY <1>0, <2>2, <3>1 DEF FilesInv, SavedActive
    <3>3. IsActive(plan_mode.snap) => wanted
      BY <1>0 DEF UserInv, PlanModeFollowsUser, On, IsActive
    <3>4. Without({"restart"}) => ~wanted
      BY <1>0, <3>1 DEF Pristine, Without, Trouble
    <3> QED BY <3>2, <3>3, <3>4
  <2>4. AwaitingWithinProgram'
    <3> SUFFICES ASSUME Without(Trouble)
                 PROVE  ~plan_mode'.snap.awaiting_plan_approval
      BY <1>1 DEF AwaitingWithinProgram, AwaitingIsOutstanding, Without,
                  Trouble
    <3>1. nav = "rebound"
      BY <1>1 DEF Without, Trouble
    <3>2. saved[x] = None
      BY <1>0, <3>1 DEF Pristine
    <3>3. plan_mode'.snap = FreshSnapshot
      BY <1>3, <3>2 DEF load_plan_tracker
    <3> QED BY <3>3 DEF FreshSnapshot
  <2>5. RunTypes'
    BY <1>0, <1>1, <1>3, ReplaceTypes DEF RunTypes
  <2>6. Pristine'
    BY <1>3 DEF Pristine
  <2> QED BY <2>1, <2>3, <2>4, <2>5, <2>6, Parts DEF UserInv
<1>4. CASE UNCHANGED <<plan_mode, nav>>
  <2>1. CASE "switch" \in may
    <3>1. Pristine' /\ UserInv' /\ StaysHere' /\ SavedActive'
      BY <1>1, <2>1
         DEF Pristine, UserInv, StaysHere, SavedActive, PlanModeFollowsUser,
             AwaitingWithinProgram, Without, Trouble
    <3>2. GateMatches' /\ SavedFollows' /\ FlagsActive'
      BY <1>0, <1>1, <1>4
         DEF FilesInv, GateMatches, SavedFollows, FlagsActive, Without,
             load_plan_tracker
    <3>3. FilesInv'
      BY <1>0, <1>1, <1>2, <1>4, <3>1, <3>2 DEF FilesInv
    <3>4. RunTypes'
      BY <1>0, <1>1, <1>4, ReplaceTypes DEF RunTypes
    <3> QED BY <3>1, <3>3, <3>4, Parts
  <2>2. CASE "switch" \notin may
    <3>1. sameSession
      BY <1>1, <2>2
    <3>2. UNCHANGED <<plan_mode, saved, control, session, nav, approval,
                      finishing, runVars, piVars, wanted, may>>
      BY <1>1, <1>4, <3>1 DEF sameSession
    <3>3. FilesInv' /\ UserInv'
      BY <1>0, <3>2, IdleStep DEF fileVars
    <3>4. RunTypes'
      BY <1>0, <3>2 DEF RunTypes, runVars, piVars
    <3>5. Pristine'
      BY <1>0, <3>2 DEF Pristine, Without, runVars, piVars
    <3> QED BY <3>3, <3>4, <3>5, Parts
  <2> QED BY <2>1, <2>2
<1> QED BY <1>3, <1>4 DEF load_session

\* load_session publishes the gate of the tracker it loaded.
LEMMA LoadPublishStep ==
  ASSUME IInv, load_session_publish
  PROVE  IInv'
<1>0. RunTypes /\ FilesInv /\ UserInv /\ Pristine
  BY Parts
<1>1. /\ nav = "loaded" /\ nav' = "none"
      /\ UNCHANGED <<plan_mode, session, approval, finishing, runVars, piVars,
                     wanted, may>>
  BY DEF load_session_publish, loopVars
<1>2. /\ saved' = saved
      /\ control' = Gate(plan_mode) \/ control' = control
      /\ Without({"write", "replay"}) => control' = Gate(plan_mode)
  <2>1. CASE \E w \in Writes : WriteFiles(plan_mode, w \ {"save"})
    BY <2>1, WritesFacts DEF WriteFiles, Without, Both
  <2>2. CASE "replay" \in may /\ UNCHANGED fileVars
    BY <2>2 DEF Without, fileVars
  <2> QED BY <2>1, <2>2 DEF load_session_publish
<1>3. FilesInv'
  <2>1. Gate(plan_mode) \in [active: BOOLEAN, file: Sessions \cup {None}]
    BY <1>0 DEF FilesInv, Gate, IsActive, Trackers
  <2>2. GateMatches'
    BY <1>1, <1>2 DEF GateMatches, Without, Gate
  <2>3. SavedFollows' /\ SavedActive' /\ StaysHere' /\ FlagsActive'
    BY <1>0, <1>1, <1>2
       DEF FilesInv, SavedFollows, SavedActive, StaysHere, FlagsActive,
           Without, load_plan_tracker
  <2> QED BY <1>0, <1>1, <1>2, <2>1, <2>2, <2>3 DEF FilesInv
<1>4. Neutral
  BY <1>1 DEF Neutral, On
<1>5. UserInv'
  BY <1>0, <1>4, NeutralStep
<1>6. RunTypes'
  BY <1>0, <1>1 DEF RunTypes, runVars, piVars
<1>7. Pristine'
  BY <1>1 DEF Pristine
<1> QED BY <1>3, <1>5, <1>6, <1>7, Parts

\* A fork, and the restart of the program.
LEMMA ReboundStep ==
  ASSUME IInv, (\E x \in Sessions : fork(x)) \/ restart
  PROVE  IInv'
<1>0. RunTypes /\ FilesInv /\ UserInv /\ Pristine
  BY Parts
<1>1. CASE \E x \in Sessions : fork(x)
  <2>1. PICK x \in Sessions : fork(x)
    BY <1>1
  <2>2. /\ "switch" \in may /\ replace_bootstrap(x) /\ session' = x
        /\ plan_mode' = load_plan_tracker(x) /\ nav' = "rebound"
        /\ UNCHANGED <<saved, control, approval, finishing, wanted, may>>
    BY <2>1 DEF fork, replace_bootstrap, fileVars, loopVars
  <2>3. FilesInv'
    BY <1>0, <2>2, LoadStep DEF FilesInv
  <2>4. UserInv' /\ Pristine'
    BY <2>2 DEF UserInv, Pristine, PlanModeFollowsUser,
                AwaitingWithinProgram, Without, Trouble
  <2>5. RunTypes'
    BY <1>0, <2>2, ReplaceTypes DEF RunTypes
  <2> QED BY <2>3, <2>4, <2>5, Parts
<1>2. CASE restart
  <2>1. /\ "restart" \in may /\ plan_mode' = load_plan_tracker(session)
        /\ control' = [active |-> FALSE, file |-> None]
        /\ nav' = "rebound" /\ approval' = None
        /\ UNCHANGED <<saved, session, wanted, may>>
    BY <1>2 DEF restart
  <2>2. FilesInv'
    BY <1>0, <2>1, LoadStep DEF FilesInv
  <2>3. On(plan_mode'.snap) <=>
          saved[session] # None /\ saved[session].state = "Active"
    BY <1>0, <2>1, LoadFacts DEF FilesInv
  <2>4. PlanModeFollowsUser'
    <3> SUFFICES ASSUME Without({"write", "switch", "veto"})
                 PROVE  On(plan_mode'.snap) => wanted
      BY <2>1 DEF PlanModeFollowsUser, Without, On
    <3>1. On(plan_mode'.snap) => IsActive(plan_mode.snap)
      BY <1>0, <2>3 DEF FilesInv, SavedActive
    <3>2. IsActive(plan_mode.snap) => wanted
      BY <1>0 DEF UserInv, PlanModeFollowsUser, On, IsActive
    <3> QED BY <3>1, <3>2
  <2>5. AwaitingWithinProgram' /\ Pristine'
    BY <2>1 DEF AwaitingWithinProgram, Pristine, Without, Trouble
  <2>6. 0 \in 0..MaxActive /\ 0 \in 0..MaxSettled
    BY PlanAssumption
  <2>7. RunTypes'
    BY <1>0, <1>2, <2>6 DEF restart, RunTypes
  <2> QED BY <2>2, <2>4, <2>5, <2>7, Parts DEF UserInv
<1> QED BY <1>1, <1>2

\* Pi answers a prompt and ends its turn.
LEMMA PiStep ==
  ASSUME IInv, PiAccepts \/ PiRefuses \/ PiSettles
  PROVE  IInv'
<1>0. RunTypes /\ FilesInv /\ UserInv /\ Pristine
  BY Parts
<1>1. /\ UNCHANGED <<plan_mode, fileVars, session, nav, approval, finishing,
                     wanted, may>>
      /\ sent # None \/ piRunning
  BY DEF PiAccepts, PiRefuses, PiSettles, loopVars
<1>2. FilesInv' /\ UserInv'
  BY <1>0, <1>1, IdleStep
<1>3. Pristine'
  BY <1>0, <1>1 DEF Pristine, Without
<1>4. active \in 0..MaxActive /\ settled \in 0..MaxSettled
      /\ MaxActive \in Nat /\ MaxSettled \in Nat
  BY <1>0, PlanAssumption DEF RunTypes
<1>5. active' \in 0..MaxActive
  <2>1. CASE PiRefuses
    BY <1>4, <2>1 DEF PiRefuses
  <2>2. CASE PiAccepts \/ PiSettles
    <3>1. active' = active
      BY <2>2 DEF PiAccepts, PiSettles, runVars
    <3> QED BY <1>4, <3>1
  <2> QED BY <2>1, <2>2
<1>6. settled' \in 0..MaxSettled
  <2>1. CASE PiSettles
    BY <1>4, <2>1 DEF PiSettles
  <2>2. CASE PiAccepts \/ PiRefuses
    <3>1. settled' = settled
      BY <2>2 DEF PiAccepts, PiRefuses
    <3> QED BY <1>4, <3>1
  <2> QED BY <2>1, <2>2
<1>7. /\ row' = row /\ cancelling' = cancelling
      /\ agent_running' \in BOOLEAN /\ piRunning' \in BOOLEAN
      /\ sent' \in Requests \cup {None}
  BY <1>0 DEF PiAccepts, PiRefuses, PiSettles, runVars, RunTypes
<1>8. RunTypes'
  BY <1>0, <1>1, <1>5, <1>6, <1>7 DEF RunTypes
<1> QED BY <1>2, <1>3, <1>8, Parts

(***************************************************************************)
(* The theorems.                                                           *)
(***************************************************************************)
\* The program starts in the invariant.
LEMMA InitHolds == Init => IInv
<1> SUFFICES ASSUME Init PROVE IInv
  OBVIOUS
<1> USE DEF Init
<1>1. FreshSnapshot \in Snapshots /\ FlagIsActive(FreshSnapshot)
      /\ ~On(FreshSnapshot) /\ ~FreshSnapshot.awaiting_plan_approval
  BY DEF FreshSnapshot, Snapshots, States, FlagIsActive, On
<1>2. RunTypes
  <2>1. 0 \in 0..MaxActive /\ 0 \in 0..MaxSettled
    BY PlanAssumption
  <2> QED BY <2>1 DEF RunTypes
<1>3. Pristine
  BY DEF Pristine
<1>4. /\ plan_mode \in Trackers /\ plan_mode.file = Start
      /\ plan_mode.snap = FreshSnapshot
  BY <1>1, PlanAssumption DEF Trackers
<1>5. FilesInv
  <2>1. load_plan_tracker(plan_mode.file).snap = FreshSnapshot
    BY <1>4, PlanAssumption DEF load_plan_tracker
  <2>2. SavedFollows
    BY <1>4, <2>1 DEF SavedFollows
  <2>3. SavedActive /\ StaysHere /\ GateMatches /\ FlagsActive
    BY <1>1, <1>4, PlanAssumption
       DEF SavedActive, StaysHere, GateMatches, FlagsActive
  <2> QED BY <1>4, <2>2, <2>3, PlanAssumption DEF FilesInv
<1>6. UserInv
  BY <1>1, <1>4 DEF UserInv, PlanModeFollowsUser, AwaitingWithinProgram,
                    AwaitingIsOutstanding
<1> QED BY <1>2, <1>3, <1>5, <1>6, Parts

\* Every step keeps the invariant.
LEMMA StepHolds == IInv /\ [Next]_vars => IInv'
<1> SUFFICES ASSUME IInv, [Next]_vars PROVE IInv'
  OBVIOUS
<1>1. CASE UNCHANGED vars
  <2>0. RunTypes /\ FilesInv /\ UserInv /\ Pristine
    BY Parts
  <2>1. FilesInv' /\ UserInv'
    BY <1>1, <2>0, IdleStep DEF vars, loopVars
  <2>2. RunTypes' /\ Pristine'
    BY <1>1, <2>0 DEF vars, RunTypes, Pristine, Without, fileVars, loopVars,
                      runVars, piVars
  <2> QED BY <2>1, <2>2, Parts
<1>2. CASE Next
  BY <1>2, SetModeStep, PromptStep, PromptQueuedStep, ExtensionStep,
     InterjectStep, CancelStep, SettledStep, RequestStep, ApprovedStep,
     NotApprovedStep, NewSessionStep, LoadSessionStep, LoadPublishStep,
     ReboundStep, PiStep DEF Next
<1> QED BY <1>1, <1>2

\* The inductive invariant holds in every reachable state.
LEMMA Invariance == Spec => []IInv
BY InitHolds, StepHolds, PTL DEF Spec

\* Every variable keeps its type.
THEOREM TypeCorrect == Spec => []TypeOK
<1>1. IInv => TypeOK
  BY DEF IInv
<1> QED BY <1>1, Invariance, PTL

\* sync_plan_mode_control keeps the gate inside Pi in step with the tracker,
\* for any sessions and in any world that can write its files.
THEOREM GateInStep == Spec => []GateMatches
<1>1. IInv => GateMatches
  BY DEF IInv, FilesInv
<1> QED BY <1>1, Invariance, PTL

\* persist_plan_mode_state keeps the sidecar in step: a restart between
\* navigations resumes the tracker.
THEOREM SidecarInStep == Spec => []RestartFaithful
<1>1. IInv => RestartFaithful
  BY DEF IInv, FilesInv, SavedFollows, RestartFaithful
<1> QED BY <1>1, Invariance, PTL

\* Plan mode is what the user decided last, through prompts, deferred exits,
\* cancellations, dialogs answered late and restarts.
THEOREM UserDecides == Spec => []PlanModeFollowsUser
<1>1. IInv => PlanModeFollowsUser
  BY DEF IInv, UserInv
<1> QED BY <1>1, Invariance, PTL

\* The approval flag stands for an open dialog while the program runs.
THEOREM FlagHasDialog == Spec => []AwaitingWithinProgram
<1>1. IInv => AwaitingWithinProgram
  BY DEF IInv, UserInv
<1> QED BY <1>1, Invariance, PTL
=============================================================================
