---------------------------- MODULE SessionSwitch ----------------------------
(***************************************************************************)
(* Changing the Pi session: session/load and session/new of the adapter,   *)
(* with the buffer that holds back the subagent events of the session that *)
(* is being loaded (PendingSubagentBridge) and the filter of their         *)
(* sequence numbers.                                                       *)
(*                                                                         *)
(* Pi and its extension write events into one channel that the event loop  *)
(* reads; every session/load is a task of its own.  One action is one      *)
(* stretch between two awaits.  A session has one subagent.                *)
(***************************************************************************)
EXTENDS Naturals, Sequences

CONSTANTS
  Sessions,
  Start,    \* the session the program starts with
  None,
  Loads,    \* session/load requests that may overlap
  Records,  \* [Sessions -> events that Pi replays when it opens a session]
  Scenarios \* what the outside world may do, and how often

\* fail: Pi fails or cancels a switch; read: the plan sidecar cannot be read;
\* replay: replaying the history fails; live: subagents also work while a
\* session is being loaded; new: the user creates sessions; overlap: requests
\* do not wait for each other.  The bounds are the switches that are started
\* and the live events of subagents.
Liberties == {"fail", "read", "replay", "live", "new", "overlap"}

ASSUME SwitchAssumption ==
  /\ Start \in Sessions
  /\ None \notin Sessions
  /\ Records \in [Sessions -> Nat]
  /\ Scenarios \subseteq
       [may: SUBSET Liberties, switches: Nat, reports: Nat]

VARIABLES
  session,   \* acp_session_id and bootstrap.state.session_id
  piSession, \* the session Pi has open
  target,    \* pending_subagent_bridge.target_session_id
  events,    \* pending_subagent_bridge.events
  seen,      \* subagent_bridge_sequences
  load,      \* [Loads -> the state of a session/load]
  creating,  \* session/new waits for its bootstrap
  channel,   \* events that the event loop has not taken
  sequence,  \* number of the extension's last event
  shown,     \* events projected to the pager (history)
  owed,      \* events of the session Pi has open, since it opened it (history)
  left,      \* switches and reports that the bounds still allow
  may        \* the world's liberties

bridgeVars == <<target, events>>
filterVars == <<seen, shown>>
piVars == <<piSession, channel, sequence, owed>>
vars == <<session, bridgeVars, filterVars, load, creating, piVars, left, may>>

\* Events that the extension may have emitted when its number was n.
Events(n) == [parent: Sessions, seq: 1..n, replay: BOOLEAN]

\* switching: switch_session is sent; switched: Pi accepted it and the
\* bootstrap is awaited; replaying: the history is; draining: the deferred
\* events are handled one by one.
LoadStates == {"idle", "switching", "switched", "replaying", "draining"}
LoadRecords(n) == [pc: LoadStates, want: Sessions, drain: Seq(Events(n))]

\* Nothing is ahead of the extension, the sequence filter included.
TypeOK ==
  /\ sequence \in Nat
  /\ session \in Sessions
  /\ piSession \in Sessions
  /\ target \in Sessions \cup {None}
  /\ events \in Seq(Events(sequence))
  /\ seen \in [Sessions -> 0..sequence]
  /\ load \in [Loads -> LoadRecords(sequence)]
  /\ creating \in BOOLEAN
  /\ channel \in Seq(Events(sequence))
  /\ shown \in Seq(Events(sequence))
  /\ owed \subseteq Events(sequence)
  /\ left \in [switches: Nat, reports: Nat]
  /\ may \subseteq Liberties
----------------------------------------------------------------------------
(***************************************************************************)
(* One subagent event.                                                     *)
(***************************************************************************)
\* Slip: the filter remembers the number it expects next.
accept_subagent_bridge_sequence_next(e) ==
  seen' = [seen EXCEPT ![e.parent] = IF e.seq < @ THEN @ ELSE e.seq + 1]

accept_subagent_bridge_sequence(e) ==
  seen' = [seen EXCEPT ![e.parent] = IF e.seq < @ THEN @ ELSE e.seq]

Stale(e) == ~e.replay /\ e.seq <= seen[e.parent]

Project(e) ==
  IF Stale(e) THEN UNCHANGED filterVars
  ELSE accept_subagent_bridge_sequence(e) /\ shown' = Append(shown, e)

\* Slip: an event of the target is checked against the active session.
handle_subagent_bridge_message_live(e) ==
  IF e.parent = session THEN Project(e) /\ UNCHANGED events
  ELSE UNCHANGED <<events, filterVars>>

\* defer_if_targeted; parse_bridge_message fails on another session's event.
handle_subagent_bridge_message(e) ==
  CASE e.parent = target ->
         events' = Append(events, e) /\ UNCHANGED filterVars
    [] e.parent # target /\ e.parent = session ->
         Project(e) /\ UNCHANGED events
    [] OTHER -> UNCHANGED <<events, filterVars>>

\* The event loop takes an event; an error is logged.
handle_event ==
  /\ channel # <<>>
  /\ channel' = Tail(channel)
  /\ handle_subagent_bridge_message(Head(channel))
  /\ UNCHANGED <<session, target, load, creating, piSession, sequence, owed,
                 left, may>>
----------------------------------------------------------------------------
(***************************************************************************)
(* session/load.                                                           *)
(***************************************************************************)
Idle == [pc |-> "idle", want |-> Start, drain |-> <<>>]
AllIdle == ~creating /\ \A t \in Loads : load[t].pc = "idle"
MayStart == AllIdle \/ "overlap" \in may
Goto(t, pc) == load' = [load EXCEPT ![t].pc = pc]
Return(t) == load' = [load EXCEPT ![t] = Idle]

abandon(x) ==
  IF target = x THEN target' = None /\ events' = <<>>
  ELSE UNCHANGED bridgeVars

\* switch_session up to its request.  begin fails while a transition is
\* pending, and the load with it.
switch_session(t, x) ==
  /\ MayStart
  /\ load[t].pc = "idle"
  /\ x # session
  /\ target = None
  /\ left.switches > 0
  /\ left' = [left EXCEPT !.switches = @ - 1]
  /\ target' = x
  /\ events' = <<>>
  /\ load' = [load EXCEPT ![t] = [Idle EXCEPT !.pc = "switching",
                                              !.want = x]]
  /\ UNCHANGED <<session, filterVars, creating, piVars, may>>

\* The tracker of session x is read and the replay starts; a sidecar that
\* cannot be read ends the load and leaves the transition pending.
StartReplay(t, x) ==
  \/ load' = [load EXCEPT ![t] = [Idle EXCEPT !.pc = "replaying",
                                              !.want = x]]
  \/ "read" \in may /\ Return(t)

\* session/load of the active session.
load_active(t) ==
  /\ MayStart
  /\ load[t].pc = "idle"
  /\ StartReplay(t, session)
  /\ UNCHANGED <<session, bridgeVars, filterVars, creating, piVars, left, may>>

\* Pi opens the session: its extension replays the records of the session
\* before the response goes out.
Replayed(x) == [i \in 1..Records[x] |->
                  [parent |-> x, seq |-> sequence + i, replay |-> TRUE]]
PiSwitches(t) ==
  /\ load[t].pc = "switching"
  /\ LET x == load[t].want IN
     /\ piSession' = x
     /\ sequence' = sequence + Records[x]
     /\ channel' = channel \o Replayed(x)
     /\ owed' = {Replayed(x)[i] : i \in 1..Records[x]}
  /\ Goto(t, "switched")
  /\ UNCHANGED <<session, bridgeVars, filterVars, creating, left, may>>

\* Slip: a cancelled switch leaves the transition pending.
PiRefuses_pending(t) ==
  /\ "fail" \in may
  /\ load[t].pc = "switching"
  /\ Return(t)
  /\ UNCHANGED <<session, bridgeVars, filterVars, creating, piVars, left, may>>

\* switch_session ends with an error, or cancelled by Pi.
PiRefuses(t) ==
  /\ "fail" \in may
  /\ load[t].pc = "switching"
  /\ abandon(load[t].want)
  /\ Return(t)
  /\ UNCHANGED <<session, filterVars, creating, piVars, left, may>>

\* The bootstrap names the session Pi has open.
bootstrap_loaded(t) ==
  /\ load[t].pc = "switched"
  /\ piSession = load[t].want
  /\ session' = piSession
  /\ StartReplay(t, piSession)
  /\ UNCHANGED <<bridgeVars, filterVars, creating, piVars, left, may>>

\* ... or another one, or it cannot be loaded.
bootstrap_failed(t) ==
  /\ load[t].pc = "switched"
  /\ piSession # load[t].want \/ "fail" \in may
  /\ abandon(load[t].want)
  /\ Return(t)
  /\ UNCHANGED <<session, filterVars, creating, piVars, left, may>>

\* Slip: the error path of the replay forgets the transition.
replay_failed_pending(t) ==
  /\ "replay" \in may
  /\ load[t].pc = "replaying"
  /\ Return(t)
  /\ UNCHANGED <<session, bridgeVars, filterVars, creating, piVars, left, may>>

replay_failed(t) ==
  /\ "replay" \in may
  /\ load[t].pc = "replaying"
  /\ abandon(load[t].want)
  /\ Return(t)
  /\ UNCHANGED <<session, filterVars, creating, piVars, left, may>>

\* Slip: the deferred events are read and the transition is not cleared.
commit_if_target_kept(t) ==
  /\ load[t].pc = "replaying"
  /\ IF target = load[t].want
     THEN load' = [load EXCEPT ![t].pc = "draining", ![t].drain = events]
     ELSE Return(t)
  /\ UNCHANGED <<session, bridgeVars, filterVars, creating, piVars, left, may>>

\* The replay and the publications after it are done; the load fails if a
\* transition to another session is pending.
commit_if_target(t) ==
  /\ load[t].pc = "replaying"
  /\ IF target = load[t].want
     THEN /\ load' = [load EXCEPT ![t].pc = "draining", ![t].drain = events]
          /\ target' = None
          /\ events' = <<>>
     ELSE Return(t) /\ UNCHANGED bridgeVars
  /\ UNCHANGED <<session, filterVars, creating, piVars, left, may>>

\* One deferred event; an event of a session that was left fails the load.
drain(t) ==
  /\ load[t].pc = "draining"
  /\ load[t].drain # <<>>
  /\ LET e == Head(load[t].drain) IN
     /\ handle_subagent_bridge_message(e)
     /\ IF e.parent \in {target, session}
        THEN load' = [load EXCEPT ![t].drain = Tail(@)] ELSE Return(t)
  /\ UNCHANGED <<session, target, creating, piVars, left, may>>

load_ends(t) ==
  /\ load[t].pc = "draining"
  /\ load[t].drain = <<>>
  /\ Return(t)
  /\ UNCHANGED <<session, bridgeVars, filterVars, creating, piVars, left, may>>
----------------------------------------------------------------------------
(***************************************************************************)
(* session/new, and the subagents.                                         *)
(***************************************************************************)
new_session(x) ==
  /\ "new" \in may
  /\ MayStart
  /\ ~creating
  /\ x # piSession
  /\ Records[x] = 0
  /\ creating' = TRUE
  /\ piSession' = x
  /\ owed' = {}
  /\ UNCHANGED <<session, bridgeVars, filterVars, load, channel, sequence,
                 left, may>>

new_session_refreshed ==
  /\ creating
  /\ creating' = FALSE
  /\ session' = piSession
  /\ UNCHANGED <<bridgeVars, filterVars, load, piVars, left, may>>

\* A subagent of the session that is open, or was until the switch, reports:
\* a child that is aborted when its session is left reports its end later,
\* when the session may be open again.  A new session has no subagent yet.
Report(x) ==
  /\ AllIdle \/ "live" \in may
  /\ left.reports > 0
  /\ x = session \/ (x = piSession /\ ~creating)
  /\ left' = [left EXCEPT !.reports = @ - 1]
  /\ sequence' = sequence + 1
  /\ LET e == [parent |-> x, seq |-> sequence', replay |-> FALSE] IN
     /\ channel' = Append(channel, e)
     /\ owed' = IF x = piSession THEN owed \cup {e} ELSE owed
  /\ UNCHANGED <<session, bridgeVars, filterVars, load, creating, piSession,
                 may>>
----------------------------------------------------------------------------
Init ==
  /\ session = Start
  /\ piSession = Start
  /\ target = None
  /\ events = <<>>
  /\ seen = [x \in Sessions |-> 0]
  /\ load = [t \in Loads |-> Idle]
  /\ creating = FALSE
  /\ channel = <<>>
  /\ sequence = 0
  /\ shown = <<>>
  /\ owed = {}
  /\ \E s \in Scenarios :
       /\ may = s.may
       /\ left = [switches |-> s.switches, reports |-> s.reports]

LoadNext(t) ==
  \/ \E x \in Sessions : switch_session(t, x)
  \/ load_active(t)
  \/ PiSwitches(t)
  \/ PiRefuses(t)
  \/ bootstrap_loaded(t)
  \/ bootstrap_failed(t)
  \/ replay_failed(t)
  \/ commit_if_target(t)
  \/ drain(t)
  \/ load_ends(t)

Next ==
  \/ handle_event
  \/ \E t \in Loads : LoadNext(t)
  \/ \E x \in Sessions : new_session(x) \/ Report(x)
  \/ new_session_refreshed

Spec == Init /\ [][Next]_vars

\* Tasks run on and Pi answers, if only with an error.
Fairness ==
  /\ WF_vars(handle_event)
  /\ \A t \in Loads :
       /\ WF_vars(PiSwitches(t) \/ PiRefuses(t))
       /\ WF_vars(bootstrap_loaded(t) \/ bootstrap_failed(t))
       /\ WF_vars(commit_if_target(t) \/ replay_failed(t))
       /\ WF_vars(drain(t) \/ load_ends(t))
FairSpec == Spec /\ Fairness
----------------------------------------------------------------------------
Without(faults) == may \cap faults = {}

\* Some task will end a pending transition, by committing it or by
\* abandoning it on each of its error paths: else begin would refuse every
\* later switch.  (The tracker's read error is the path without abandon.)
TransitionOwned ==
  Without({"read"}) /\ target # None =>
    \E t \in Loads : /\ load[t].want = target
                     /\ load[t].pc \in {"switching", "switched", "replaying"}

\* What the buffer is for: once the program is at rest on the session Pi has
\* open, all subagent events of that session, its replay included, have
\* reached the pager, whichever switches failed before.  Only a live event
\* may be missing, one that a newer event overtook while the load was still
\* handing out the deferred ones.
ReplayDelivered ==
  AllIdle /\ channel = <<>> /\ session = piSession
    /\ Without({"read", "replay", "overlap"})
  => \A e \in owed :
       \/ \E i \in 1..Len(shown) : shown[i] = e
       \/ ~e.replay /\ e.seq < seen[e.parent]

\* No event is shown twice, though it may be deferred, handed out and deferred
\* again by a later load, and a replayed event passes the sequence filter.
ShownOnce ==
  \A i, j \in 1..Len(shown) : shown[i] = shown[j] => i = j

\* A transition ends, so the user can switch again.
TransitionEnds ==
  Without({"read"}) /\ target # None ~> target = None
=============================================================================
