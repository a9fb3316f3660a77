------------------------ MODULE SessionSwitchProofs ------------------------
(***************************************************************************)
(* Invariants of SessionSwitch, for any sessions, records and number of    *)
(* overlapping loads.                                                      *)
(***************************************************************************)
EXTENDS SessionSwitch, SequenceTheorems, TLAPS

\* An event stays one that was emitted when the extension counts on.
LEMMA EventsGrow ==
  ASSUME NEW n \in Nat, NEW k \in Nat, n <= k
  PROVE  /\ Events(n) \subseteq Events(k)
         /\ \A s \in Seq(Events(n)) : s \in Seq(Events(k))
         /\ LoadRecords(n) \subseteq LoadRecords(k)
<1>1. 1..n \subseteq 1..k
  OBVIOUS
<1>2. Events(n) \subseteq Events(k)
  BY <1>1 DEF Events
<1>3. \A s \in Seq(Events(n)) : s \in Seq(Events(k))
  BY <1>2, SeqMonotonic
<1>4. LoadRecords(n) \subseteq LoadRecords(k)
  BY <1>3 DEF LoadRecords
<1> QED
  BY <1>2, <1>3, <1>4

\* The states of a load that its actions write.
LEMMA LoadFacts ==
  ASSUME TypeOK, NEW t \in Loads, NEW x \in Sessions,
         NEW pc \in LoadStates, NEW s \in Seq(Events(sequence))
  PROVE  /\ load[t] \in LoadRecords(sequence)
         /\ Idle \in LoadRecords(sequence)
         /\ [Idle EXCEPT !.pc = pc, !.want = x] \in LoadRecords(sequence)
         /\ [load[t] EXCEPT !.pc = pc] \in LoadRecords(sequence)
         /\ [load[t] EXCEPT !.pc = pc, !.drain = s] \in LoadRecords(sequence)
         /\ [load[t] EXCEPT !.drain = s] \in LoadRecords(sequence)
<1>1. <<>> \in Seq(Events(sequence))
  OBVIOUS
<1>2. load[t] \in LoadRecords(sequence)
  BY DEF TypeOK
<1>3. Idle \in LoadRecords(sequence)
  BY <1>1, SwitchAssumption DEF LoadRecords, Idle, LoadStates
<1> QED
  BY <1>2, <1>3 DEF LoadRecords, Idle

\* What a load writes into its own entry keeps the table well typed.
LEMMA LoadTable ==
  ASSUME TypeOK, NEW t \in Loads, NEW r \in LoadRecords(sequence),
         load' = [load EXCEPT ![t] = r], sequence' = sequence
  PROVE  load' \in [Loads -> LoadRecords(sequence')]
BY DEF TypeOK

\* handle_subagent_bridge_message defers or projects an event, nothing else.
LEMMA HandleFacts ==
  ASSUME TypeOK, NEW e \in Events(sequence), sequence' = sequence,
         handle_subagent_bridge_message(e)
  PROVE  /\ events' \in Seq(Events(sequence'))
         /\ seen' \in [Sessions -> 0..sequence']
         /\ shown' \in Seq(Events(sequence'))
<1> USE DEF TypeOK
<1>1. CASE events' = Append(events, e) /\ UNCHANGED filterVars
  <2>1. Append(events, e) \in Seq(Events(sequence))
    OBVIOUS
  <2> QED
    BY <1>1, <2>1 DEF filterVars
<1>2. CASE Project(e) /\ UNCHANGED events
  <2>1. CASE UNCHANGED filterVars
    BY <1>2, <2>1 DEF filterVars
  <2>2. CASE accept_subagent_bridge_sequence(e) /\ shown' = Append(shown, e)
    <3>1. Append(shown, e) \in Seq(Events(sequence))
      OBVIOUS
    <3>2. e.parent \in Sessions /\ e.seq \in 1..sequence
      BY DEF Events
    <3>3. e.seq \in 0..sequence /\ seen[e.parent] \in 0..sequence
      BY <3>2
    <3>4. seen' \in [Sessions -> 0..sequence]
      BY <2>2, <3>2, <3>3 DEF accept_subagent_bridge_sequence
    <3> QED
      BY <1>2, <2>2, <3>1, <3>4
  <2> QED
    BY <1>2, <2>1, <2>2 DEF Project
<1>3. CASE UNCHANGED <<events, filterVars>>
  BY <1>3 DEF filterVars
<1> QED
  BY <1>1, <1>2, <1>3 DEF handle_subagent_bridge_message

----------------------------------------------------------------------------
\* The program starts in a well-typed state.
LEMMA TypeInit == Init => TypeOK
<1> SUFFICES ASSUME Init PROVE TypeOK
  OBVIOUS
<1>1. <<>> \in Seq(Events(0)) /\ {} \subseteq Events(0)
  OBVIOUS
<1>2. Idle \in LoadRecords(0)
  BY <1>1, SwitchAssumption DEF Idle, LoadRecords, LoadStates
<1>3. 0 \in 0..0 /\ 0 \in Nat
  OBVIOUS
<1>4. seen \in [Sessions -> 0..sequence] /\ sequence \in Nat
  BY <1>3 DEF Init
<1>5. load \in [Loads -> LoadRecords(sequence)]
  BY <1>2 DEF Init
<1>6. PICK s \in Scenarios :
        /\ may = s.may
        /\ left = [switches |-> s.switches, reports |-> s.reports]
  BY DEF Init
<1>7. may \subseteq Liberties /\ left \in [switches: Nat, reports: Nat]
  BY <1>6, SwitchAssumption
<1> QED
  BY <1>1, <1>4, <1>5, <1>7, SwitchAssumption DEF Init, TypeOK

\* The steps of a load keep the types.
LEMMA TypeLoad ==
  ASSUME TypeOK, NEW t \in Loads, LoadNext(t)
  PROVE  TypeOK'
<1>0. /\ <<>> \in Seq(Events(sequence))
      /\ load[t] \in LoadRecords(sequence)
      /\ load[t].want \in Sessions
      /\ load[t].drain \in Seq(Events(sequence))
  BY DEF TypeOK, LoadRecords
<1>1. ASSUME NEW x \in Sessions, switch_session(t, x) PROVE TypeOK'
  <2>1. "switching" \in LoadStates
    BY DEF LoadStates
  <2>2. [Idle EXCEPT !.pc = "switching", !.want = x]
          \in LoadRecords(sequence)
    BY <1>0, <2>1, LoadFacts
  <2>3. load' \in [Loads -> LoadRecords(sequence')]
    BY <1>1, <2>2, LoadTable DEF switch_session, piVars
  <2>4. left' \in [switches: Nat, reports: Nat]
    BY <1>1 DEF switch_session, TypeOK
  <2> QED
    BY <1>0, <1>1, <2>3, <2>4
    DEF switch_session, TypeOK, filterVars, piVars
<1>2. ASSUME NEW x \in Sessions, StartReplay(t, x), sequence' = sequence
      PROVE  load' \in [Loads -> LoadRecords(sequence')]
  <2>1. "replaying" \in LoadStates
    BY DEF LoadStates
  <2>2. /\ Idle \in LoadRecords(sequence)
        /\ [Idle EXCEPT !.pc = "replaying", !.want = x]
             \in LoadRecords(sequence)
    BY <1>0, <2>1, LoadFacts
  <2> QED
    BY <1>2, <2>2, LoadTable DEF StartReplay, Return
<1>3. ASSUME Return(t), sequence' = sequence
      PROVE  load' \in [Loads -> LoadRecords(sequence')]
  <2>1. Idle \in LoadRecords(sequence)
    BY <1>0, SwitchAssumption DEF Idle, LoadRecords, LoadStates
  <2> QED
    BY <1>3, <2>1, LoadTable DEF Return
<1>4. ASSUME NEW x, abandon(x)
      PROVE  /\ target' \in Sessions \cup {None}
             /\ events' \in Seq(Events(sequence))
  BY <1>0, <1>4 DEF abandon, bridgeVars, TypeOK
<1>5. CASE load_active(t)
  <2>1. load' \in [Loads -> LoadRecords(sequence')]
    BY <1>2, <1>5 DEF load_active, piVars, TypeOK
  <2> QED
    BY <1>5, <2>1 DEF load_active, TypeOK, bridgeVars, filterVars, piVars
<1>6. CASE PiRefuses(t)
  <2>1. load' \in [Loads -> LoadRecords(sequence')]
    BY <1>3, <1>6 DEF PiRefuses, piVars
  <2>2. /\ target' \in Sessions \cup {None}
        /\ events' \in Seq(Events(sequence'))
    BY <1>4, <1>6 DEF PiRefuses, piVars
  <2> QED
    BY <1>6, <2>1, <2>2 DEF PiRefuses, TypeOK, filterVars, piVars
<1>7. CASE bootstrap_loaded(t)
  <2>1. load' \in [Loads -> LoadRecords(sequence')]
    BY <1>2, <1>7 DEF bootstrap_loaded, piVars, TypeOK
  <2> QED
    BY <1>7, <2>1 DEF bootstrap_loaded, TypeOK, bridgeVars, filterVars, piVars
<1>8. CASE bootstrap_failed(t)
  <2>1. load' \in [Loads -> LoadRecords(sequence')]
    BY <1>3, <1>8 DEF bootstrap_failed, piVars
  <2>2. /\ target' \in Sessions \cup {None}
        /\ events' \in Seq(Events(sequence'))
    BY <1>4, <1>8 DEF bootstrap_failed, piVars
  <2> QED
    BY <1>8, <2>1, <2>2 DEF bootstrap_failed, TypeOK, filterVars, piVars
<1>9. CASE replay_failed(t)
  <2>1. load' \in [Loads -> LoadRecords(sequence')]
    BY <1>3, <1>9 DEF replay_failed, piVars
  <2>2. /\ target' \in Sessions \cup {None}
        /\ events' \in Seq(Events(sequence'))
    BY <1>4, <1>9 DEF replay_failed, piVars
  <2> QED
    BY <1>9, <2>1, <2>2 DEF replay_failed, TypeOK, filterVars, piVars
<1>10. CASE commit_if_target(t)
  <2>0. sequence' = sequence
    BY <1>10 DEF commit_if_target, piVars
  <2>1. CASE target = load[t].want
    <3>1. "draining" \in LoadStates
      BY DEF LoadStates
    <3>2. events \in Seq(Events(sequence)) /\ session \in Sessions
      BY DEF TypeOK
    <3>3. [load[t] EXCEPT !.pc = "draining", !.drain = events]
            \in LoadRecords(sequence)
      BY <3>1, <3>2, LoadFacts
    <3>4. load' = [load EXCEPT ![t] =
                     [load[t] EXCEPT !.pc = "draining", !.drain = events]]
      BY <1>10, <2>1 DEF commit_if_target, TypeOK
    <3>5. load' \in [Loads -> LoadRecords(sequence')]
      BY <2>0, <3>3, <3>4, LoadTable
    <3> QED
      BY <1>0, <1>10, <2>1, <3>5
      DEF commit_if_target, TypeOK, filterVars, piVars
  <2>2. CASE target # load[t].want
    <3>1. load' \in [Loads -> LoadRecords(sequence')]
      BY <1>3, <1>10, <2>0, <2>2 DEF commit_if_target
    <3> QED
      BY <1>10, <2>2, <3>1
      DEF commit_if_target, TypeOK, bridgeVars, filterVars, piVars
  <2> QED
    BY <2>1, <2>2
<1>11. CASE drain(t)
  <2>0. /\ sequence' = sequence
        /\ load[t].drain # <<>>
        /\ handle_subagent_bridge_message(Head(load[t].drain))
    BY <1>11 DEF drain, piVars
  <2>1. /\ Head(load[t].drain) \in Events(sequence)
        /\ Tail(load[t].drain) \in Seq(Events(sequence))
    BY <1>0, <2>0, HeadTailProperties
  <2>2. /\ events' \in Seq(Events(sequence'))
        /\ seen' \in [Sessions -> 0..sequence']
        /\ shown' \in Seq(Events(sequence'))
    BY <2>0, <2>1, HandleFacts
  <2>3. load' \in [Loads -> LoadRecords(sequence')]
    <3>1. CASE Return(t)
      BY <1>3, <2>0, <3>1
    <3>2. CASE load' = [load EXCEPT ![t].drain = Tail(@)]
      <4>1. load' = [load EXCEPT ![t] =
                       [load[t] EXCEPT !.drain = Tail(load[t].drain)]]
        BY <3>2 DEF TypeOK
      <4>2. [load[t] EXCEPT !.drain = Tail(load[t].drain)]
              \in LoadRecords(sequence)
        BY <1>0, <2>1 DEF LoadRecords
      <4> QED
        BY <2>0, <4>1, <4>2, LoadTable
    <3> QED
      BY <1>11, <3>1, <3>2 DEF drain
  <2> QED
    BY <1>11, <2>2, <2>3 DEF drain, TypeOK, piVars
<1>12. CASE load_ends(t)
  <2>1. load' \in [Loads -> LoadRecords(sequence')]
    BY <1>3, <1>12 DEF load_ends, piVars
  <2> QED
    BY <1>12, <2>1 DEF load_ends, TypeOK, bridgeVars, filterVars, piVars
<1>13. CASE PiSwitches(t)
  <2>1. PICK x \in Sessions : x = load[t].want
    BY <1>0
  <2>2. Records[x] \in Nat
    BY SwitchAssumption
  <2>3. /\ sequence \in Nat
        /\ sequence' = sequence + Records[x]
    BY <1>13, <2>1 DEF PiSwitches, TypeOK
  <2>4. sequence' \in Nat /\ sequence <= sequence'
    BY <2>2, <2>3
  <2>5. \A i \in 1..Records[x] : sequence + i \in 1..sequence'
    BY <2>2, <2>3
  <2>6. \A i \in 1..Records[x] :
          [parent |-> x, seq |-> sequence + i, replay |-> TRUE]
            \in Events(sequence')
    BY <2>5 DEF Events
  <2>7. Replayed(x) \in Seq(Events(sequence'))
    BY <2>2, <2>6 DEF Replayed
  <2>8. /\ Events(sequence) \subseteq Events(sequence')
        /\ \A s \in Seq(Events(sequence)) : s \in Seq(Events(sequence'))
        /\ LoadRecords(sequence) \subseteq LoadRecords(sequence')
    BY <2>3, <2>4, EventsGrow
  <2>9. channel' \in Seq(Events(sequence'))
    <3>1. channel \in Seq(Events(sequence'))
      BY <2>8 DEF TypeOK
    <3>2. channel \o Replayed(x) \in Seq(Events(sequence'))
      BY <2>7, <3>1, ConcatProperties
    <3> QED
      BY <1>13, <2>1, <3>2 DEF PiSwitches
  <2>10. owed' \subseteq Events(sequence')
    <3>1. \A i \in 1..Records[x] : Replayed(x)[i] \in Events(sequence')
      BY <2>6 DEF Replayed
    <3> QED
      BY <1>13, <2>1, <3>1 DEF PiSwitches
  <2>11. load' \in [Loads -> LoadRecords(sequence')]
    <3>1. "switched" \in LoadStates
      BY DEF LoadStates
    <3>2. [load[t] EXCEPT !.pc = "switched"] \in LoadRecords(sequence)
      BY <1>0, <3>1 DEF LoadRecords
    <3>3. load' = [load EXCEPT ![t] = [load[t] EXCEPT !.pc = "switched"]]
      BY <1>13 DEF PiSwitches, Goto, TypeOK
    <3>4. load' \in [Loads -> LoadRecords(sequence)]
      BY <3>2, <3>3 DEF TypeOK
    <3> QED
      BY <2>8, <3>4
  <2>12. seen' \in [Sessions -> 0..sequence']
    <3>1. 0..sequence \subseteq 0..sequence'
      BY <2>3, <2>4
    <3>2. seen' = seen /\ seen \in [Sessions -> 0..sequence]
      BY <1>13 DEF PiSwitches, filterVars, TypeOK
    <3> QED
      BY <3>1, <3>2
  <2>13. /\ events' \in Seq(Events(sequence'))
         /\ shown' \in Seq(Events(sequence'))
         /\ target' \in Sessions \cup {None}
    BY <1>13, <2>8 DEF PiSwitches, bridgeVars, filterVars, TypeOK
  <2>14. /\ piSession' \in Sessions
         /\ session' \in Sessions
         /\ creating' \in BOOLEAN
         /\ left' \in [switches: Nat, reports: Nat]
         /\ may' \subseteq Liberties
    BY <1>13, <2>1 DEF PiSwitches, TypeOK
  <2> QED
    BY <2>4, <2>9, <2>10, <2>11, <2>12, <2>13, <2>14 DEF TypeOK
<1> QED
  BY <1>1, <1>5, <1>6, <1>7, <1>8, <1>9, <1>10, <1>11, <1>12, <1>13
  DEF LoadNext

\* The other steps keep the types.
LEMMA TypeNext ==
  ASSUME TypeOK, [Next]_vars
  PROVE  TypeOK'
<1>1. CASE handle_event
  <2>0. /\ sequence' = sequence
        /\ channel # <<>>
        /\ channel' = Tail(channel)
        /\ handle_subagent_bridge_message(Head(channel))
    BY <1>1 DEF handle_event
  <2>1. /\ Head(channel) \in Events(sequence)
        /\ Tail(channel) \in Seq(Events(sequence))
    BY <2>0, HeadTailProperties DEF TypeOK
  <2>2. /\ events' \in Seq(Events(sequence'))
        /\ seen' \in [Sessions -> 0..sequence']
        /\ shown' \in Seq(Events(sequence'))
    BY <2>0, <2>1, HandleFacts
  <2>3. channel' \in Seq(Events(sequence'))
    BY <2>0, <2>1
  <2> QED
    BY <1>1, <2>2, <2>3 DEF handle_event, TypeOK
<1>2. ASSUME NEW t \in Loads, LoadNext(t) PROVE TypeOK'
  BY <1>2, TypeLoad
<1>3. ASSUME NEW x \in Sessions, new_session(x) PROVE TypeOK'
  BY <1>3 DEF new_session, TypeOK, bridgeVars, filterVars
<1>4. CASE new_session_refreshed
  BY <1>4 DEF new_session_refreshed, TypeOK, bridgeVars, filterVars, piVars
<1>5. ASSUME NEW x \in Sessions, Report(x) PROVE TypeOK'
  <2>1. /\ sequence \in Nat
        /\ sequence' = sequence + 1
    BY <1>5 DEF Report, TypeOK
  <2>2. /\ sequence' \in Nat
        /\ sequence <= sequence'
        /\ sequence' \in 1..sequence'
    BY <2>1
  <2>3. PICK e : e = [parent |-> x, seq |-> sequence', replay |-> FALSE]
    OBVIOUS
  <2>4. e \in Events(sequence')
    BY <2>2, <2>3 DEF Events
  <2>5. /\ Events(sequence) \subseteq Events(sequence')
        /\ \A s \in Seq(Events(sequence)) : s \in Seq(Events(sequence'))
        /\ LoadRecords(sequence) \subseteq LoadRecords(sequence')
    BY <2>1, <2>2, EventsGrow
  <2>6. channel' \in Seq(Events(sequence'))
    <3>1. channel \in Seq(Events(sequence'))
      BY <2>5 DEF TypeOK
    <3>2. Append(channel, e) \in Seq(Events(sequence'))
      BY <2>4, <3>1
    <3>3. channel' = Append(channel, e)
      BY <1>5, <2>3 DEF Report
    <3> QED
      BY <3>2, <3>3
  <2>7. owed' \subseteq Events(sequence')
    <3>1. owed' \subseteq owed \cup {e}
      BY <1>5, <2>3 DEF Report
    <3> QED
      BY <2>4, <2>5, <3>1 DEF TypeOK
  <2>8. load' \in [Loads -> LoadRecords(sequence')]
    BY <1>5, <2>5 DEF Report, TypeOK
  <2>9. seen' \in [Sessions -> 0..sequence']
    <3>1. 0..sequence \subseteq 0..sequence'
      BY <2>1, <2>2
    <3>2. seen' = seen /\ seen \in [Sessions -> 0..sequence]
      BY <1>5 DEF Report, filterVars, TypeOK
    <3> QED
      BY <3>1, <3>2
  <2>10. /\ events' \in Seq(Events(sequence'))
         /\ shown' \in Seq(Events(sequence'))
         /\ target' \in Sessions \cup {None}
    BY <1>5, <2>5 DEF Report, bridgeVars, filterVars, TypeOK
  <2>11. left' \in [switches: Nat, reports: Nat]
    BY <1>5 DEF Report, TypeOK
  <2>12. /\ piSession' \in Sessions
         /\ session' \in Sessions
         /\ creating' \in BOOLEAN
         /\ may' \subseteq Liberties
    BY <1>5 DEF Report, TypeOK
  <2> QED
    BY <2>2, <2>6, <2>7, <2>8, <2>9, <2>10, <2>11, <2>12 DEF TypeOK
<1>6. CASE UNCHANGED vars
  BY <1>6 DEF vars, TypeOK, bridgeVars, filterVars, piVars
<1> QED
  BY <1>1, <1>2, <1>3, <1>4, <1>5, <1>6 DEF Next

\* Every state is well typed; above all, no event number and no remembered
\* number is ahead of what the extension has emitted.
THEOREM TypeCorrect == Spec => []TypeOK
BY TypeInit, TypeNext, PTL DEF Spec

----------------------------------------------------------------------------
(***************************************************************************)
(* A pending transition has an owner.                                      *)
(***************************************************************************)
Owns(t) == /\ load[t].want = target
           /\ load[t].pc \in {"switching", "switched", "replaying"}

\* A step of a load that leaves the target alone leaves it owned: either the
\* load itself goes on towards it, or it was another's.
LEMMA OwnedByLoad ==
  ASSUME TypeOK, TransitionOwned, Without({"read"}), NEW u \in Loads,
         LoadNext(u), may' = may, target' # None
  PROVE  \E t \in Loads : Owns(t)'
<1>0. /\ load \in [Loads -> LoadRecords(sequence)]
      /\ load[u] \in LoadRecords(sequence)
      /\ "read" \notin may
  BY DEF TypeOK, Without
<1>1. ASSUME NEW x \in Sessions, switch_session(u, x)
      PROVE  Owns(u)'
  <2>1. load' = [load EXCEPT ![u] = [Idle EXCEPT !.pc = "switching",
                                                 !.want = x]]
    BY <1>1 DEF switch_session
  <2>2. load'[u].pc = "switching" /\ load'[u].want = x
    BY <1>0, <2>1 DEF Idle
  <2> QED
    BY <1>1, <2>2 DEF switch_session, Owns
<1>2. CASE target' = target
  <2>1. PICK t \in Loads : Owns(t)
    BY <1>2 DEF TransitionOwned, Owns
  <2>2. CASE t # u
    <3>1. load'[t] = load[t]
      BY <1>0, <2>2 DEF LoadNext, switch_session, load_active, PiSwitches,
        PiRefuses, bootstrap_loaded, bootstrap_failed, replay_failed,
        commit_if_target, drain, load_ends, StartReplay, Return, Goto
    <3> QED
      BY <1>2, <2>1, <3>1 DEF Owns
  <2>3. CASE t = u
    <3>0. target # None /\ load[u].want = target
      BY <1>2, <2>1, <2>3 DEF Owns
    <3>1. CASE PiSwitches(u)
      <4>1. load' = [load EXCEPT ![u].pc = "switched"]
        BY <3>1 DEF PiSwitches, Goto
      <4>2. load'[u].pc = "switched" /\ load'[u].want = load[u].want
        BY <1>0, <4>1 DEF LoadRecords
      <4> QED
        BY <1>2, <3>0, <4>2 DEF Owns
    <3>2. CASE bootstrap_loaded(u)
      <4>1. load' = [load EXCEPT ![u] = [Idle EXCEPT !.pc = "replaying",
                                           !.want = load[u].want]]
        BY <1>0, <3>2 DEF bootstrap_loaded, StartReplay
      <4>2. load'[u].pc = "replaying" /\ load'[u].want = load[u].want
        BY <1>0, <4>1 DEF Idle
      <4> QED
        BY <1>2, <3>0, <4>2 DEF Owns
    <3>3. ~PiRefuses(u) /\ ~bootstrap_failed(u) /\ ~replay_failed(u)
      BY <1>2, <3>0 DEF PiRefuses, bootstrap_failed, replay_failed, abandon
    <3>4. ~commit_if_target(u)
      BY <1>2, <3>0 DEF commit_if_target
    <3>5. /\ ~load_active(u) /\ ~drain(u) /\ ~load_ends(u)
          /\ \A x \in Sessions : ~switch_session(u, x)
      BY <2>1, <2>3 DEF Owns, load_active, drain, load_ends, switch_session
    <3> QED
      BY <2>3, <3>1, <3>2, <3>3, <3>4, <3>5 DEF LoadNext
  <2> QED
    BY <2>2, <2>3
<1>3. CASE \E x \in Sessions : switch_session(u, x)
  BY <1>1, <1>3
<1>4. CASE ~\E x \in Sessions : switch_session(u, x)
  <2>1. target' = target
    BY <1>4 DEF LoadNext, load_active, PiSwitches, PiRefuses,
      bootstrap_loaded, bootstrap_failed, replay_failed, commit_if_target,
      drain, load_ends, abandon, bridgeVars
  <2> QED
    BY <1>2, <2>1
<1> QED
  BY <1>3, <1>4

\* The steps of others change neither the target nor a load.
LEMMA OwnedNext ==
  ASSUME TypeOK, TransitionOwned, [Next]_vars
  PROVE  TransitionOwned'
<1>1. may' = may
  BY DEF Next, vars, handle_event, LoadNext, switch_session, load_active,
    PiSwitches, PiRefuses, bootstrap_loaded, bootstrap_failed, replay_failed,
    commit_if_target, drain, load_ends, new_session, new_session_refreshed,
    Report
<1>2. SUFFICES ASSUME Without({"read"}), target' # None
               PROVE  \E t \in Loads : Owns(t)'
  BY <1>1 DEF TransitionOwned, Owns, Without
<1>3. ASSUME NEW t \in Loads, LoadNext(t)
      PROVE  \E u \in Loads : Owns(u)'
  BY <1>1, <1>2, <1>3, OwnedByLoad
<1>4. ASSUME UNCHANGED <<target, load>>
      PROVE  \E t \in Loads : Owns(t)'
  BY <1>2, <1>4 DEF TransitionOwned, Owns
<1>5. ASSUME \/ handle_event
             \/ \E x \in Sessions : new_session(x) \/ Report(x)
             \/ new_session_refreshed
             \/ UNCHANGED vars
      PROVE  UNCHANGED <<target, load>>
  BY <1>5 DEF handle_event, new_session, Report, new_session_refreshed, vars,
    bridgeVars
<1> QED
  BY <1>3, <1>4, <1>5 DEF Next

\* A pending transition always has a load that will commit or abandon it, on
\* every error path but the one of the unreadable sidecar, whatever loads
\* overlap: so begin never refuses a switch for ever.
THEOREM TransitionHasOwner == Spec => []TransitionOwned
<1>1. Init => TransitionOwned
  BY DEF Init, TransitionOwned
<1>2. TypeOK /\ TransitionOwned /\ [Next]_vars => TransitionOwned'
  BY OwnedNext
<1> QED
  BY <1>1, <1>2, TypeCorrect, PTL DEF Spec

----------------------------------------------------------------------------
(***************************************************************************)
(* No event is shown twice.  ShownOnce is not inductive: an event reaches  *)
(* the pager from the channel, from the buffer or from a load that hands   *)
(* the buffer out.  Apart says that these places never hold the same       *)
(* number twice, within one of them or between two.                        *)
(***************************************************************************)
Nums(s) == {s[i].seq : i \in 1..Len(s)}
Once(s) == \A i, j \in 1..Len(s) : s[i].seq = s[j].seq => i = j
Disjoint(A, B) == \A n \in A : n \notin B

Apart ==
  /\ Once(shown)
  /\ Once(channel)
  /\ Once(events)
  /\ \A t \in Loads : Once(load[t].drain)
  /\ Disjoint(Nums(shown), Nums(channel))
  /\ Disjoint(Nums(shown), Nums(events))
  /\ Disjoint(Nums(channel), Nums(events))
  /\ \A t \in Loads : /\ Disjoint(Nums(load[t].drain), Nums(shown))
                      /\ Disjoint(Nums(load[t].drain), Nums(channel))
                      /\ Disjoint(Nums(load[t].drain), Nums(events))
  /\ \A t, u \in Loads :
       t # u => Disjoint(Nums(load[t].drain), Nums(load[u].drain))

\* The numbers in a sequence of emitted events.
LEMMA NumsBound ==
  ASSUME NEW n \in Nat, NEW s \in Seq(Events(n))
  PROVE  Nums(s) \subseteq 1..n
<1>1. \A i \in 1..Len(s) : s[i] \in Events(n)
  OBVIOUS
<1> QED
  BY <1>1 DEF Nums, Events

\* An event that is new to a sequence can be appended.
LEMMA AppendOnce ==
  ASSUME NEW n \in Nat, NEW s \in Seq(Events(n)), NEW e \in Events(n),
         Once(s), e.seq \notin Nums(s)
  PROVE  /\ Once(Append(s, e))
         /\ Nums(Append(s, e)) = Nums(s) \cup {e.seq}
<1>1. /\ Len(s) \in Nat
      /\ Len(Append(s, e)) = Len(s) + 1
      /\ \A i \in 1..Len(s) : Append(s, e)[i] = s[i]
      /\ Append(s, e)[Len(s) + 1] = e
  OBVIOUS
<1>2. \A i \in 1..Len(s) : s[i].seq \in Nums(s)
  BY DEF Nums
<1>3. \A i \in 1..(Len(s) + 1) : i \in 1..Len(s) \/ i = Len(s) + 1
  BY <1>1
<1>4. Once(Append(s, e))
  BY <1>1, <1>2, <1>3 DEF Once
<1>5. Nums(Append(s, e)) = Nums(s) \cup {e.seq}
  BY <1>1, <1>3 DEF Nums
<1> QED
  BY <1>4, <1>5

\* Taking the head of a sequence takes its number out.
LEMMA TailOnce ==
  ASSUME NEW n \in Nat, NEW s \in Seq(Events(n)), s # <<>>, Once(s)
  PROVE  /\ Head(s) \in Events(n)
         /\ Once(Tail(s))
         /\ Head(s).seq \in Nums(s)
         /\ Head(s).seq \notin Nums(Tail(s))
         /\ Nums(Tail(s)) \subseteq Nums(s)
<1>1. /\ Len(s) \in Nat \ {0}
      /\ Len(Tail(s)) = Len(s) - 1
      /\ \A i \in 1..Len(Tail(s)) : Tail(s)[i] = s[i + 1]
      /\ Head(s) = s[1]
      /\ s[1] \in Events(n)
  OBVIOUS
<1>2. \A i \in 1..Len(Tail(s)) : i + 1 \in 1..Len(s) /\ i + 1 # 1
  BY <1>1
<1>3. 1 \in 1..Len(s)
  BY <1>1
<1>4. Once(Tail(s))
  <2> SUFFICES ASSUME NEW i \in 1..Len(Tail(s)), NEW j \in 1..Len(Tail(s)),
                      Tail(s)[i].seq = Tail(s)[j].seq
               PROVE  i = j
    BY DEF Once
  <2>1. s[i + 1].seq = s[j + 1].seq
    BY <1>1
  <2>2. i + 1 = j + 1
    BY <1>2, <2>1 DEF Once
  <2> QED
    BY <1>1, <2>2
<1>5. Head(s).seq \in Nums(s)
  BY <1>1, <1>3 DEF Nums
<1>6. Head(s).seq \notin Nums(Tail(s))
  BY <1>1, <1>2, <1>3 DEF Nums, Once
<1>7. Nums(Tail(s)) \subseteq Nums(s)
  BY <1>1, <1>2 DEF Nums
<1> QED
  BY <1>1, <1>4, <1>5, <1>6, <1>7

\* The events of a replay are numbered on from the last one.
LEMMA ConcatOnce ==
  ASSUME NEW n \in Nat, NEW s \in Seq(Events(n)), Once(s), NEW k \in Nat,
         NEW r \in Seq([parent: Sessions, seq: Nat, replay: BOOLEAN]),
         Len(r) = k, \A i \in 1..k : r[i].seq = n + i
  PROVE  /\ Once(s \o r)
         /\ \A m \in Nums(s \o r) : m \in Nums(s) \/ m > n
<1>1. /\ Len(s) \in Nat
      /\ Len(s \o r) = Len(s) + k
      /\ \A i \in 1..(Len(s) + k) :
           (s \o r)[i] = IF i <= Len(s) THEN s[i] ELSE r[i - Len(s)]
  <2>1. PICK T : T = [parent: Sessions, seq: Nat, replay: BOOLEAN]
    OBVIOUS
  <2>2. Events(n) \subseteq T
    BY <2>1 DEF Events
  <2>3. s \in Seq(T) /\ r \in Seq(T)
    BY <2>1, <2>2, SeqMonotonic
  <2>4. Len(s) \in Nat
    OBVIOUS
  <2> QED
    BY <2>3, <2>4, ConcatProperties
<1>2. \A i \in 1..Len(s) : s[i].seq \in 1..n /\ s[i].seq \in Nums(s)
  <2>1. Nums(s) \subseteq 1..n
    BY NumsBound
  <2>2. \A i \in 1..Len(s) : s[i].seq \in Nums(s)
    BY DEF Nums
  <2> QED
    BY <2>1, <2>2
<1>3. ASSUME NEW i \in 1..(Len(s) + k)
      PROVE  \/ i \in 1..Len(s) /\ (s \o r)[i].seq = s[i].seq
             \/ i \notin 1..Len(s) /\ (s \o r)[i].seq = n + (i - Len(s))
  <2>1. CASE i <= Len(s)
    BY <1>1, <2>1
  <2>2. CASE ~(i <= Len(s))
    <3>1. i - Len(s) \in 1..k
      BY <1>1, <2>2
    <3> QED
      BY <1>1, <2>2, <3>1
  <2> QED
    BY <2>1, <2>2
<1>4. Once(s \o r)
  <2> SUFFICES ASSUME NEW i \in 1..(Len(s) + k), NEW j \in 1..(Len(s) + k),
                      (s \o r)[i].seq = (s \o r)[j].seq
               PROVE  i = j
    BY <1>1 DEF Once
  <2>1. CASE i \in 1..Len(s) /\ j \in 1..Len(s)
    BY <1>3, <2>1 DEF Once
  <2>2. CASE i \notin 1..Len(s) /\ j \notin 1..Len(s)
    BY <1>1, <1>3, <2>2
  <2>3. CASE i \in 1..Len(s) /\ j \notin 1..Len(s)
    <3>1. n + (j - Len(s)) > n
      BY <1>1, <2>3
    <3> QED
      BY <1>2, <1>3, <2>3, <3>1
  <2>4. CASE i \notin 1..Len(s) /\ j \in 1..Len(s)
    <3>1. n + (i - Len(s)) > n
      BY <1>1, <2>4
    <3> QED
      BY <1>2, <1>3, <2>4, <3>1
  <2> QED
    BY <2>1, <2>2, <2>3, <2>4
<1>5. ASSUME NEW m \in Nums(s \o r) PROVE m \in Nums(s) \/ m > n
  <2>1. PICK i \in 1..(Len(s) + k) : m = (s \o r)[i].seq
    BY <1>1 DEF Nums
  <2>2. CASE i \in 1..Len(s)
    BY <1>2, <1>3, <2>1, <2>2
  <2>3. CASE i \notin 1..Len(s)
    <3>1. n + (i - Len(s)) > n
      BY <1>1, <2>3
    <3> QED
      BY <1>3, <2>1, <2>3, <3>1
  <2> QED
    BY <2>2, <2>3
<1> QED
  BY <1>4, <1>5

\* What becomes of an event that is neither shown nor deferred yet.
LEMMA HandleApart ==
  ASSUME TypeOK, Apart, NEW e \in Events(sequence),
         e.seq \notin Nums(shown), e.seq \notin Nums(events),
         handle_subagent_bridge_message(e)
  PROVE  /\ Once(shown')
         /\ Once(events')
         /\ Disjoint(Nums(shown'), Nums(events'))
         /\ Nums(shown') \subseteq Nums(shown) \cup {e.seq}
         /\ Nums(events') \subseteq Nums(events) \cup {e.seq}
<1>0. /\ sequence \in Nat
      /\ shown \in Seq(Events(sequence))
      /\ events \in Seq(Events(sequence))
      /\ Once(shown) /\ Once(events)
      /\ Disjoint(Nums(shown), Nums(events))
  BY DEF TypeOK, Apart
<1>1. /\ Once(Append(shown, e))
      /\ Nums(Append(shown, e)) = Nums(shown) \cup {e.seq}
  BY <1>0, AppendOnce
<1>2. /\ Once(Append(events, e))
      /\ Nums(Append(events, e)) = Nums(events) \cup {e.seq}
  BY <1>0, AppendOnce
<1>3. \/ shown' = Append(shown, e) /\ events' = events
      \/ shown' = shown /\ events' = Append(events, e)
      \/ shown' = shown /\ events' = events
  BY DEF handle_subagent_bridge_message, Project, filterVars
<1> QED
  BY <1>0, <1>1, <1>2, <1>3 DEF Disjoint

\* The steps of a load keep the places apart.
LEMMA ApartLoad ==
  ASSUME TypeOK, Apart, NEW u \in Loads, LoadNext(u)
  PROVE  Apart'
<1>0. /\ load \in [Loads -> LoadRecords(sequence)]
      /\ load[u] \in LoadRecords(sequence)
      /\ load[u].drain \in Seq(Events(sequence))
      /\ sequence \in Nat
      /\ channel \in Seq(Events(sequence))
  BY DEF TypeOK, LoadRecords
<1>1. Once(<<>>) /\ Nums(<<>>) = {}
  BY DEF Once, Nums
<1>2. ASSUME UNCHANGED <<shown, channel>>,
             events' = events \/ events' = <<>>,
             \A t \in Loads : load'[t].drain = load[t].drain
                              \/ load'[t].drain = <<>>
      PROVE  Apart'
  <2>1. Once(events') /\ Nums(events') \subseteq Nums(events)
    BY <1>1, <1>2 DEF Apart
  <2>2. \A t \in Loads : /\ Once(load'[t].drain)
                         /\ Nums(load'[t].drain) \subseteq Nums(load[t].drain)
    BY <1>1, <1>2 DEF Apart
  <2>3. shown' = shown /\ channel' = channel
    BY <1>2
  <2> QED
    BY <2>1, <2>2, <2>3 DEF Apart, Disjoint
<1>3. ASSUME Return(u)
      PROVE  \A t \in Loads : load'[t].drain = load[t].drain
                              \/ load'[t].drain = <<>>
  BY <1>0, <1>3 DEF Return, Idle
<1>4. ASSUME NEW x, abandon(x) PROVE events' = events \/ events' = <<>>
  BY <1>4 DEF abandon, bridgeVars
<1>5. ASSUME NEW x \in Sessions, switch_session(u, x) PROVE Apart'
  <2>1. \A t \in Loads : load'[t].drain = load[t].drain
                         \/ load'[t].drain = <<>>
    BY <1>0, <1>5 DEF switch_session, Idle
  <2> QED
    BY <1>2, <1>5, <2>1 DEF switch_session, filterVars, piVars
<1>6. ASSUME NEW x, StartReplay(u, x)
      PROVE  \A t \in Loads : load'[t].drain = load[t].drain
                              \/ load'[t].drain = <<>>
  BY <1>0, <1>3, <1>6 DEF StartReplay, Idle
<1>7. CASE load_active(u)
  BY <1>2, <1>6, <1>7 DEF load_active, bridgeVars, filterVars, piVars
<1>8. CASE PiRefuses(u)
  BY <1>2, <1>3, <1>4, <1>8 DEF PiRefuses, filterVars, piVars
<1>9. CASE bootstrap_loaded(u)
  BY <1>2, <1>6, <1>9 DEF bootstrap_loaded, bridgeVars, filterVars, piVars
<1>10. CASE bootstrap_failed(u)
  BY <1>2, <1>3, <1>4, <1>10 DEF bootstrap_failed, filterVars, piVars
<1>11. CASE replay_failed(u)
  BY <1>2, <1>3, <1>4, <1>11 DEF replay_failed, filterVars, piVars
<1>12. CASE load_ends(u)
  BY <1>2, <1>3, <1>12 DEF load_ends, bridgeVars, filterVars, piVars
<1>13. CASE commit_if_target(u)
  <2>0. shown' = shown /\ channel' = channel
    BY <1>13 DEF commit_if_target, filterVars, piVars
  <2>1. CASE target = load[u].want
    <3>1. /\ load' = [load EXCEPT ![u].pc = "draining", ![u].drain = events]
          /\ events' = <<>>
      BY <1>13, <2>1 DEF commit_if_target
    <3>2. /\ load'[u].drain = events
          /\ \A t \in Loads : t # u => load'[t].drain = load[t].drain
      BY <1>0, <3>1 DEF LoadRecords
    <3>3. Once(events') /\ Nums(events') = {}
      BY <1>1, <3>1
    <3>4. \A t \in Loads : Once(load'[t].drain)
      BY <3>2 DEF Apart
    <3>5. \A t \in Loads :
            /\ Disjoint(Nums(load'[t].drain), Nums(shown))
            /\ Disjoint(Nums(load'[t].drain), Nums(channel))
            /\ Disjoint(Nums(load'[t].drain), Nums(events'))
      BY <3>2, <3>3 DEF Apart, Disjoint
    <3>6. \A t, v \in Loads :
            t # v => Disjoint(Nums(load'[t].drain), Nums(load'[v].drain))
      BY <3>2 DEF Apart, Disjoint
    <3>7. /\ Disjoint(Nums(shown), Nums(events'))
          /\ Disjoint(Nums(channel), Nums(events'))
      BY <3>3 DEF Disjoint
    <3> QED
      BY <2>0, <3>3, <3>4, <3>5, <3>6, <3>7 DEF Apart
  <2>2. CASE target # load[u].want
    BY <1>2, <1>3, <1>13, <2>0, <2>2 DEF commit_if_target, bridgeVars
  <2> QED
    BY <2>1, <2>2
<1>14. CASE drain(u)
  <2>1. PICK d : d = load[u].drain
    OBVIOUS
  <2>2. PICK e : e = Head(d)
    OBVIOUS
  <2>3. /\ d # <<>>
        /\ handle_subagent_bridge_message(e)
        /\ channel' = channel
    BY <1>14, <2>1, <2>2 DEF drain, piVars
  <2>4. /\ e \in Events(sequence)
        /\ Once(Tail(d))
        /\ e.seq \in Nums(d)
        /\ e.seq \notin Nums(Tail(d))
        /\ Nums(Tail(d)) \subseteq Nums(d)
    BY <1>0, <2>1, <2>2, <2>3, TailOnce DEF Apart
  <2>5. /\ e.seq \notin Nums(shown)
        /\ e.seq \notin Nums(events)
        /\ e.seq \notin Nums(channel)
        /\ \A t \in Loads : t # u => e.seq \notin Nums(load[t].drain)
    BY <2>1, <2>4 DEF Apart, Disjoint
  <2>6. /\ Once(shown')
        /\ Once(events')
        /\ Disjoint(Nums(shown'), Nums(events'))
        /\ Nums(shown') \subseteq Nums(shown) \cup {e.seq}
        /\ Nums(events') \subseteq Nums(events) \cup {e.seq}
    BY <2>3, <2>4, <2>5, HandleApart
  <2>7. /\ \A t \in Loads : t # u => load'[t].drain = load[t].drain
        /\ load'[u].drain = Tail(d) \/ load'[u].drain = <<>>
    BY <1>0, <1>14, <2>1 DEF drain, Return, Idle, LoadRecords
  <2>8. /\ Once(load'[u].drain)
        /\ Nums(load'[u].drain) \subseteq Nums(d)
        /\ e.seq \notin Nums(load'[u].drain)
    BY <1>1, <2>4, <2>7
  <2>9. \A t \in Loads : /\ Once(load'[t].drain)
                         /\ Nums(load'[t].drain) \subseteq Nums(load[t].drain)
                         /\ e.seq \notin Nums(load'[t].drain)
    BY <2>1, <2>5, <2>7, <2>8 DEF Apart
  <2>10. /\ Disjoint(Nums(shown'), Nums(channel))
         /\ Disjoint(Nums(channel), Nums(events'))
    BY <2>5, <2>6 DEF Apart, Disjoint
  <2>11. \A t \in Loads :
           /\ Disjoint(Nums(load'[t].drain), Nums(shown'))
           /\ Disjoint(Nums(load'[t].drain), Nums(channel))
           /\ Disjoint(Nums(load'[t].drain), Nums(events'))
    BY <2>6, <2>9 DEF Apart, Disjoint
  <2>12. \A t, v \in Loads :
           t # v => Disjoint(Nums(load'[t].drain), Nums(load'[v].drain))
    BY <2>9 DEF Apart, Disjoint
  <2>13. Once(channel)
    BY DEF Apart
  <2> QED
    BY <2>3, <2>6, <2>9, <2>10, <2>11, <2>12, <2>13 DEF Apart
<1>15. CASE PiSwitches(u)
  <2>1. PICK x \in Sessions : x = load[u].want
    BY <1>0 DEF LoadRecords
  <2>2. PICK r : r = Replayed(x)
    OBVIOUS
  <2>3. /\ channel' = channel \o r
        /\ shown' = shown
        /\ events' = events
    BY <1>15, <2>1, <2>2 DEF PiSwitches, bridgeVars, filterVars
  <2>4. Records[x] \in Nat
    BY SwitchAssumption
  <2>5. /\ Len(r) = Records[x]
        /\ \A i \in 1..Records[x] : r[i].seq = sequence + i
        /\ r \in Seq([parent: Sessions, seq: Nat, replay: BOOLEAN])
    <3>1. r = [i \in 1..Records[x] |->
                 [parent |-> x, seq |-> sequence + i, replay |-> TRUE]]
      BY <2>2 DEF Replayed
    <3>2. PICK T : T = [parent: Sessions, seq: Nat, replay: BOOLEAN]
      OBVIOUS
    <3>3. \A i \in 1..Records[x] :
            [parent |-> x, seq |-> sequence + i, replay |-> TRUE] \in T
      BY <1>0, <3>2
    <3>4. r \in [1..Records[x] -> T]
      BY <3>1, <3>3
    <3>5. Len(r) = Records[x] /\ r \in Seq(T)
      BY <2>4, <3>4
    <3> QED
      BY <3>1, <3>2, <3>5
  <2>6. Once(channel') /\ \A n \in Nums(channel') :
                            n \in Nums(channel) \/ n > sequence
    BY <1>0, <2>3, <2>4, <2>5, ConcatOnce DEF Apart
  <2>7. /\ Nums(shown) \subseteq 1..sequence
        /\ Nums(events) \subseteq 1..sequence
        /\ \A t \in Loads : Nums(load[t].drain) \subseteq 1..sequence
    BY <1>0, NumsBound DEF TypeOK, LoadRecords
  <2>8. \A t \in Loads : load'[t].drain = load[t].drain
    BY <1>0, <1>15 DEF PiSwitches, Goto, LoadRecords
  <2>9. /\ Disjoint(Nums(shown), Nums(channel'))
        /\ Disjoint(Nums(channel'), Nums(events))
        /\ \A t \in Loads : Disjoint(Nums(load[t].drain), Nums(channel'))
    <3>1. \A n \in 1..sequence : ~(n > sequence)
      BY <1>0
    <3> QED
      BY <2>6, <2>7, <3>1 DEF Apart, Disjoint
  <2> QED
    BY <2>3, <2>6, <2>8, <2>9 DEF Apart
<1> QED
  BY <1>5, <1>7, <1>8, <1>9, <1>10, <1>11, <1>12, <1>13, <1>14, <1>15
  DEF LoadNext

\* All steps keep them apart; new events have new numbers.
LEMMA ApartNext ==
  ASSUME TypeOK, Apart, [Next]_vars
  PROVE  Apart'
<1>1. CASE handle_event
  <2>1. PICK e : e = Head(channel)
    OBVIOUS
  <2>2. /\ channel # <<>>
        /\ channel' = Tail(channel)
        /\ handle_subagent_bridge_message(e)
        /\ load' = load
    BY <1>1, <2>1 DEF handle_event
  <2>3. /\ e \in Events(sequence)
        /\ Once(channel')
        /\ e.seq \in Nums(channel)
        /\ e.seq \notin Nums(channel')
        /\ Nums(channel') \subseteq Nums(channel)
    BY <2>1, <2>2, TailOnce DEF TypeOK, Apart
  <2>4. /\ e.seq \notin Nums(shown)
        /\ e.seq \notin Nums(events)
        /\ \A t \in Loads : e.seq \notin Nums(load[t].drain)
    BY <2>3 DEF Apart, Disjoint
  <2>5. /\ Once(shown')
        /\ Once(events')
        /\ Disjoint(Nums(shown'), Nums(events'))
        /\ Nums(shown') \subseteq Nums(shown) \cup {e.seq}
        /\ Nums(events') \subseteq Nums(events) \cup {e.seq}
    BY <2>2, <2>3, <2>4, HandleApart
  <2>6. /\ Disjoint(Nums(shown'), Nums(channel'))
        /\ Disjoint(Nums(channel'), Nums(events'))
    BY <2>3, <2>5 DEF Apart, Disjoint
  <2>7. \A t \in Loads :
          /\ Disjoint(Nums(load[t].drain), Nums(shown'))
          /\ Disjoint(Nums(load[t].drain), Nums(channel'))
          /\ Disjoint(Nums(load[t].drain), Nums(events'))
    BY <2>3, <2>4, <2>5 DEF Apart, Disjoint
  <2> QED
    BY <2>2, <2>3, <2>5, <2>6, <2>7 DEF Apart
<1>2. ASSUME NEW t \in Loads, LoadNext(t) PROVE Apart'
  BY <1>2, ApartLoad
<1>3. ASSUME NEW x \in Sessions, Report(x) PROVE Apart'
  <2>1. PICK e : e = [parent |-> x, seq |-> sequence + 1, replay |-> FALSE]
    OBVIOUS
  <2>2. /\ channel' = Append(channel, e)
        /\ shown' = shown
        /\ events' = events
        /\ load' = load
    BY <1>3, <2>1 DEF Report, bridgeVars, filterVars
  <2>3. /\ sequence \in Nat
        /\ sequence + 1 \in Nat
        /\ sequence + 1 \in 1..(sequence + 1)
        /\ sequence <= sequence + 1
        /\ sequence + 1 \notin 1..sequence
    BY DEF TypeOK
  <2>4. /\ Nums(shown) \subseteq 1..sequence
        /\ Nums(events) \subseteq 1..sequence
        /\ Nums(channel) \subseteq 1..sequence
        /\ \A t \in Loads : Nums(load[t].drain) \subseteq 1..sequence
    BY <2>3, NumsBound DEF TypeOK, LoadRecords
  <2>5. e \in Events(sequence + 1) /\ e.seq = sequence + 1
    BY <2>1, <2>3 DEF Events
  <2>6. channel \in Seq(Events(sequence + 1))
    BY <2>3, EventsGrow DEF TypeOK
  <2>7. /\ Once(channel')
        /\ Nums(channel') = Nums(channel) \cup {sequence + 1}
    BY <2>2, <2>3, <2>4, <2>5, <2>6, AppendOnce DEF Apart
  <2>8. /\ sequence + 1 \notin Nums(shown)
        /\ sequence + 1 \notin Nums(events)
        /\ \A t \in Loads : sequence + 1 \notin Nums(load[t].drain)
    BY <2>3, <2>4
  <2> QED
    BY <2>2, <2>7, <2>8 DEF Apart, Disjoint
<1>4. ASSUME UNCHANGED <<shown, channel, events, load>> PROVE Apart'
  BY <1>4 DEF Apart
<1>5. ASSUME NEW x \in Sessions, new_session(x) PROVE Apart'
  BY <1>4, <1>5 DEF new_session, bridgeVars, filterVars
<1>6. CASE new_session_refreshed
  BY <1>4, <1>6 DEF new_session_refreshed, bridgeVars, filterVars, piVars
<1>7. CASE UNCHANGED vars
  BY <1>4, <1>7 DEF vars, bridgeVars, filterVars, piVars
<1> QED
  BY <1>1, <1>2, <1>3, <1>5, <1>6, <1>7 DEF Next

\* No subagent event is shown twice: the buffer takes an event out of the
\* channel and hands it out once, also when it is deferred again by the next
\* switch, and a replayed event, which the sequence filter lets pass, is not
\* repeated.
THEOREM NeverShownTwice == Spec => []ShownOnce
<1>1. Init => Apart
  <2>1. Once(<<>>) /\ Nums(<<>>) = {}
    BY DEF Once, Nums
  <2> QED
    BY <2>1 DEF Init, Apart, Idle, Disjoint
<1>2. TypeOK /\ Apart /\ [Next]_vars => Apart'
  BY ApartNext
<1>3. TypeOK /\ Apart => ShownOnce
  BY DEF Apart, Once, ShownOnce
<1> QED
  BY <1>1, <1>2, <1>3, TypeCorrect, PTL DEF Spec

----------------------------------------------------------------------------
(***************************************************************************)
(* All events of the open session are delivered.  An event that Pi has     *)
(* emitted since it opened the session is in the channel, in the buffer or *)
(* in what a load hands out until it reaches the pager, from the moment    *)
(* Pi opens the session to the one the program leaves it (Delivers).  For  *)
(* this the parts of a transition have to fit together (Phases).           *)
(***************************************************************************)
In(e, s) == \E i \in 1..Len(s) : s[i] = e

\* The number in the filter is the one of an event that was shown.
Newest == \A x \in Sessions : seen[x] = 0 \/ seen[x] \in Nums(shown)

\* What holds of a load in each of its states, with the target, the session
\* of the adapter and that of Pi.
Stage(l, tg, s, p) ==
  /\ l.pc # "draining" => l.drain = <<>>
  /\ l.pc \in {"switching", "switched"} => tg = l.want /\ s # l.want
  /\ l.pc = "switched" => p = l.want
  /\ l.pc = "replaying" => s = l.want /\ tg \in {None, l.want}
  /\ l.pc = "draining" =>
       tg = None /\ \A i \in 1..Len(l.drain) : l.drain[i].parent = s

\* Without overlap there is one operation at a time, the buffer holds events of
\* the target, and only the session that Pi has open owes events.
Phases ==
  /\ \A t, u \in Loads : load[t].pc # "idle" /\ load[u].pc # "idle" => t = u
  /\ creating => \A t \in Loads : load[t].pc = "idle"
  /\ (\A t \in Loads : load[t].pc = "idle") => target = None
  /\ \A t \in Loads : Stage(load[t], target, session, piSession)
  /\ \A i \in 1..Len(events) : events[i].parent = target
  /\ \A e \in owed : e.parent = piSession
  /\ creating /\ session # piSession => owed = {}

Reached(e) == In(e, shown) \/ (~e.replay /\ e.seq < seen[e.parent])
Waits(e) == In(e, channel) \/ In(e, events) \/ \E t \in Loads : In(e, load[t].drain)
Open == session = piSession \/ creating \/ \E t \in Loads : load[t].pc = "switched"
Delivers == Open => \A e \in owed : Reached(e) \/ Waits(e)

\* An event is appended to the channel or to the buffer.
LEMMA InAppend ==
  ASSUME NEW S, NEW s \in Seq(S), NEW e \in S
  PROVE  /\ In(e, Append(s, e))
         /\ \A d : In(d, s) => In(d, Append(s, e))
         /\ \A d : In(d, Append(s, e)) => d = e \/ In(d, s)
<1>1. /\ Len(s) \in Nat
      /\ Len(Append(s, e)) = Len(s) + 1
      /\ \A i \in 1..Len(s) : Append(s, e)[i] = s[i]
      /\ Append(s, e)[Len(s) + 1] = e
  BY AppendProperties, LenProperties
<1>2. /\ \A i \in 1..Len(s) : i \in 1..(Len(s) + 1)
      /\ Len(s) + 1 \in 1..(Len(s) + 1)
      /\ \A i \in 1..(Len(s) + 1) : i \in 1..Len(s) \/ i = Len(s) + 1
  BY <1>1
<1> DEFINE a == Append(s, e)
<1> HIDE DEF a
<1>3. /\ Len(a) = Len(s) + 1 /\ \A i \in 1..Len(s) : a[i] = s[i]
      /\ a[Len(s) + 1] = e
  BY <1>1 DEF a
<1>4. /\ In(e, a) /\ \A d : In(d, s) => In(d, a)
      /\ \A d : In(d, a) => d = e \/ In(d, s)
  BY <1>2, <1>3 DEF In
<1> QED
  BY <1>4 DEF a

\* The first event of a sequence is taken.
LEMMA InTail ==
  ASSUME NEW S, NEW s \in Seq(S), s # <<>>
  PROVE  /\ \A d : In(d, s) => d = Head(s) \/ In(d, Tail(s))
         /\ \A d : In(d, Tail(s)) => In(d, s)
<1> DEFINE r == Tail(s)
<1>1. Len(s) \in Nat /\ Len(s) >= 1
  BY LenProperties, EmptySeq
<1>2. /\ Len(r) = Len(s) - 1
      /\ \A i \in 1..Len(r) : r[i] = s[i + 1]
  BY HeadTailProperties
<1>3. Head(s) = s[1]
  BY <1>1
<1> HIDE DEF r
<1>4. ASSUME NEW i \in 1..Len(s)
      PROVE  i = 1 \/ (i - 1 \in 1..Len(r) /\ r[i - 1] = s[i])
  <2> SUFFICES ASSUME i # 1 PROVE i - 1 \in 1..Len(r) /\ r[i - 1] = s[i]
    OBVIOUS
  <2>1. i - 1 \in 1..Len(r) /\ (i - 1) + 1 = i
    BY <1>1, <1>2
  <2> QED
    BY <1>2, <2>1
<1>5. \A i \in 1..Len(r) : i + 1 \in 1..Len(s)
  BY <1>1, <1>2
<1>6. \A d : In(d, s) => d = Head(s) \/ In(d, r)
  BY <1>3, <1>4 DEF In
<1>7. \A d : In(d, r) => In(d, s)
  BY <1>2, <1>5 DEF In
<1> QED
  BY <1>6, <1>7 DEF r

\* Two sequences of events in one.
LEMMA InConcat ==
  ASSUME NEW S, NEW s \in Seq(S), NEW r \in Seq(S), NEW d
  PROVE  In(d, s) \/ In(d, r) => In(d, s \o r)
<1> DEFINE a == s \o r
<1>1. /\ Len(s) \in Nat /\ Len(r) \in Nat /\ Len(a) = Len(s) + Len(r)
      /\ \A i \in 1..(Len(s) + Len(r)) :
           a[i] = IF i <= Len(s) THEN s[i] ELSE r[i - Len(s)]
  BY ConcatProperties, LenProperties
<1> HIDE DEF a
<1>2. ASSUME NEW i \in 1..Len(s) PROVE i \in 1..Len(a) /\ a[i] = s[i]
  BY <1>1
<1>3. ASSUME NEW i \in 1..Len(r)
      PROVE  i + Len(s) \in 1..Len(a) /\ a[i + Len(s)] = r[i]
  <2>1. /\ i + Len(s) \in 1..(Len(s) + Len(r)) /\ ~(i + Len(s) <= Len(s))
        /\ (i + Len(s)) - Len(s) = i
    BY <1>1
  <2> QED
    BY <1>1, <2>1
<1>4. In(d, s) \/ In(d, r) => In(d, a)
  BY <1>2, <1>3 DEF In
<1> QED
  BY <1>4 DEF a

\* An event that is handled: what reached the pager stays there, and an event
\* of the target or of the active session is deferred, shown or overtaken.
LEMMA HandleReaches ==
  ASSUME TypeOK, Newest, NEW e \in Events(sequence), e.seq \notin Nums(shown),
         handle_subagent_bridge_message(e)
  PROVE  /\ Newest'
         /\ \A d \in Events(sequence) : Reached(d) => Reached(d)'
         /\ \A d : In(d, events) => In(d, events')
         /\ e.parent \in {target, session} => Reached(e)' \/ In(e, events')
         /\ e.parent = target => \A d : In(d, events') => d = e \/ In(d, events)
         /\ e.parent # target => events' = events
<1>1. /\ sequence \in Nat /\ seen \in [Sessions -> 0..sequence]
      /\ shown \in Seq(Events(sequence)) /\ events \in Seq(Events(sequence))
      /\ e.parent \in Sessions /\ e.seq \in 1..sequence
      /\ \A d \in Events(sequence) : d.parent \in Sessions /\ d.seq \in 1..sequence
  BY DEF TypeOK, Events
<1>2. CASE UNCHANGED filterVars
  <2>1. Newest'
    BY <1>2 DEF Newest, filterVars
  <2>2. \A d : Reached(d) => Reached(d)'
    BY <1>2 DEF Reached, filterVars
  <2>3. \/ e.parent = target /\ events' = Append(events, e)
        \/ e.parent # target /\ events' = events
    BY DEF handle_subagent_bridge_message
  <2>4. /\ \A d : In(d, events) => In(d, Append(events, e))
        /\ In(e, Append(events, e))
        /\ \A d : In(d, Append(events, e)) => d = e \/ In(d, events)
    BY <1>1, InAppend
  <2>5. ASSUME e.parent = session, e.parent # target PROVE Reached(e)'
    <3>1. Stale(e)
      <4>1. Project(e)
        BY <2>5 DEF handle_subagent_bridge_message
      <4>2. ~(shown' = Append(shown, e))
        <5>1. Len(Append(shown, e)) = Len(shown) + 1 /\ Len(shown) \in Nat
          BY <1>1, AppendProperties, LenProperties
        <5>2. Len(Append(shown, e)) # Len(shown)
          BY <5>1
        <5> QED
          BY <1>2, <5>2 DEF filterVars
      <4> QED
        BY <4>1, <4>2 DEF Project
    <3>2. ~e.replay /\ e.seq <= seen[e.parent] /\ e.seq # seen[e.parent]
      BY <1>1, <3>1 DEF Stale, Newest
    <3>3. e.seq < seen[e.parent]
      BY <1>1, <3>2
    <3> QED
      BY <1>2, <3>2, <3>3 DEF Reached, filterVars
  <2> QED
    BY <2>1, <2>2, <2>3, <2>4, <2>5
<1>3. CASE /\ accept_subagent_bridge_sequence(e) /\ shown' = Append(shown, e)
           /\ events' = events
  <2>1. In(e, shown') /\ \A d : In(d, shown) => In(d, shown')
    BY <1>1, <1>3, InAppend
  <2>2. \A x \in Sessions :
          /\ seen'[x] = seen[x] \/ (x = e.parent /\ seen'[x] = e.seq)
          /\ seen[x] <= seen'[x]
    <3>1. seen' = [seen EXCEPT ![e.parent] =
                     IF e.seq < seen[e.parent] THEN seen[e.parent] ELSE e.seq]
      BY <1>3 DEF accept_subagent_bridge_sequence
    <3> QED
      BY <1>1, <3>1
  <2>3. e.seq \in Nums(shown') /\ Nums(shown) \subseteq Nums(shown')
    <3>1. \A d : In(d, shown) => d.seq \in Nums(shown)
      BY DEF In, Nums
    <3>2. \A d : In(d, shown') => d.seq \in Nums(shown')
      BY DEF In, Nums
    <3>3. \A n \in Nums(shown) : \E d : In(d, shown) /\ d.seq = n
      BY DEF In, Nums
    <3> QED
      BY <2>1, <3>2, <3>3
  <2>4. Newest'
    BY <2>2, <2>3 DEF Newest
  <2>5. ASSUME NEW d \in Events(sequence), Reached(d) PROVE Reached(d)'
    <3>1. CASE In(d, shown)
      BY <2>1, <3>1 DEF Reached
    <3>2. CASE ~d.replay /\ d.seq < seen[d.parent]
      <4>1. seen[d.parent] \in Nat /\ seen'[d.parent] \in Nat /\ d.seq \in Nat
            /\ seen[d.parent] <= seen'[d.parent]
        BY <1>1, <2>2
      <4>2. d.seq < seen'[d.parent]
        BY <3>2, <4>1
      <4> QED
        BY <3>2, <4>2 DEF Reached
    <3> QED
      BY <2>5, <3>1, <3>2 DEF Reached
  <2>6. e.parent # target
    <3>1. Append(shown, e) # shown
      <4>1. Len(Append(shown, e)) = Len(shown) + 1 /\ Len(shown) \in Nat
        BY <1>1, AppendProperties, LenProperties
      <4>2. Len(Append(shown, e)) # Len(shown)
        BY <4>1
      <4> QED
        BY <4>2
    <3> QED
      BY <1>3, <3>1 DEF handle_subagent_bridge_message, filterVars
  <2> QED
    BY <1>3, <2>1, <2>4, <2>5, <2>6 DEF Reached
<1> QED
  BY <1>2, <1>3 DEF handle_subagent_bridge_message, Project, filterVars

\* Load u is the only operation, if any.
Solo(u) ==
  ~creating /\ \A t \in Loads : t # u => load[t].pc = "idle" /\ load[t].drain = <<>>

\* A load that takes a step is the only operation, before and after it.
LEMMA SoloStep ==
  ASSUME TypeOK, Phases, NEW u \in Loads, LoadNext(u), "overlap" \notin may
  PROVE  Solo(u) /\ Solo(u)'
<1>1. ~creating /\ \A t \in Loads : t # u => load[t].pc = "idle"
  <2>1. AllIdle \/ load[u].pc # "idle"
    BY DEF LoadNext, switch_session, load_active, PiSwitches, PiRefuses,
      bootstrap_loaded, bootstrap_failed, replay_failed, commit_if_target,
      drain, load_ends, MayStart
  <2> QED
    BY <2>1 DEF AllIdle, Phases
<1>2. \A t \in Loads : t # u => load[t].drain = <<>>
  BY <1>1 DEF Phases, Stage
<1>3. creating' = creating
  BY DEF LoadNext, switch_session, load_active, PiSwitches, PiRefuses,
    bootstrap_loaded, bootstrap_failed, replay_failed, commit_if_target,
    drain, load_ends
<1>4. \A t \in Loads : t # u => load'[t] = load[t]
  <2>1. load \in [Loads -> LoadRecords(sequence)]
    BY DEF TypeOK
  <2> QED
    BY <2>1 DEF LoadNext, switch_session, load_active, PiSwitches, PiRefuses,
      bootstrap_loaded, bootstrap_failed, replay_failed, commit_if_target,
      drain, load_ends, StartReplay, Return, Goto
<1> QED
  BY <1>1, <1>2, <1>3, <1>4 DEF Solo

\* What is left to show of such a step.
LEMMA SoloPhases ==
  ASSUME NEW u \in Loads, Solo(u)',
         Stage(load[u], target, session, piSession)',
         load'[u].pc = "idle" => target' = None,
         \A i \in 1..Len(events') : events'[i].parent = target',
         \A e \in owed' : e.parent = piSession'
  PROVE  Phases'
<1>1. /\ ~creating'
      /\ \A t \in Loads : t # u => load'[t].pc = "idle" /\ load'[t].drain = <<>>
  BY DEF Solo
<1>2. \A t \in Loads : Stage(load[t], target, session, piSession)'
  BY <1>1 DEF Stage
<1> QED
  BY <1>1, <1>2 DEF Phases

\* A step of the only load that drops nothing of what is owed.
LEMMA SoloDelivers ==
  ASSUME TypeOK, Phases, Delivers, NEW u \in Loads, Solo(u), Solo(u)',
         Open' => session = piSession \/ load[u].pc = "switched",
         owed' \subseteq owed,
         \A d \in owed : Reached(d) => Reached(d)',
         \A d \in owed : In(d, channel) => In(d, channel'),
         \A d \in owed :
           In(d, events) /\ Open' => In(d, events') \/ In(d, load'[u].drain),
         \A d \in owed :
           In(d, load[u].drain) =>
             Reached(d)' \/ In(d, events') \/ In(d, load'[u].drain)
  PROVE  Delivers'
<1>1. \A d : ~In(d, <<>>)
  BY DEF In
<1> SUFFICES ASSUME Open', NEW d \in owed' PROVE Reached(d)' \/ Waits(d)'
  BY DEF Delivers
<1>2. Open
  BY DEF Open
<1>3. Reached(d) \/ Waits(d)
  BY <1>2 DEF Delivers
<1>4. Waits(d) => In(d, channel) \/ In(d, events) \/ In(d, load[u].drain)
  BY <1>1 DEF Waits, Solo
<1> QED
  BY <1>3, <1>4 DEF Waits

\* Every step of a load keeps the phases and loses no event of an open session.
LEMMA DeliversLoad ==
  ASSUME TypeOK, TypeOK', Apart, Newest, Phases, Delivers, NEW u \in Loads,
         LoadNext(u), Without({"read", "replay", "overlap"})
  PROVE  Phases' /\ Delivers' /\ Newest'
<1>1. Solo(u) /\ Solo(u)'
  BY SoloStep DEF Without
<1>2. /\ load \in [Loads -> LoadRecords(sequence)]
      /\ load[u] \in LoadRecords(sequence) /\ load[u].want \in Sessions
      /\ load[u].drain \in Seq(Events(sequence))
      /\ load[u] = [pc |-> load[u].pc, want |-> load[u].want,
                    drain |-> load[u].drain]
      /\ sequence \in Nat /\ session \in Sessions
      /\ events \in Seq(Events(sequence)) /\ owed \subseteq Events(sequence)
      /\ None \notin Sessions
  BY SwitchAssumption DEF TypeOK, LoadRecords
<1>3. Stage(load[u], target, session, piSession)
  BY DEF Phases
<1>4. /\ \A i \in 1..Len(events) : events[i].parent = target
      /\ \A e \in owed : e.parent = piSession
      /\ \A d : ~In(d, <<>>) /\ Len(<<>>) = 0
  BY DEF Phases, In
<1>5. \A d \in owed : In(d, events) => d.parent = target
  BY <1>4 DEF In
<1>6. target = None => \A d : ~In(d, events)
  <2>1. \A i \in 1..Len(events) : events[i] \in Events(sequence)
    BY <1>2
  <2>2. \A i \in 1..Len(events) : events[i].parent \in Sessions
    BY <2>1 DEF Events
  <2> QED
    BY <1>2, <1>4, <2>2 DEF In
<1>7. load[u].pc = "idle" => target = None /\ load[u].drain = <<>>
  BY <1>1, <1>3 DEF Phases, Solo, Stage
<1>8. "read" \notin may /\ "replay" \notin may
  BY DEF Without
<1>9. ASSUME UNCHANGED filterVars
      PROVE  Newest' /\ \A d : Reached(d) => Reached(d)'
  BY <1>9 DEF filterVars, Newest, Reached
<1>10. Open' => session' = piSession' \/ load'[u].pc = "switched"
  BY <1>1 DEF Open, Solo
<1>11. ASSUME NEW x \in Sessions, switch_session(u, x)
       PROVE  Phases' /\ Delivers' /\ Newest'
  <2>1. /\ load'[u].pc = "switching" /\ load'[u].want = x
        /\ load'[u].drain = <<>>
    BY <1>2, <1>11 DEF switch_session, Idle
  <2>2. /\ x # session /\ target = None /\ load[u].pc = "idle" /\ target' = x
        /\ events' = <<>> /\ UNCHANGED <<session, filterVars, piVars>>
    BY <1>11 DEF switch_session
  <2>3. Phases'
    BY <1>1, <1>4, <2>1, <2>2, SoloPhases DEF Stage, piVars
  <2>4. Delivers'
    BY <1>1, <1>4, <1>6, <1>7, <1>9, <1>10, <2>1, <2>2, SoloDelivers DEF piVars
  <2> QED
    BY <1>9, <2>2, <2>3, <2>4
<1>12. ASSUME load_active(u) PROVE Phases' /\ Delivers' /\ Newest'
  <2>1. /\ load'[u].pc = "replaying" /\ load'[u].want = session
        /\ load'[u].drain = <<>>
    BY <1>2, <1>8, <1>12 DEF load_active, StartReplay, Idle
  <2>2. /\ load[u].pc = "idle"
        /\ UNCHANGED <<session, bridgeVars, filterVars, piVars>>
    BY <1>12 DEF load_active
  <2>3. Phases'
    BY <1>1, <1>4, <1>7, <2>1, <2>2, SoloPhases DEF Stage, piVars, bridgeVars
  <2>4. Delivers'
    BY <1>1, <1>4, <1>6, <1>7, <1>9, <1>10, <2>1, <2>2, SoloDelivers
    DEF piVars, bridgeVars
  <2> QED
    BY <1>9, <2>2, <2>3, <2>4
<1>13. ASSUME PiRefuses(u) PROVE Phases' /\ Delivers' /\ Newest'
  <2>1. load'[u] = Idle /\ load'[u].pc = "idle" /\ load'[u].drain = <<>>
    BY <1>2, <1>13 DEF PiRefuses, Return, Idle
  <2>2. /\ load[u].pc = "switching" /\ load[u].drain = <<>>
        /\ target = load[u].want /\ session # target
    BY <1>3, <1>13 DEF PiRefuses, Stage
  <2>3. /\ target' = None /\ events' = <<>>
        /\ UNCHANGED <<session, filterVars, piVars>>
    BY <1>13, <2>2 DEF PiRefuses, abandon
  <2>4. Phases'
    BY <1>1, <1>4, <2>1, <2>3, SoloPhases DEF Stage, piVars
  <2>5. Delivers'
    <3>1. Open' => session = piSession
      BY <1>10, <2>1, <2>3 DEF piVars
    <3>2. \A d \in owed : In(d, events) /\ Open' => FALSE
      BY <1>4, <1>5, <2>2, <3>1
    <3> QED
      BY <1>1, <1>4, <1>9, <2>2, <2>3, <3>1, <3>2, SoloDelivers DEF piVars
  <2> QED
    BY <1>9, <2>3, <2>4, <2>5
<1>14. ASSUME bootstrap_loaded(u) PROVE Phases' /\ Delivers' /\ Newest'
  <2>1. /\ load'[u].pc = "replaying" /\ load'[u].want = piSession
        /\ load'[u].drain = <<>>
    BY <1>2, <1>8, <1>14 DEF bootstrap_loaded, StartReplay, Idle
  <2>2. /\ load[u].pc = "switched" /\ load[u].drain = <<>>
        /\ target = load[u].want /\ piSession = load[u].want
    BY <1>3, <1>14 DEF bootstrap_loaded, Stage
  <2>3. session' = piSession /\ UNCHANGED <<bridgeVars, filterVars, piVars>>
    BY <1>14 DEF bootstrap_loaded
  <2>4. Phases'
    BY <1>1, <1>4, <2>1, <2>2, <2>3, SoloPhases DEF Stage, piVars, bridgeVars
  <2>5. Delivers'
    BY <1>1, <1>4, <1>9, <2>1, <2>2, <2>3, SoloDelivers DEF piVars, bridgeVars
  <2> QED
    BY <1>9, <2>3, <2>4, <2>5
<1>15. ASSUME bootstrap_failed(u) PROVE Phases' /\ Delivers' /\ Newest'
  <2>1. load'[u] = Idle /\ load'[u].pc = "idle" /\ load'[u].drain = <<>>
    BY <1>2, <1>15 DEF bootstrap_failed, Return, Idle
  <2>2. /\ load[u].pc = "switched" /\ target = load[u].want
        /\ session # load[u].want /\ piSession = load[u].want
    BY <1>3, <1>15 DEF bootstrap_failed, Stage
  <2>3. /\ target' = None /\ events' = <<>>
        /\ UNCHANGED <<session, filterVars, piVars>>
    BY <1>15, <2>2 DEF bootstrap_failed, abandon
  <2>4. Phases'
    BY <1>1, <1>4, <2>1, <2>3, SoloPhases DEF Stage, piVars
  <2>5. ~Open'
    BY <1>10, <2>1, <2>2, <2>3 DEF piVars
  <2> QED
    BY <1>9, <2>3, <2>4, <2>5 DEF Delivers
<1>16. ~replay_failed(u)
  BY <1>8 DEF replay_failed
<1>17. ASSUME commit_if_target(u) PROVE Phases' /\ Delivers' /\ Newest'
  <2>1. /\ load[u].pc = "replaying" /\ session = load[u].want
        /\ target \in {None, load[u].want} /\ load[u].drain = <<>>
    BY <1>3, <1>17 DEF commit_if_target, Stage
  <2>2. UNCHANGED <<session, filterVars, piVars>>
    BY <1>17 DEF commit_if_target
  <2>3. CASE target = load[u].want
    <3>1. /\ load'[u].pc = "draining" /\ load'[u].drain = events
          /\ target' = None /\ events' = <<>>
      BY <1>2, <1>17, <2>3 DEF commit_if_target
    <3>2. Phases'
      BY <1>1, <1>4, <2>1, <2>2, <2>3, <3>1, SoloPhases DEF Stage, piVars
    <3>3. Delivers'
      BY <1>1, <1>4, <1>9, <1>10, <2>1, <2>2, <3>1, SoloDelivers DEF piVars
    <3> QED
      BY <1>9, <2>2, <3>2, <3>3
  <2>4. CASE target # load[u].want
    <3>1. /\ load'[u] = Idle /\ load'[u].pc = "idle" /\ load'[u].drain = <<>>
          /\ target' = target /\ events' = events
      BY <1>2, <1>17, <2>4 DEF commit_if_target, Return, Idle, bridgeVars
    <3>2. Phases'
      BY <1>1, <1>4, <2>1, <2>2, <2>4, <3>1, SoloPhases DEF Stage, piVars
    <3>3. Delivers'
      BY <1>1, <1>4, <1>9, <1>10, <2>1, <2>2, <3>1, SoloDelivers DEF piVars
    <3> QED
      BY <1>9, <2>2, <3>2, <3>3
  <2> QED
    BY <2>3, <2>4
<1>18. ASSUME load_ends(u) PROVE Phases' /\ Delivers' /\ Newest'
  <2>1. load'[u] = Idle /\ load'[u].pc = "idle" /\ load'[u].drain = <<>>
    BY <1>2, <1>18 DEF load_ends, Return, Idle
  <2>2. load[u].pc = "draining" /\ load[u].drain = <<>> /\ target = None
    BY <1>3, <1>18 DEF load_ends, Stage
  <2>3. UNCHANGED <<session, bridgeVars, filterVars, piVars>>
    BY <1>18 DEF load_ends
  <2>4. Phases'
    BY <1>1, <1>4, <2>1, <2>2, <2>3, SoloPhases DEF Stage, piVars, bridgeVars
  <2>5. Delivers'
    BY <1>1, <1>4, <1>9, <1>10, <2>1, <2>2, <2>3, SoloDelivers
    DEF piVars, bridgeVars
  <2> QED
    BY <1>9, <2>3, <2>4, <2>5
<1>19. ASSUME drain(u) PROVE Phases' /\ Delivers' /\ Newest'
  <2>1. PICK s : s = load[u].drain
    OBVIOUS
  <2>2. PICK e : e = Head(s)
    OBVIOUS
  <2>3. /\ s # <<>> /\ handle_subagent_bridge_message(e)
        /\ UNCHANGED <<session, target, piVars>>
    BY <1>19, <2>1, <2>2 DEF drain
  <2>4. /\ load[u].pc = "draining" /\ target = None
        /\ \A i \in 1..Len(s) : s[i].parent = session
    BY <1>3, <1>19, <2>1 DEF drain, Stage
  <2>5. /\ Len(s) \in Nat /\ Len(s) >= 1 /\ e = s[1]
        /\ Len(Tail(s)) = Len(s) - 1
        /\ \A i \in 1..Len(Tail(s)) : Tail(s)[i] = s[i + 1]
    BY <1>2, <2>1, <2>2, <2>3, LenProperties, EmptySeq, HeadTailProperties
  <2>6. e.parent = session /\ e.parent # target
    BY <1>2, <2>4, <2>5
  <2>7. load'[u].pc = "draining" /\ load'[u].drain = Tail(s)
    BY <1>2, <1>19, <2>1, <2>2, <2>4, <2>6 DEF drain
  <2>8. e \in Events(sequence) /\ e.seq \in Nums(s)
    BY <1>2, <2>1, <2>2, <2>3, TailOnce DEF Apart
  <2>9. e.seq \notin Nums(shown)
    BY <2>1, <2>8 DEF Apart, Disjoint
  <2>10. /\ Newest'
         /\ \A d \in Events(sequence) : Reached(d) => Reached(d)'
         /\ Reached(e)' \/ In(e, events')
         /\ events' = events
    BY <2>3, <2>6, <2>8, <2>9, HandleReaches
  <2>11. \A d : In(d, s) => d = e \/ In(d, Tail(s))
    BY <1>2, <2>1, <2>2, <2>3, InTail
  <2>12. \A i \in 1..Len(Tail(s)) : Tail(s)[i].parent = session
    <3>1. \A i \in 1..Len(Tail(s)) : i + 1 \in 1..Len(s)
      BY <2>5
    <3> QED
      BY <2>4, <2>5, <3>1
  <2>13. PICK r : r = Tail(s)
    OBVIOUS
  <2>14. /\ load'[u].pc = "draining" /\ load'[u].drain = r
         /\ \A i \in 1..Len(r) : r[i].parent = session
         /\ \A d : In(d, s) => d = e \/ In(d, r)
    BY <2>7, <2>11, <2>12, <2>13
  <2>15. Phases'
    <3>1. Stage(load[u], target, session, piSession)'
      BY <2>3, <2>4, <2>14 DEF Stage
    <3>2. /\ events' = events /\ target' = target /\ owed' = owed
          /\ piSession' = piSession /\ load'[u].pc # "idle"
      BY <2>3, <2>10, <2>14 DEF piVars
    <3>3. /\ \A i \in 1..Len(events') : events'[i].parent = target'
          /\ \A d \in owed' : d.parent = piSession'
      BY <1>4, <3>2
    <3> QED
      BY <1>1, <3>1, <3>2, <3>3, SoloPhases
  <2>16. Delivers'
    <3>1. ASSUME NEW d \in owed, In(d, load[u].drain)
          PROVE  Reached(d)' \/ In(d, events') \/ In(d, load'[u].drain)
      <4>1. d = e \/ In(d, r)
        BY <2>1, <2>14, <3>1
      <4>2. CASE d = e
        BY <2>10, <4>2 DEF Reached
      <4>3. CASE In(d, r)
        BY <2>14, <4>3
      <4> QED
        BY <4>1, <4>2, <4>3
    <3>2. Open' => session = piSession
      BY <1>10, <2>3, <2>14 DEF piVars
    <3>3. \A d \in owed : Reached(d) => Reached(d)'
      BY <1>2, <2>10 DEF Reached
    <3>4. events' = events /\ channel' = channel /\ owed' = owed
      BY <2>3, <2>10 DEF piVars
    <3>5. \A d \in owed : In(d, load[u].drain) =>
            Reached(d)' \/ In(d, events') \/ In(d, load'[u].drain)
      BY <3>1
    <3> QED
      BY <1>1, <3>2, <3>3, <3>4, <3>5, SoloDelivers
  <2> QED
    BY <2>10, <2>15, <2>16
<1>20. ASSUME PiSwitches(u) PROVE Phases' /\ Delivers' /\ Newest'
  <2> DEFINE x == load[u].want
             r == Replayed(x)
  <2>1. /\ load'[u].pc = "switched" /\ load'[u].want = x
        /\ load'[u].drain = load[u].drain
    BY <1>2, <1>20 DEF PiSwitches, Goto
  <2>2. /\ load[u].pc = "switching" /\ load[u].drain = <<>>
        /\ target = x /\ session # x
    BY <1>3, <1>20 DEF PiSwitches, Stage
  <2>3. /\ piSession' = x /\ channel' = channel \o r
        /\ owed' = {r[i] : i \in 1..Records[x]}
        /\ UNCHANGED <<session, bridgeVars, filterVars>>
    BY <1>20 DEF PiSwitches
  <2>4. Records[x] \in Nat
    BY <1>2, SwitchAssumption
  <2>5. /\ \A i \in 1..Records[x] : r[i].parent = x
        /\ Len(r) = Records[x]
        /\ r \in Seq([parent: Sessions, seq: Nat, replay: BOOLEAN])
    <3>1. r = [i \in 1..Records[x] |->
                 [parent |-> x, seq |-> sequence + i, replay |-> TRUE]]
      BY DEF Replayed
    <3>2. PICK T : T = [parent: Sessions, seq: Nat, replay: BOOLEAN]
      OBVIOUS
    <3> HIDE DEF r
    <3>3. \A i \in 1..Records[x] :
            [parent |-> x, seq |-> sequence + i, replay |-> TRUE] \in T
      BY <1>2, <2>4, <3>2
    <3>4. r \in [1..Records[x] -> T]
      BY <3>1, <3>3
    <3>5. Len(r) = Records[x] /\ r \in Seq(T)
      BY <2>4, <3>4
    <3> QED
      BY <3>1, <3>2, <3>5
  <2> HIDE DEF r, x
  <2>6. Phases'
    <3>1. \A e \in owed' : e.parent = x
      BY <2>3, <2>5
    <3> QED
      BY <1>1, <1>4, <2>1, <2>2, <2>3, <3>1, SoloPhases DEF Stage, bridgeVars
  <2>7. channel \in Seq([parent: Sessions, seq: Nat, replay: BOOLEAN])
    <3>1. Events(sequence) \subseteq [parent: Sessions, seq: Nat, replay: BOOLEAN]
      BY <1>2 DEF Events
    <3>2. channel \in Seq(Events(sequence))
      BY DEF TypeOK
    <3> QED
      BY <3>1, <3>2, SeqMonotonic
  <2>8. ASSUME NEW d \in owed' PROVE In(d, channel')
    <3>1. In(d, r)
      BY <2>3, <2>5, <2>8 DEF In
    <3> QED
      BY <2>3, <2>5, <2>7, <3>1, InConcat
  <2> QED
    BY <1>9, <2>3, <2>6, <2>8 DEF Delivers, Waits
<1> QED
  BY <1>11, <1>12, <1>13, <1>14, <1>15, <1>16, <1>17, <1>18, <1>19, <1>20
  DEF LoadNext

\* The other steps: the event loop, session/new and the subagents.
LEMMA DeliversOther ==
  ASSUME TypeOK, TypeOK', Apart, Newest, Phases, Delivers,
         Without({"read", "replay", "overlap"}),
         \/ handle_event
         \/ \E x \in Sessions : new_session(x) \/ Report(x)
         \/ new_session_refreshed
  PROVE  Phases' /\ Delivers' /\ Newest'
<1>1. /\ sequence \in Nat /\ session \in Sessions /\ None \notin Sessions
      /\ channel \in Seq(Events(sequence)) /\ events \in Seq(Events(sequence))
      /\ owed \subseteq Events(sequence)
  BY SwitchAssumption DEF TypeOK
<1>2. ASSUME handle_event PROVE Phases' /\ Delivers' /\ Newest'
  <2>1. PICK e : e = Head(channel)
    OBVIOUS
  <2>2. /\ channel # <<>> /\ channel' = Tail(channel)
        /\ handle_subagent_bridge_message(e)
        /\ UNCHANGED <<session, target, load, creating, piSession, owed>>
    BY <1>2, <2>1 DEF handle_event
  <2>3. e \in Events(sequence) /\ e.seq \in Nums(channel)
    BY <1>1, <2>1, <2>2, TailOnce DEF Apart
  <2>4. e.seq \notin Nums(shown)
    BY <2>3 DEF Apart, Disjoint
  <2>5. /\ Newest'
        /\ \A d \in Events(sequence) : Reached(d) => Reached(d)'
        /\ \A d : In(d, events) => In(d, events')
        /\ e.parent \in {target, session} => Reached(e)' \/ In(e, events')
        /\ e.parent = target => \A d : In(d, events') => d = e \/ In(d, events)
        /\ e.parent # target => events' = events
    BY <2>2, <2>3, <2>4, HandleReaches
  <2>6. \A i \in 1..Len(events') : events'[i].parent = target
    <3>1. \A d : In(d, events) => d.parent = target
      BY DEF Phases, In
    <3>2. \A d : In(d, events') => d.parent = target
      BY <2>5, <3>1
    <3> QED
      BY <3>2 DEF In
  <2>7. Phases'
    BY <2>2, <2>6 DEF Phases
  <2>8. Delivers'
    <3> SUFFICES ASSUME Open', NEW d \in owed PROVE Reached(d)' \/ Waits(d)'
      BY <2>2 DEF Delivers
    <3>1. Open
      BY <2>2 DEF Open
    <3>2. Reached(d) \/ Waits(d)
      BY <3>1 DEF Delivers
    <3>3. CASE Reached(d)
      BY <1>1, <2>5, <3>3 DEF Reached
    <3>4. CASE In(d, events) \/ \E t \in Loads : In(d, load[t].drain)
      BY <2>2, <2>5, <3>4 DEF Waits
    <3>5. CASE In(d, channel)
      <4>1. d = e \/ In(d, channel')
        BY <1>1, <2>1, <2>2, <3>5, InTail
      <4>2. CASE d = e
        <5>1. d.parent = piSession /\ owed # {}
          BY DEF Phases
        <5>2. CASE session = piSession
          BY <2>5, <4>2, <5>1, <5>2 DEF Reached, Waits
        <5>3. CASE session # piSession
          <6>1. ~creating
            BY <5>1, <5>3 DEF Phases
          <6>2. PICK t \in Loads : load[t].pc = "switched"
            BY <3>1, <5>3, <6>1 DEF Open
          <6>3. target = piSession
            BY <6>2 DEF Phases, Stage
          <6> QED
            BY <2>5, <4>2, <5>1, <6>3 DEF Reached, Waits
        <5> QED
          BY <5>2, <5>3
      <4>3. CASE In(d, channel')
        BY <4>3 DEF Waits
      <4> QED
        BY <4>1, <4>2, <4>3
    <3> QED
      BY <3>2, <3>3, <3>4, <3>5 DEF Waits
  <2> QED
    BY <2>5, <2>7, <2>8
<1>3. ASSUME NEW x \in Sessions, new_session(x)
      PROVE  Phases' /\ Delivers' /\ Newest'
  <2>1. /\ AllIdle /\ creating' = TRUE /\ piSession' = x /\ owed' = {}
        /\ UNCHANGED <<session, bridgeVars, filterVars, load, channel>>
    BY <1>3 DEF new_session, MayStart, Without
  <2>2. \A t \in Loads : load[t].pc = "idle" /\ load[t].drain = <<>>
    BY <2>1 DEF AllIdle, Phases, Stage
  <2>3. \A t \in Loads : Stage(load[t], target, session, piSession)'
    BY <2>1, <2>2 DEF Stage
  <2>4. target' = None
    BY <2>1, <2>2 DEF Phases, bridgeVars
  <2>5. Phases'
    BY <2>1, <2>2, <2>3, <2>4 DEF Phases, bridgeVars
  <2>6. Newest'
    BY <2>1 DEF Newest, filterVars
  <2> QED
    BY <2>1, <2>5, <2>6 DEF Delivers
<1>4. ASSUME new_session_refreshed PROVE Phases' /\ Delivers' /\ Newest'
  <2>1. /\ creating /\ creating' = FALSE /\ session' = piSession
        /\ UNCHANGED <<bridgeVars, filterVars, load, piVars>>
    BY <1>4 DEF new_session_refreshed
  <2>2. \A t \in Loads : load[t].pc = "idle" /\ load[t].drain = <<>>
    BY <2>1 DEF Phases, Stage
  <2>3. \A t \in Loads : Stage(load[t], target, session, piSession)'
    BY <2>1, <2>2 DEF Stage
  <2>4. Phases'
    BY <2>1, <2>2, <2>3 DEF Phases, bridgeVars, piVars
  <2>5. Newest' /\ Delivers'
    BY <2>1 DEF Newest, Delivers, Open, Reached, Waits, filterVars, bridgeVars,
      piVars
  <2> QED
    BY <2>4, <2>5
<1>5. ASSUME NEW x \in Sessions, Report(x)
      PROVE  Phases' /\ Delivers' /\ Newest'
  <2>1. PICK e : e = [parent |-> x, seq |-> sequence + 1, replay |-> FALSE]
    OBVIOUS
  <2>2. /\ channel' = Append(channel, e)
        /\ owed' = IF x = piSession THEN owed \cup {e} ELSE owed
        /\ UNCHANGED <<session, bridgeVars, filterVars, load, creating,
                       piSession>>
    BY <1>5, <2>1 DEF Report
  <2>3. x = session \/ (x = piSession /\ ~creating)
    BY <1>5 DEF Report
  <2>4. e.parent = x
    BY <2>1
  <2>5. Phases'
    <3>1. \A d \in owed' : d.parent = piSession
      BY <2>2, <2>4 DEF Phases
    <3>2. creating /\ session # piSession => owed' = {}
      BY <2>2, <2>3 DEF Phases
    <3> QED
      BY <2>2, <3>1, <3>2 DEF Phases, bridgeVars
  <2>6. In(e, channel') /\ \A d : In(d, channel) => In(d, channel')
    <3>1. /\ sequence + 1 \in Nat /\ sequence <= sequence + 1
          /\ sequence + 1 \in 1..(sequence + 1)
      BY <1>1
    <3>2. e \in Events(sequence + 1)
      BY <2>1, <3>1 DEF Events
    <3>3. channel \in Seq(Events(sequence + 1))
      BY <1>1, <3>1, EventsGrow
    <3> QED
      BY <2>2, <3>2, <3>3, InAppend
  <2>7. Delivers'
    <3> SUFFICES ASSUME Open', NEW d \in owed' PROVE Reached(d)' \/ Waits(d)'
      BY DEF Delivers
    <3>1. CASE d = e
      BY <2>6, <3>1 DEF Waits
    <3>2. CASE d \in owed
      <4>1. Open
        BY <2>2 DEF Open
      <4>2. Reached(d) \/ Waits(d)
        BY <3>2, <4>1 DEF Delivers
      <4> QED
        BY <2>2, <2>6, <4>2 DEF Reached, Waits, filterVars, bridgeVars
    <3> QED
      BY <2>2, <3>1, <3>2
  <2>8. Newest'
    BY <2>2 DEF Newest, filterVars
  <2> QED
    BY <2>5, <2>7, <2>8
<1> QED
  BY <1>2, <1>3, <1>4, <1>5

\* Unless a sidecar cannot be read, a replay fails or requests overlap, the
\* events that Pi has emitted for the session it has open, its replayed records
\* included, have all reached the pager once the program is at rest on that
\* session: defer_if_targeted, the abandon on each error path and the drain of
\* commit_if_target drop none of them, whichever switches failed before; only a
\* live event may have been overtaken in the sequence filter.
THEOREM AllDelivered == Spec => []ReplayDelivered
<1> DEFINE Calm == Without({"read", "replay", "overlap"})
           I == Calm => Phases /\ Delivers /\ Newest
<1>1. Init => Apart /\ I
  <2> SUFFICES ASSUME Init PROVE Apart /\ I
    OBVIOUS
  <2>1. Once(<<>>) /\ Nums(<<>>) = {}
    BY DEF Once, Nums
  <2>2. Apart
    BY <2>1 DEF Init, Apart, Idle, Disjoint
  <2>3. \A t \in Loads : load[t].pc = "idle" /\ load[t].drain = <<>>
    BY DEF Init, Idle
  <2>4. \A t \in Loads : Stage(load[t], target, session, piSession)
    BY <2>3 DEF Stage
  <2>5. Phases
    BY <2>3, <2>4 DEF Init, Phases
  <2>6. Delivers /\ Newest
    BY DEF Init, Delivers, Newest
  <2> QED
    BY <2>2, <2>5, <2>6
<1>2. TypeOK /\ TypeOK' /\ Apart /\ I /\ [Next]_vars => Apart' /\ I'
  <2> SUFFICES ASSUME TypeOK, TypeOK', Apart, I, [Next]_vars
               PROVE  Apart' /\ I'
    OBVIOUS
  <2>1. Apart'
    BY ApartNext
  <2>2. Calm' => Calm
    BY DEF Without, Next, vars, handle_event, LoadNext, switch_session,
      load_active, PiSwitches, PiRefuses, bootstrap_loaded, bootstrap_failed,
      replay_failed, commit_if_target, drain, load_ends, new_session,
      new_session_refreshed, Report
  <2>3. CASE UNCHANGED vars
    <3>1. UNCHANGED <<session, target, events, seen, shown, load, creating,
                      piSession, channel, owed>>
      BY <2>3 DEF vars, bridgeVars, filterVars, piVars
    <3>2. Phases => Phases'
      BY <3>1 DEF Phases, Stage
    <3>3. Newest => Newest'
      BY <3>1 DEF Newest
    <3>4. Delivers => Delivers'
      BY <3>1 DEF Delivers, Open, Reached, Waits
    <3> HIDE DEF Calm
    <3> QED
      BY <2>1, <2>2, <3>2, <3>3, <3>4
  <2>4. CASE Next
    <3>1. Calm /\ (\E t \in Loads : LoadNext(t)) => Phases' /\ Delivers' /\ Newest'
      BY DeliversLoad
    <3>2. Calm /\ ~(\E t \in Loads : LoadNext(t)) =>
            Phases' /\ Delivers' /\ Newest'
      BY <2>4, DeliversOther DEF Next
    <3> HIDE DEF Calm
    <3> QED
      BY <2>1, <2>2, <3>1, <3>2
  <2> QED
    BY <2>1, <2>3, <2>4
<1>3. TypeOK /\ I => ReplayDelivered
  <2> SUFFICES ASSUME TypeOK, Phases, Delivers, AllIdle, channel = <<>>,
                      session = piSession, NEW e \in owed
               PROVE  Reached(e)
    BY DEF ReplayDelivered, Reached, In
  <2>1. \A d : ~In(d, <<>>)
    BY DEF In
  <2>2. \A t \in Loads : load[t].pc = "idle" /\ load[t].drain = <<>>
    BY DEF AllIdle, Phases, Stage
  <2>3. target = None
    BY <2>2 DEF Phases
  <2>4. ~In(e, events)
    <3>1. \A i \in 1..Len(events) : events[i] \in Events(sequence)
      BY DEF TypeOK
    <3>2. \A i \in 1..Len(events) : events[i].parent # None
      BY <3>1, SwitchAssumption DEF Events
    <3> QED
      BY <2>3, <3>2 DEF Phases, In
  <2> QED
    BY <2>1, <2>2, <2>4 DEF Delivers, Open, Waits
<1> QED
  BY <1>1, <1>2, <1>3, TypeCorrect, PTL DEF Spec
=============================================================================
