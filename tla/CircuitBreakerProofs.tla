------------------------ MODULE CircuitBreakerProofs ------------------------
(***************************************************************************)
(* What the time stamps of the circuit breaker guarantee, for any number   *)
(* of threads, any configuration and any bounds.                           *)
(***************************************************************************)
EXTENDS CircuitBreaker, FiniteSetTheorems, SequenceTheorems, TLAPS

(***************************************************************************)
(* The inductive invariant.                                                *)
(***************************************************************************)
\* The types of the variables that the times depend on.
Types ==
  /\ state \in States
  /\ opened_at_millis \in Nat /\ probe_claimed_at_millis \in Nat
  /\ clock \in Nat
  /\ half_open_probes \in 0 .. USIZE - 1
  /\ pc \in [Threads -> Places]
  /\ local \in [Threads -> [now: Nat, seen: Nat, outcome: Outcomes]]
  /\ trippedAt \in Int /\ admittedAt \in Int /\ takenAt \in Int
  /\ openedAt \in Int

\* The stamp of the last trip is not younger than the trip.
Tripped ==
  /\ opened_at_millis <= clock /\ trippedAt <= clock
  /\ trippedAt = Never \/ opened_at_millis <= trippedAt
  /\ state = "Open" => trippedAt >= 0

\* The stamp of the last claim is not younger than the admission.
Claimed ==
  /\ probe_claimed_at_millis <= clock
  /\ \/ admittedAt = Never /\ probe_claimed_at_millis = 0
     \/ probe_claimed_at_millis <= admittedAt
  /\ takenAt \in {Never, probe_claimed_at_millis}
  /\ state = "HalfOpen" => clock >= open_duration

Opening == {"open", "open_now", "open_cas", "open_lost"}
Probing == {"probe_add", "probe_claim", "probe_sub", "probe_load", "probe_cas"}

\* What a thread knows while it checks.
Knows(t) ==
  /\ local[t].now <= clock
  /\ pc[t] \in Opening => trippedAt >= 0
  /\ pc[t] = "open_now" => local[t].seen <= trippedAt
  /\ pc[t] \in {"open_cas", "open_fast", "probe"} => clock >= open_duration
  /\ pc[t] = "open_lost" /\ state = "Open" => trippedAt >= local[t].now
  /\ pc[t] \in Probing => local[t].now >= open_duration
  /\ pc[t] = "probe_cas" =>
       /\ local[t].now >= local[t].seen + open_duration
       /\ \/ probe_claimed_at_millis = local[t].seen
          \/ admittedAt >= local[t].now

IInv ==
  /\ Types
  /\ Tripped
  /\ Claimed
  /\ \A t \in Threads : Knows(t)

\* The assumption in the form the provers need.
LEMMA Constants ==
  /\ open_duration \in Nat /\ open_duration > 0
  /\ USIZE \in Nat /\ USIZE > 0
  /\ Never \in Int /\ Never < 0
BY BreakerAssumption DEF Never

\* The breaker starts closed, with nobody in it.
LEMMA InitIInv == Init => IInv
BY Constants
DEF Init, IInv, Types, Tripped, Claimed, Knows, NoLocals, States, Outcomes,
    Places, Opening, Probing, Never

USE DEF States, Places, Writing, Stamping, Deciding, Checking, Recording, Opening, Probing

\* The steps of check preserve the invariant.
LEMMA CheckIInv ==
  ASSUME IInv, NEW t \in Threads, CheckStep(t)
  PROVE  IInv'
<1> USE Constants DEF IInv, Types, Tripped, Claimed, Knows, NoLocals, Outcomes,
        Goto, Drop, sharedVars, historyVars
<1>1. CASE check(t)
  BY <1>1 DEF check, Consult
<1>2. CASE check_open_load(t)
  BY <1>2 DEF check_open_load
<1>3. CASE check_open_now(t)
  <2> USE <1>3 DEF check_open_now, Elapsed, Saturating
  <2>1. Types' /\ Tripped' /\ Claimed'
    OBVIOUS
  <2>2. ASSUME NEW u \in Threads PROVE Knows(u)'
    <3>1. CASE u = t
      BY <3>1
    <3>2. CASE u # t
      BY <3>2
    <3> QED BY <3>1, <3>2
  <2> QED BY <2>1, <2>2
<1>4. CASE check_open_cas(t)
  <2> USE <1>4 DEF check_open_cas
  <2>1. Types' /\ Tripped' /\ Claimed'
    BY DEF SetState
  <2>2. ASSUME NEW u \in Threads PROVE Knows(u)'
    <3>1. CASE state = "Open"
      BY <3>1 DEF SetState
    <3>2. CASE state # "Open"
      BY <3>2
    <3> QED BY <3>1, <3>2
  <2> QED BY <2>1, <2>2
<1>5. CASE check_open_lost(t)
  BY <1>5 DEF check_open_lost, Consult
<1>6. CASE check_open_fast(t)
  BY <1>6 DEF check_open_fast
<1>7. CASE probe_now(t)
  BY <1>7 DEF probe_now
<1>8. CASE probe_add(t)
  BY <1>8 DEF probe_add
<1>9. CASE probe_claim(t)
  <2> USE <1>9 DEF probe_claim, Admit
  <2>1. Types' /\ Tripped' /\ Claimed'
    OBVIOUS
  <2>2. ASSUME NEW u \in Threads PROVE Knows(u)'
    <3>1. CASE u = t
      BY <3>1
    <3>2. CASE u # t
      BY <3>2
    <3> QED BY <3>1, <3>2
  <2> QED BY <2>1, <2>2
<1>10. CASE probe_sub(t)
  BY <1>10 DEF probe_sub
<1>11. CASE probe_load(t)
  <2> USE <1>11 DEF probe_load, Saturating
  <2>1. Types' /\ Tripped' /\ Claimed'
    OBVIOUS
  <2>2. ASSUME NEW u \in Threads PROVE Knows(u)'
    <3>1. CASE u = t
      BY <3>1
    <3>2. CASE u # t
      BY <3>2
    <3> QED BY <3>1, <3>2
  <2> QED BY <2>1, <2>2
<1>12. CASE probe_cas(t)
  <2> USE <1>12 DEF probe_cas
  <2>1. Types' /\ Tripped' /\ Claimed'
    BY DEF Admit
  <2>2. ASSUME NEW u \in Threads PROVE Knows(u)'
    <3>1. CASE probe_claimed_at_millis = local[t].seen
      BY <3>1 DEF Admit
    <3>2. CASE probe_claimed_at_millis # local[t].seen
      BY <3>2
    <3> QED BY <3>1, <3>2
  <2> QED BY <2>1, <2>2
<1> QED
  BY <1>1, <1>2, <1>3, <1>4, <1>5, <1>6, <1>7, <1>8, <1>9, <1>10, <1>11,
     <1>12 DEF CheckStep

\* The steps of record, trip, close and error_rate preserve it.
LEMMA RecordIInv ==
  ASSUME IInv, NEW t \in Threads, RecordStep(t)
  PROVE  IInv'
<1> USE Constants DEF IInv, Types, Tripped, Claimed, Knows, NoLocals, Outcomes,
        Goto, Drop, sharedVars, historyVars
<1>1. CASE abandon(t)
  BY <1>1 DEF abandon
<1>2. CASE record(t)
  BY <1>2 DEF record
<1>3. CASE record_state(t)
  BY <1>3 DEF record_state
<1>4. CASE record_closed(t)
  BY <1>4 DEF record_closed
<1>5. CASE record_open(t)
  BY <1>5 DEF record_open
<1>6. CASE trip_state(t)
  BY <1>6 DEF trip_state, SetState
<1>7. CASE trip_clock(t)
  BY <1>7 DEF trip_clock
<1>8. CASE trip_at(t)
  BY <1>8 DEF trip_at
<1>9. CASE trip_probes(t) \/ close_probes(t)
  BY <1>9 DEF trip_probes, close_probes, ResetProbes
<1>10. CASE trip_fast(t) \/ close_fast(t)
  BY <1>10 DEF trip_fast, close_fast, SetFast
<1>11. CASE close_state(t)
  BY <1>11 DEF close_state, SetState
<1>12. CASE close_window(t)
  BY <1>12 DEF close_window
<1>13. CASE error_rate(t)
  BY <1>13 DEF error_rate
<1>14. CASE error_rate_evict(t)
  BY <1>14 DEF error_rate_evict
<1> QED
  BY <1>1, <1>2, <1>3, <1>4, <1>5, <1>6, <1>7, <1>8, <1>9, <1>10, <1>11,
     <1>12, <1>13, <1>14 DEF RecordStep

\* The clock preserves it.
LEMMA TickIInv == ASSUME IInv, tick PROVE IInv'
BY Constants DEF tick, IInv, Types, Tripped, Claimed, Knows, sharedVars,
   historyVars

LEMMA StepIInv == IInv /\ [Next]_vars => IInv'
<1> SUFFICES ASSUME IInv, [Next]_vars PROVE IInv'
  OBVIOUS
<1>1. CASE UNCHANGED vars
  BY <1>1 DEF vars, sharedVars, historyVars, IInv, Types, Tripped, Claimed,
     Knows
<1> QED
  BY <1>1, CheckIInv, RecordIInv, TickIInv DEF Next

\* The invariant holds in every state.
LEMMA Invariance == Spec => []IInv
BY InitIInv, StepIInv, PTL DEF Spec

(***************************************************************************)
(* The window.                                                             *)
(***************************************************************************)
\* A sample of the window.
Entry == [at: Nat, failed: BOOLEAN]

\* The failed samples of a sequence.
Failed(s) == {i \in 1..Len(s) : s[i].failed}

\* Without its first k samples a sequence has as many failures fewer as there
\* were among them.
LEMMA CutFailed ==
  ASSUME NEW s \in Seq(Entry), NEW k \in 0..Len(s)
  PROVE  LET cut == SubSeq(s, k + 1, Len(s))
             lost == {i \in 1..k : s[i].failed}
         IN /\ cut \in Seq(Entry)
            /\ Len(cut) = Len(s) - k
            /\ Cardinality(lost) \in Nat
            /\ Cardinality(Failed(cut)) \in Nat
            /\ Cardinality(Failed(s)) = Cardinality(lost) + Cardinality(Failed(cut))
<1> DEFINE cut == SubSeq(s, k + 1, Len(s))
           lost == {i \in 1..k : s[i].failed}
           rest == {i \in k+1..Len(s) : s[i].failed}
           shift == [i \in Failed(cut) |-> i + k]
<1>1. /\ cut \in Seq(Entry)
      /\ Len(cut) = Len(s) - k
      /\ \A i \in 1..Len(cut) : cut[i] = s[i + k]
  <2>1. \A i \in k+1..Len(s) : s[i] \in Entry
    OBVIOUS
  <2>2. /\ cut \in Seq(Entry)
        /\ Len(cut) = IF k + 1 <= Len(s) THEN Len(s) - (k + 1) + 1 ELSE 0
        /\ \A i \in 1 .. Len(s) - (k + 1) + 1 : cut[i] = s[(k + 1) + i - 1]
    BY <2>1, SubSeqProperties
  <2> QED
    BY <2>2
<1>2. IsFiniteSet(lost) /\ IsFiniteSet(rest) /\ IsFiniteSet(Failed(cut))
  <2>1. IsFiniteSet(1..k) /\ IsFiniteSet(k+1..Len(s)) /\ IsFiniteSet(1..Len(cut))
    BY <1>1, FS_Interval
  <2>2. lost \in SUBSET (1..k) /\ rest \in SUBSET (k+1..Len(s))
    OBVIOUS
  <2>3. Failed(cut) \in SUBSET (1..Len(cut))
    BY DEF Failed
  <2> QED
    BY <2>1, <2>2, <2>3, FS_Subset
<1>3. Cardinality(rest) = Cardinality(Failed(cut))
  <2>1. shift \in [Failed(cut) -> rest]
    BY <1>1 DEF Failed
  <2>2. \A i \in Failed(cut), j \in Failed(cut) : shift[i] = shift[j] => i = j
    BY <1>1 DEF Failed
  <2>3. \A j \in rest : \E i \in Failed(cut) : shift[i] = j
    <3> SUFFICES ASSUME NEW j \in rest
                 PROVE  j - k \in Failed(cut) /\ shift[j - k] = j
      OBVIOUS
    <3> QED
      BY <1>1 DEF Failed
  <2>4. ExistsBijection(Failed(cut), rest)
    BY <2>1, <2>2, <2>3
    DEF ExistsBijection, Bijection, Injection, Surjection, IsInjective
  <2> QED
    BY <1>2, <2>4, FS_Bijection
<1>4. Cardinality(Failed(s)) = Cardinality(lost) + Cardinality(rest)
  <2>1. Failed(s) = lost \cup rest /\ lost \cap rest = {}
    BY DEF Failed
  <2>2. Cardinality(lost \cup rest)
          = Cardinality(lost) + Cardinality(rest) - Cardinality(lost \cap rest)
    BY <1>2, FS_Union
  <2>3. Cardinality(lost) \in Nat /\ Cardinality(rest) \in Nat
    BY <1>2, FS_CardinalityType
  <2> HIDE DEF lost, rest
  <2>4. Cardinality(lost \cap rest) = 0
    BY <2>1, FS_EmptySet, Zenon
  <2>5. Cardinality(Failed(s)) = Cardinality(lost \cup rest)
    BY <2>1, Zenon
  <2> QED
    BY <2>2, <2>3, <2>4, <2>5
<1> QED
  BY <1>1, <1>2, <1>3, <1>4, FS_CardinalityType

\* A new sample counts if it failed.
LEMMA AppendFailed ==
  ASSUME NEW s \in Seq(Entry), NEW e \in Entry
  PROVE  /\ Append(s, e) \in Seq(Entry)
         /\ Len(Append(s, e)) = Len(s) + 1
         /\ Cardinality(Failed(s)) \in Nat
         /\ Cardinality(Failed(Append(s, e)))
              = Cardinality(Failed(s)) + Ones(e.failed)
<1>1. IsFiniteSet(Failed(s)) /\ Cardinality(Failed(s)) \in Nat
  <2>1. IsFiniteSet(1..Len(s)) /\ Failed(s) \in SUBSET (1..Len(s))
    BY FS_Interval DEF Failed
  <2> QED
    BY <2>1, FS_Subset, FS_CardinalityType
<1>2. /\ Append(s, e) \in Seq(Entry)
      /\ Len(Append(s, e)) = Len(s) + 1
      /\ \A i \in 1..Len(s) : Append(s, e)[i] = s[i]
      /\ Append(s, e)[Len(s) + 1] = e
  OBVIOUS
<1>3. Failed(Append(s, e)) =
        IF e.failed THEN Failed(s) \cup {Len(s) + 1} ELSE Failed(s)
  <2> DEFINE x == Append(s, e)
  <2>1. 1..Len(x) = 1..Len(s) \cup {Len(s) + 1}
    BY <1>2
  <2> HIDE DEF x
  <2> QED
    BY <1>2, <2>1 DEF Failed, x
<1>4. Len(s) + 1 \notin Failed(s)
  BY DEF Failed
<1>5. Cardinality(Failed(s) \cup {Len(s) + 1}) = Cardinality(Failed(s)) + 1
  BY <1>1, <1>4, FS_AddElement
<1>6. e.failed \in BOOLEAN
  BY DEF Entry
<1> QED
  BY <1>1, <1>2, <1>3, <1>5, <1>6 DEF Ones

\* What a window keeps: its cap and the number of its failures.
WindowInv(w) ==
  /\ w \in [entries: Seq(Entry), failures: Int]
  /\ Len(w.entries) <= MAX_WINDOW_ENTRIES
  /\ w.failures = Cardinality(Failed(w.entries))

\* A push keeps the count and the cap.
LEMMA PushKeeps ==
  ASSUME NEW w, WindowInv(w), NEW failed \in BOOLEAN, NEW at \in Nat
  PROVE  WindowInv(push(w, failed, at))
<1> DEFINE full == Len(w.entries) >= MAX_WINDOW_ENTRIES
           kept == IF full THEN Tail(w.entries) ELSE w.entries
           lost == full /\ Head(w.entries).failed
           e == [at |-> at, failed |-> failed]
<1>1. MAX_WINDOW_ENTRIES \in Nat /\ MAX_WINDOW_ENTRIES > 0
  BY BreakerAssumption
<1>2. /\ w.entries \in Seq(Entry) /\ Len(w.entries) \in Nat
      /\ w.failures = Cardinality(Failed(w.entries))
      /\ Len(w.entries) <= MAX_WINDOW_ENTRIES
  BY DEF WindowInv
<1>3. e \in Entry /\ e.failed = failed
  BY DEF Entry
<1>4. /\ kept \in Seq(Entry)
      /\ Len(kept) < MAX_WINDOW_ENTRIES
      /\ Cardinality(Failed(kept)) \in Int
      /\ w.failures - Ones(lost) = Cardinality(Failed(kept))
  <2>1. CASE full
    <3>1. w.entries # <<>> /\ 1 \in 0..Len(w.entries)
      BY <1>1, <1>2, <2>1
    <3>2. kept = SubSeq(w.entries, 2, Len(w.entries))
      BY <1>2, <2>1, <3>1, TailIsSubSeq
    <3> DEFINE cut == SubSeq(w.entries, 1 + 1, Len(w.entries))
               first == {i \in 1..1 : w.entries[i].failed}
    <3>3. /\ cut \in Seq(Entry) /\ Len(cut) = Len(w.entries) - 1
          /\ Cardinality(Failed(cut)) \in Nat
          /\ Cardinality(Failed(w.entries))
               = Cardinality(first) + Cardinality(Failed(cut))
      BY <1>2, <3>1, CutFailed
    <3>4. Head(w.entries) = w.entries[1] /\ w.entries[1] \in Entry
      BY <1>2, <3>1
    <3>5. Cardinality(first) = Ones(w.entries[1].failed)
      <4>1. CASE w.entries[1].failed
        <5>1. first = {} \cup {1}
          BY <4>1
        <5>2. Cardinality({} \cup {1}) = 1
          BY FS_EmptySet, FS_AddElement
        <5> QED
          BY <4>1, <5>1, <5>2 DEF Ones
      <4>2. CASE ~w.entries[1].failed
        <5>1. first = {}
          BY <4>2
        <5> QED
          BY <4>2, <5>1, FS_EmptySet DEF Ones
      <4> QED
        BY <4>1, <4>2
    <3>6. cut = kept
      BY <3>2
    <3>7. lost <=> w.entries[1].failed
      BY <2>1, <3>4
    <3>8. Ones(lost) = Ones(w.entries[1].failed) /\ Ones(lost) \in Int
      BY <3>7 DEF Ones
    <3> HIDE DEF cut, kept, first, lost
    <3> QED
      BY <1>1, <1>2, <2>1, <3>3, <3>5, <3>6, <3>8
  <2>2. CASE ~full
    BY <1>1, <1>2, <2>2, AppendFailed, <1>3 DEF Ones
  <2> QED
    BY <2>1, <2>2
<1>5. /\ Append(kept, e) \in Seq(Entry)
      /\ Len(Append(kept, e)) = Len(kept) + 1
      /\ Cardinality(Failed(Append(kept, e)))
           = Cardinality(Failed(kept)) + Ones(failed)
  BY <1>3, <1>4, AppendFailed
<1>6. push(w, failed, at) = [entries |-> Append(kept, e),
                             failures |-> w.failures - Ones(lost) + Ones(failed)]
  BY DEF push
<1>7. Ones(failed) \in Int /\ Len(kept) \in Nat
  BY <1>4 DEF Ones
<1> HIDE DEF kept, e, lost
<1> QED
  BY <1>1, <1>4, <1>5, <1>6, <1>7 DEF WindowInv

\* An eviction keeps them too.
LEMMA EvictKeeps ==
  ASSUME NEW w, WindowInv(w), NEW now \in Nat
  PROVE  WindowInv(evict(w, now))
<1> DEFINE n == Len(w.entries)
           old == {i \in 1..n : \A j \in 1..i :
                     w.entries[j].at < now - window_duration}
           gone == Cardinality(old)
           lost == {i \in 1..gone : w.entries[i].failed}
           cut == SubSeq(w.entries, gone + 1, n)
<1>1. /\ w.entries \in Seq(Entry) /\ n \in Nat
      /\ w.failures = Cardinality(Failed(w.entries))
      /\ n <= MAX_WINDOW_ENTRIES
  BY DEF WindowInv
<1>2. gone \in 0..n
  <2>1. IsFiniteSet(1..n) /\ Cardinality(1..n) = n
    <3> HIDE DEF n
    <3>1. n \in Int /\ 1 \in Int
      BY <1>1
    <3>2. /\ IsFiniteSet(1..n)
          /\ Cardinality(1..n) = IF 1 > n THEN 0 ELSE n - 1 + 1
      BY <3>1, FS_Interval, Zenon
    <3> QED
      BY <1>1, <3>2
  <2>2. old \in SUBSET (1..n)
    OBVIOUS
  <2>3. IsFiniteSet(old) /\ Cardinality(old) <= n
    BY <2>1, <2>2, FS_Subset
  <2>4. Cardinality(old) \in Nat
    BY <2>3, FS_CardinalityType
  <2> QED
    BY <1>1, <2>3, <2>4
<1> HIDE DEF old
<1>3. /\ cut \in Seq(Entry) /\ Len(cut) = n - gone
      /\ Cardinality(lost) \in Nat /\ Cardinality(Failed(cut)) \in Nat
      /\ Cardinality(Failed(w.entries))
           = Cardinality(lost) + Cardinality(Failed(cut))
  BY <1>1, <1>2, CutFailed
<1>4. evict(w, now) = [entries |-> cut, failures |-> w.failures - Cardinality(lost)]
  BY DEF evict, old
<1>5. MAX_WINDOW_ENTRIES \in Nat
  BY BreakerAssumption
<1> HIDE DEF cut, lost, gone, n
<1> QED
  BY <1>1, <1>2, <1>3, <1>4, <1>5 DEF WindowInv

\* The empty window.
LEMMA EmptyWindow == WindowInv([entries |-> <<>>, failures |-> 0])
<1>1. Len(<<>>) = 0 /\ <<>> \in Seq(Entry)
  OBVIOUS
<1>2. Failed(<<>>) = {}
  BY DEF Failed
<1>3. Cardinality(Failed(<<>>)) = 0
  BY <1>2, FS_EmptySet, Zenon
<1>4. 0 <= MAX_WINDOW_ENTRIES
  BY BreakerAssumption
<1> QED
  BY <1>1, <1>3, <1>4 DEF WindowInv

\* Every step that touches the window pushes, evicts or clears.
LEMMA StepWindow ==
  ASSUME IInv, WindowInv(window), [Next]_vars
  PROVE  WindowInv(window)'
<1>1. CASE window' = window
  BY <1>1 DEF WindowInv
<1>2. ASSUME NEW t \in Threads, window' = Sampled(t)
      PROVE  WindowInv(window)'
  <2>1. local[t].now \in Nat /\ (local[t].outcome = "Failure") \in BOOLEAN
    BY DEF IInv, Types
  <2>2. WindowInv(push(window, local[t].outcome = "Failure", local[t].now))
    BY <2>1, PushKeeps
  <2>3. WindowInv(Sampled(t))
    BY <2>1, <2>2, EvictKeeps DEF Sampled
  <2> QED
    BY <1>2, <2>3 DEF WindowInv
<1>3. ASSUME NEW t \in Threads, window' = evict(window, local[t].now)
      PROVE  WindowInv(window)'
  <2>1. WindowInv(evict(window, local[t].now))
    BY EvictKeeps DEF IInv, Types
  <2> QED
    BY <1>3, <2>1 DEF WindowInv
<1>4. CASE window' = [entries |-> <<>>, failures |-> 0]
  BY <1>4, EmptyWindow DEF WindowInv
<1>5. ASSUME NEW t \in Threads, CheckStep(t)
      PROVE  window' = window
  BY <1>5 DEF CheckStep, check, check_open_load, check_open_now,
     check_open_cas, check_open_lost, check_open_fast, Consult, probe_now,
     probe_add, probe_claim, probe_sub, probe_load, probe_cas, sharedVars
<1>6. ASSUME NEW t \in Threads, RecordStep(t)
      PROVE  \/ window' = window
             \/ window' = Sampled(t)
             \/ window' = evict(window, local[t].now)
             \/ window' = [entries |-> <<>>, failures |-> 0]
  BY <1>6 DEF RecordStep, abandon, record, record_state, record_closed,
     record_open, trip_state, trip_clock, trip_at, trip_probes, trip_fast,
     ResetProbes, SetFast, close_state, close_window, close_probes, close_fast,
     error_rate, error_rate_evict, sharedVars
<1>7. CASE tick \/ UNCHANGED vars
  BY <1>1, <1>7 DEF tick, vars, sharedVars
<1> QED
  BY <1>1, <1>2, <1>3, <1>4, <1>5, <1>6, <1>7 DEF Next

\* The rest of the types: the counter of records, the stale checks, the flags.
Counted == recorded \in Nat /\ stale \subseteq Threads
Flags == is_open_fast \in BOOLEAN /\ raced \in BOOLEAN

\* The counter of records and the set of stale checks keep their types.
LEMMA StepCounted ==
  ASSUME IInv, Counted, [Next]_vars
  PROVE  Counted'
<1>1. clock \in Nat
  BY DEF IInv, Types
<1>2. ASSUME NEW t \in Threads, CheckStep(t)
      PROVE  Counted'
  BY <1>1, <1>2
  DEF Counted, CheckStep, check, check_open_load, check_open_now,
     check_open_cas, check_open_lost, check_open_fast, Consult, SetState,
     probe_now, probe_add, probe_claim, probe_sub, probe_load, probe_cas,
     Admit, historyVars
<1>3. ASSUME NEW t \in Threads, RecordStep(t)
      PROVE  Counted'
  BY <1>1, <1>3
  DEF Counted, RecordStep, abandon, record, record_state, record_closed,
     record_open, trip_state, trip_clock, trip_at, trip_probes, trip_fast,
     ResetProbes, SetFast, SetState, close_state, close_window, close_probes,
     close_fast, error_rate, error_rate_evict, historyVars
<1>4. CASE tick \/ UNCHANGED vars
  BY <1>4 DEF Counted, tick, vars, historyVars
<1> QED
  BY <1>2, <1>3, <1>4 DEF Next

\* The flags keep theirs.
LEMMA StepFlags ==
  ASSUME Flags, [Next]_vars
  PROVE  Flags'
<1>1. ASSUME NEW t \in Threads, NEW s, SetState(t, s)
      PROVE  raced' \in BOOLEAN
  BY <1>1, Zenon DEF SetState
<1>2. ASSUME NEW t \in Threads, CheckStep(t)
      PROVE  Flags'
  BY <1>1, <1>2, Zenon
  DEF Flags, CheckStep, check, check_open_load, check_open_now,
     check_open_cas, check_open_lost, check_open_fast, Consult,
     probe_now, probe_add, probe_claim, probe_sub, probe_load, probe_cas,
     Admit, historyVars
<1>3. ASSUME NEW t \in Threads, RecordStep(t)
      PROVE  Flags'
  BY <1>1, <1>3, Zenon
  DEF Flags, RecordStep, abandon, record, record_state, record_closed,
     record_open, trip_state, trip_clock, trip_at, trip_probes, trip_fast,
     ResetProbes, SetFast, close_state, close_window, close_probes,
     close_fast, error_rate, error_rate_evict, historyVars
<1>4. CASE tick \/ UNCHANGED vars
  BY <1>4, Zenon DEF Flags, tick, vars, historyVars
<1> QED
  BY <1>2, <1>3, <1>4 DEF Next

(***************************************************************************)
(* The mirror.                                                             *)
(***************************************************************************)
Tripping == {"trip_clock", "trip_at", "trip_probes", "trip_fast"}
Closing == {"close_window", "close_probes", "close_fast"}

\* Without overlap there is one writer, the state is the one it has set, and
\* the mirror follows when it is done.
Mirror ==
  ~raced =>
    /\ \A t, u \in Threads : pc[t] \in Writing /\ pc[u] \in Writing => t = u
    /\ \A t \in Threads :
         /\ pc[t] \in Tripping => state = "Open"
         /\ pc[t] \in Closing => state = "Closed"
         /\ pc[t] = "open_fast" => state = "HalfOpen"
    /\ Settled => (is_open_fast <=> state = "Open")

\* Every step keeps Mirror.
LEMMA StepMirror ==
  ASSUME IInv, Flags, Mirror, [Next]_vars
  PROVE  Mirror'
<1> pc \in [Threads -> Places] /\ state \in States
  BY DEF IInv, Types
<1> USE DEF Mirror, Settled, Tripping, Closing, Goto, Drop, historyVars
<1>1. ASSUME NEW t \in Threads, CheckStep(t)
      PROVE  Mirror'
  <2> USE DEF CheckStep
  <2>1. CASE check_open_cas(t)
    <3>1. CASE state = "Open"
      <4>1. /\ pc[t] = "open_cas" /\ pc' = [pc EXCEPT ![t] = "open_fast"]
            /\ state' = "HalfOpen"
            /\ raced' = (raced \/ \E u \in Threads \ {t} : pc[u] \in Writing)
        BY <2>1, <3>1 DEF check_open_cas, SetState
      <4> SUFFICES ASSUME ~raced' PROVE Mirror'
        BY Zenon
      <4>2. ~raced /\ \A u \in Threads \ {t} : pc[u] \notin Writing
        BY <4>1, Zenon
      <4>3. \A u \in Threads \ {t} : pc'[u] \notin Writing
        BY <4>1, <4>2
      <4> QED
        BY <4>1, <4>3
    <3>2. CASE state # "Open"
      BY <2>1, <3>2 DEF check_open_cas
    <3> QED BY <3>1, <3>2
  <2>2. CASE check_open_fast(t)
    BY <2>2 DEF check_open_fast
  <2>3. CASE ~check_open_cas(t) /\ ~check_open_fast(t)
    BY <1>1, <2>3 DEF check, check_open_load, check_open_now, check_open_lost,
       Consult, probe_now, probe_add, probe_claim, probe_sub, probe_load,
       probe_cas, Admit
  <2> QED
    BY <2>1, <2>2, <2>3
<1>2. ASSUME NEW t \in Threads, RecordStep(t)
      PROVE  Mirror'
  <2>1. CASE trip_state(t) \/ close_state(t)
    BY <2>1 DEF trip_state, close_state, SetState
  <2>2. CASE trip_fast(t) \/ close_fast(t)
    BY <2>2 DEF trip_fast, close_fast, SetFast
  <2>3. CASE trip_clock(t) \/ trip_at(t) \/ trip_probes(t) \/ close_window(t)
             \/ close_probes(t)
    BY <2>3 DEF trip_clock, trip_at, trip_probes, close_window, close_probes,
       ResetProbes
  <2>4. CASE abandon(t) \/ record(t) \/ record_closed(t) \/ record_open(t)
             \/ error_rate(t) \/ error_rate_evict(t)
    BY <2>4 DEF abandon, record, record_closed, record_open, error_rate,
       error_rate_evict
  <2>5. CASE record_state(t)
    <3>1. \E p \in Recording :
            pc[t] = "record" /\ pc' = [pc EXCEPT ![t] = p]
      BY <2>5 DEF record_state
    <3>2. UNCHANGED <<state, is_open_fast, raced>>
      BY <2>5 DEF record_state
    <3> QED
      BY <3>1, <3>2
  <2> QED
    BY <1>2, <2>1, <2>2, <2>3, <2>4, <2>5 DEF RecordStep
<1>3. CASE tick \/ UNCHANGED vars
  BY <1>3 DEF tick, vars
<1> QED
  BY <1>1, <1>2, <1>3 DEF Next

(***************************************************************************)
(* The cool-down.                                                          *)
(***************************************************************************)
\* Outside the two stores of a trip opened_at is the time of the last trip
\* or later, and a check that is not stale has read it there.
Cool ==
  ~raced =>
    /\ (\A u \in Threads : pc[u] \notin Stamping) => opened_at_millis >= openedAt
    /\ \A t \in Threads : pc[t] = "trip_at" => local[t].now >= openedAt
    /\ \A t \in Threads : t \notin stale =>
         /\ pc[t] \in Deciding => \A u \in Threads : pc[u] \notin Stamping
         /\ pc[t] = "open_now" => local[t].seen >= openedAt
         /\ pc[t] = "open_cas" => clock >= openedAt + open_duration

\* The last trip is not in the future.
Opened == openedAt <= clock

\* Every step keeps Cool.
LEMMA StepCool ==
  ASSUME IInv, Opened, Cool, [Next]_vars
  PROVE  Opened' /\ Cool'
<1> USE Constants DEF IInv, Types, Opened, Cool, Goto, Drop, sharedVars,
        historyVars
<1>1. ASSUME NEW t \in Threads, CheckStep(t)
      PROVE  Opened' /\ Cool'
  <2>1. CASE check(t)
    BY <2>1 DEF check, Consult
  <2>2. CASE check_open_load(t)
    BY <2>2 DEF check_open_load
  <2>3. CASE check_open_now(t)
    BY <2>3 DEF check_open_now, Elapsed, Saturating
  <2>4. CASE check_open_cas(t)
    BY <2>4 DEF check_open_cas, SetState
  <2>5. CASE check_open_lost(t)
    BY <2>5 DEF check_open_lost, Consult
  <2>6. CASE check_open_fast(t)
    BY <2>6 DEF check_open_fast
  <2>7. CASE probe_now(t) \/ probe_add(t) \/ probe_sub(t) \/ probe_load(t)
    BY <2>7 DEF probe_now, probe_add, probe_sub, probe_load
  <2>8. CASE probe_claim(t) \/ probe_cas(t)
    BY <2>8 DEF probe_claim, probe_cas, Admit
  <2> QED
    BY <1>1, <2>1, <2>2, <2>3, <2>4, <2>5, <2>6, <2>7, <2>8 DEF CheckStep
<1>2. ASSUME NEW t \in Threads, RecordStep(t)
      PROVE  Opened' /\ Cool'
  <2>1. CASE trip_state(t)
    <3>1. /\ pc[t] = "trip" /\ pc' = [pc EXCEPT ![t] = "trip_clock"]
          /\ raced' = (raced \/ \E u \in Threads \ {t} : pc[u] \in Writing)
          /\ clock' = clock /\ openedAt' = clock
          /\ stale' = stale \cup {u \in Threads : pc[u] \in Deciding}
      BY <2>1 DEF trip_state, SetState
    <3> SUFFICES ASSUME ~raced' PROVE Cool'
      BY <3>1
    <3>2. \A u \in Threads \ {t} : pc[u] \notin Writing
      BY <3>1, Zenon
    <3>3. \A u \in Threads : pc'[u] # "trip_at" /\ (u # t => pc'[u] = pc[u])
      BY <3>1, <3>2
    <3>4. \A u \in Threads : u \notin stale' => pc'[u] \notin Deciding
      BY <3>1, <3>3
    <3>5. pc'[t] \in Stamping
      BY <3>1
    <3> QED
      BY <3>3, <3>4, <3>5
  <2>2. CASE trip_clock(t)
    BY <2>2 DEF trip_clock
  <2>3. CASE trip_at(t)
    BY <2>3 DEF trip_at
  <2>4. CASE trip_probes(t) \/ close_probes(t)
    BY <2>4 DEF trip_probes, close_probes, ResetProbes
  <2>5. CASE trip_fast(t) \/ close_fast(t)
    BY <2>5 DEF trip_fast, close_fast, SetFast
  <2>6. CASE close_state(t)
    BY <2>6 DEF close_state, SetState
  <2>7. CASE abandon(t) \/ record(t) \/ close_window(t)
    BY <2>7 DEF abandon, record, close_window
  <2>8. CASE record_state(t)
    BY <2>8 DEF record_state
  <2>9. CASE record_closed(t) \/ record_open(t)
    BY <2>9 DEF record_closed, record_open
  <2>10. CASE error_rate(t) \/ error_rate_evict(t)
    BY <2>10 DEF error_rate, error_rate_evict
  <2> QED
    BY <1>2, <2>1, <2>2, <2>3, <2>4, <2>5, <2>6, <2>7, <2>8, <2>9, <2>10
    DEF RecordStep
<1>3. CASE tick \/ UNCHANGED vars
  BY <1>3 DEF tick, vars
<1> QED
  BY <1>1, <1>2, <1>3 DEF Next

(***************************************************************************)
(* The theorems.                                                           *)
(***************************************************************************)
\* Spec => []TypeOK: everything keeps its type; the counter of probe slots
\* wraps around instead of leaving it.
THEOREM TypeCorrect == Spec => []TypeOK
<1>1. Init => WindowInv(window) /\ Counted
  BY EmptyWindow DEF Init, Counted
<1>2. Init => Flags
  BY Zenon DEF Init, Flags
<1>3. ASSUME IInv, WindowInv(window), Counted, Flags PROVE TypeOK
  <2>1. {opened_at_millis, probe_claimed_at_millis, clock, recorded} \subseteq Nat
    BY <1>3 DEF IInv, Types, Counted
  <2>2. {trippedAt, admittedAt, takenAt, openedAt} \subseteq Int
    BY <1>3 DEF IInv, Types
  <2> QED
    BY <1>3, <2>1, <2>2, Zenon DEF IInv, Types, WindowInv, Counted, Flags, TypeOK, Entry
<1> QED
  BY <1>1, <1>2, <1>3, StepWindow, StepCounted, StepFlags, Invariance, PTL DEF Spec

\* Spec => []WindowExact: the cached number of failures, which the trip
\* decision divides, is that of the samples, and the window has its cap.
THEOREM WindowCounts == Spec => []WindowExact
<1>1. Init => WindowInv(window)
  BY EmptyWindow DEF Init
<1>2. ASSUME WindowInv(window) PROVE WindowExact
  <2>1. DOMAIN window.entries = 1..Len(window.entries)
    BY <1>2 DEF WindowInv
  <2>2. Failed(window.entries)
          = {i \in DOMAIN window.entries : window.entries[i].failed}
    BY <2>1, Zenon DEF Failed
  <2> QED
    BY <1>2, <2>2, Zenon DEF WindowInv, WindowExact
<1> QED
  BY <1>1, <1>2, StepWindow, Invariance, PTL DEF Spec

\* Spec => []MirrorUnlessRaced: trip, close and check_open leave is_open()
\* right, each by itself and with any number of checks in between.
THEOREM MirrorFollows == Spec => []MirrorUnlessRaced
<1>1. Init => Flags /\ Mirror
  BY DEF Init, Flags, Mirror, Tripping, Closing
<1>2. Mirror => MirrorUnlessRaced
  BY DEF Mirror, MirrorUnlessRaced
<1> QED
  BY <1>1, <1>2, StepMirror, StepFlags, Invariance, PTL DEF Spec

\* A step moves one thread, and the place of the thread tells which step it is.
LEMMA StepPlace ==
  ASSUME NEW t \in Threads, NEW u \in Threads, pc \in [Threads -> Places],
         CheckStep(u) \/ RecordStep(u), pc'[t] # pc[t]
  PROVE  /\ t = u
         /\ pc[t] = "open_now" => check_open_now(t)
         /\ pc[t] = "open_lost" => check_open_lost(t)
         /\ pc[t] = "probe_load" => probe_load(t)
         /\ pc[t] = "probe_cas" => probe_cas(t)
<1> USE DEF Goto, Drop
<1>1. CASE CheckStep(u)
  BY <1>1 DEF CheckStep, check, check_open_load, check_open_now,
     check_open_cas, check_open_lost, check_open_fast, Consult, probe_now,
     probe_add, probe_claim, probe_sub, probe_load, probe_cas, Admit
<1>2. CASE RecordStep(u)
  BY <1>2 DEF RecordStep, abandon, record, record_state, record_closed,
     record_open, trip_state, trip_clock, trip_at, trip_probes, trip_fast,
     ResetProbes, SetFast, close_state, close_window, close_probes, close_fast,
     error_rate, error_rate_evict
<1> QED
  BY <1>1, <1>2

\* The reason for which a step may shed the request of t.
Reason(t) ==
  pc'[t] = "idle" =>
    /\ pc[t] = "open_now" => Recent(trippedAt, clock)
    /\ pc[t] = "open_lost" => Recent(trippedAt, local[t].now)
    /\ pc[t] \in {"probe_load", "probe_cas"}
         => Recent(admittedAt, local[t].now)

\* A request that is shed has its reason.
LEMMA ShedReason ==
  ASSUME IInv, NEW t \in Threads, NEW u \in Threads,
         CheckStep(u) \/ RecordStep(u)
  PROVE  Reason(t)
<1> USE Constants DEF IInv, Types, Reason, Recent, Goto, Drop
<1> SUFFICES ASSUME pc'[t] = "idle", pc[t] # "idle"
             PROVE  Reason(t)
  OBVIOUS
<1>1. CASE pc[t] = "open_now"
  BY <1>1, StepPlace DEF check_open_now, Elapsed, Saturating, Knows, Tripped
<1>2. CASE pc[t] = "open_lost"
  BY <1>2, StepPlace DEF check_open_lost, Consult, Knows, Tripped
<1>3. CASE pc[t] = "probe_load"
  BY <1>3, StepPlace DEF probe_load, Saturating, Knows, Claimed
<1>4. CASE pc[t] = "probe_cas"
  BY <1>4, StepPlace DEF probe_cas, Admit, Knows, Claimed
<1> QED
  BY <1>1, <1>2, <1>3, <1>4

\* A takeover finds the lease of the last takeover expired.
LEMMA TakeoverLease ==
  ASSUME IInv, NEW t \in Threads, NEW u \in Threads,
         CheckStep(u) \/ RecordStep(u),
         pc[t] = "probe_cas", pc'[t] = "wire"
  PROVE  local[t].now >= takenAt + open_duration
BY Constants, StepPlace
DEF IInv, Types, Claimed, Knows, probe_cas, Admit, Goto, Drop, Never

\* Spec => ShedForCause: a request is shed only within open_duration of a
\* trip (open breaker) or of an admitted probe (half-open one), so a probe
\* that is lost, or a counter of slots that a race has spoilt, delays the
\* recovery by at most one cool-down.
THEOREM ShedsForCause == Spec => ShedForCause
<1>1. IInv /\ [Next]_vars => [\A t \in Threads : Reason(t)]_vars
  BY ShedReason DEF Next, tick, vars, IInv, Types, Reason
<1> QED
  BY <1>1, Invariance, PTL DEF Spec, ShedForCause, Reason

\* Spec => OneTakeoverPerLease: of the callers that find a probe abandoned,
\* one takes its slot over, and the next only after another open_duration.
THEOREM TakesOverOnce == Spec => OneTakeoverPerLease
<1>1. IInv /\ [Next]_vars =>
        [\A t \in Threads : pc[t] = "probe_cas" /\ pc'[t] = "wire"
            => local[t].now >= takenAt + open_duration]_vars
  BY TakeoverLease DEF Next, tick, vars, IInv, Types
<1> QED
  BY <1>1, Invariance, PTL DEF Spec, OneTakeoverPerLease

\* Spec => CoolDownUnlessStale: a check that was not under way during the
\* trip ends the cool-down no earlier than open_duration after it.
THEOREM CoolDownKept == Spec => CoolDownUnlessStale
<1>1. Init => Opened /\ Cool
  BY Constants DEF Init, Opened, Cool
<1>2. IInv /\ Cool /\ [Next]_vars =>
        [\A t \in Threads :
           pc[t] = "open_cas" /\ pc'[t] = "open_fast" /\ t \notin stale /\ ~raced
           => clock >= openedAt + open_duration]_vars
  BY DEF Cool
<1> QED
  BY <1>1, <1>2, StepCool, Invariance, PTL DEF Spec, CoolDownUnlessStale
=============================================================================
