---------------------------- MODULE CircuitBreaker ----------------------------
(***************************************************************************)
(* The circuit breaker of xai-circuit-breaker, which the storage client    *)
(* shares between all its requests: check() before a request, record()     *)
(* after it, on any thread and without a common lock.                      *)
(*                                                                         *)
(* One action is one atomic operation of the code: a load, a store, a      *)
(* fetch_add, a compare_exchange, a reading of the clock, or what happens  *)
(* under the mutex of the sliding window.  Atomics are sequentially        *)
(* consistent here.  Times are milliseconds since the baseline.            *)
(***************************************************************************)
EXTENDS Integers, FiniteSets, Sequences

CONSTANTS
  Threads,              \* requests that may be under way at the same time
  open_duration,
  window_duration,
  min_samples,
  error_rate_threshold, \* in percent
  half_open_max_probes,
  MAX_WINDOW_ENTRIES,
  USIZE,                \* 2^w: the counter of probes wraps around
  MAX_TIME,             \* bound of the clock
  MAX_RECORDS           \* bound of the calls of record

ASSUME BreakerAssumption ==
  /\ {open_duration, half_open_max_probes, MAX_WINDOW_ENTRIES, USIZE}
       \subseteq Nat \ {0}
  /\ {window_duration, min_samples, error_rate_threshold, MAX_TIME, MAX_RECORDS}
       \subseteq Nat

VARIABLES
  state,
  opened_at_millis,
  half_open_probes,
  probe_claimed_at_millis,
  is_open_fast,
  window,
  clock,
  pc,         \* [Threads -> where a thread is in check or record]
  local,      \* [Threads -> its local variables]
  recorded,   \* calls of record so far
  trippedAt,  \* time of the last step of trip that set state or opened_at
  admittedAt, \* time of the last admission of a probe
  takenAt,    \* time stamp of the last takeover, until a slot is claimed
  openedAt,   \* time of the last store of Open to state
  stale,      \* threads in check_open that were there during a trip
  raced       \* two changes of state overlapped

sharedVars == <<opened_at_millis, probe_claimed_at_millis, window>>
historyVars == <<trippedAt, admittedAt, takenAt, openedAt, stale, raced>>
vars == <<state, half_open_probes, is_open_fast, sharedVars, clock, pc, local,
          recorded, historyVars>>

States == {"Closed", "Open", "HalfOpen"}
Outcomes == {"Success", "Failure"}

\* Between the store to state and the last store of trip, close and check_open.
Writing ==
  {"open_fast", "trip_clock", "trip_at", "trip_probes", "trip_fast",
   "close_window", "close_probes", "close_fast"}
\* ... and of these, between the stores of trip to state and to opened_at.
Stamping == {"trip_clock", "trip_at"}
\* In check_open, before its compare_exchange.
Deciding == {"open", "open_now", "open_cas"}
Checking ==
  {"open", "open_now", "open_cas", "open_lost", "probe", "probe_add",
   "probe_claim", "probe_sub", "probe_load", "probe_cas"}
Recording == {"record", "record_closed", "record_open", "trip", "close"}
Places == Writing \cup Checking \cup Recording \cup {"idle", "wire", "rate"}

Never == 0 - open_duration
NoLocals == [now |-> 0, seen |-> 0, outcome |-> "Success"]

\* Types of the atomics and of the window; the counter of probes is unsigned,
\* so no sequence of claims, withdrawals and resets leaves its width.
TypeOK ==
  /\ state \in States
  /\ {opened_at_millis, probe_claimed_at_millis, clock, recorded} \subseteq Nat
  /\ half_open_probes \in 0 .. USIZE - 1
  /\ is_open_fast \in BOOLEAN /\ raced \in BOOLEAN
  /\ window \in [entries: Seq([at: Nat, failed: BOOLEAN]), failures: Int]
  /\ pc \in [Threads -> Places]
  /\ local \in [Threads -> [now: Nat, seen: Nat, outcome: Outcomes]]
  /\ {trippedAt, admittedAt, takenAt, openedAt} \subseteq Int
  /\ stale \subseteq Threads

Init ==
  /\ state = "Closed"
  /\ opened_at_millis = 0 /\ half_open_probes = 0
  /\ probe_claimed_at_millis = 0 /\ is_open_fast = FALSE
  /\ window = [entries |-> <<>>, failures |-> 0]
  /\ clock = 0
  /\ pc = [t \in Threads |-> "idle"] /\ local = [t \in Threads |-> NoLocals]
  /\ recorded = 0
  /\ trippedAt = Never /\ admittedAt = Never /\ takenAt = Never
  /\ openedAt = Never /\ stale = {} /\ raced = FALSE

(***************************************************************************)
(* The sliding window.                                                     *)
(***************************************************************************)
Ones(b) == IF b THEN 1 ELSE 0

\* Slip: an entry that the cap pushes out stays counted.
push_counted(w, failed, at) ==
  LET full == Len(w.entries) >= MAX_WINDOW_ENTRIES
      kept == IF full THEN Tail(w.entries) ELSE w.entries
  IN [entries |-> Append(kept, [at |-> at, failed |-> failed]),
      failures |-> w.failures + Ones(failed)]

push(w, failed, at) ==
  LET full == Len(w.entries) >= MAX_WINDOW_ENTRIES
      kept == IF full THEN Tail(w.entries) ELSE w.entries
      lost == full /\ Head(w.entries).failed
  IN [entries |-> Append(kept, [at |-> at, failed |-> failed]),
      failures |-> w.failures - Ones(lost) + Ones(failed)]

\* Entries leave from the front until the first that is young enough.
evict(w, now) ==
  LET n == Len(w.entries)
      Old(i) == w.entries[i].at < now - window_duration
      gone == Cardinality({i \in 1..n : \A j \in 1..i : Old(j)})
      lost == {i \in 1..gone : w.entries[i].failed}
  IN [entries |-> SubSeq(w.entries, gone + 1, n),
      failures |-> w.failures - Cardinality(lost)]

should_trip(w) ==
  /\ Len(w.entries) >= min_samples
  /\ w.failures * 100 >= error_rate_threshold * Len(w.entries)

(***************************************************************************)
(* Steps of a thread.                                                      *)
(***************************************************************************)
Saturating(n) == IF n < 0 THEN 0 ELSE n

Goto(t, from, to) ==
  /\ pc[t] = from
  /\ pc' = [pc EXCEPT ![t] = to]

\* As Goto, where the local variables are not read any more.
Drop(t, from, to) ==
  /\ Goto(t, from, to)
  /\ local' = [local EXCEPT ![t] = NoLocals]

\* A store to state, and what the history keeps of it.
SetState(t, s) ==
  /\ state' = s
  /\ raced' = (raced \/ \E u \in Threads \ {t} : pc[u] \in Writing)

\* The state decides how a check goes on.
Consult(t, from, open) ==
  /\ \/ state = "Closed" /\ Drop(t, from, "wire")
     \/ state = "Open" /\ Drop(t, from, open)
     \/ state = "HalfOpen" /\ Drop(t, from, "probe")
  /\ UNCHANGED <<state, half_open_probes, is_open_fast, sharedVars, clock,
                 recorded, trippedAt, admittedAt, takenAt, openedAt, raced>>

check(t) ==
  /\ Consult(t, "idle", "open")
  /\ stale' = IF state = "Open" /\ \E u \in Threads : pc[u] \in Stamping
                THEN stale \cup {t} ELSE stale

\* check_open: was the breaker opened long enough ago?
check_open_load(t) ==
  /\ Goto(t, "open", "open_now")
  /\ local' = [local EXCEPT ![t].seen = opened_at_millis]
  /\ UNCHANGED <<state, half_open_probes, is_open_fast, sharedVars, clock,
                 recorded, historyVars>>

Elapsed(t, now) == Saturating(now - local[t].seen) >= open_duration

check_open_now(t) ==
  /\ IF Elapsed(t, clock)
       THEN /\ Goto(t, "open_now", "open_cas")
            /\ local' = [local EXCEPT ![t].now = clock]
       ELSE Drop(t, "open_now", "idle")
  /\ stale' = IF Elapsed(t, clock) THEN stale ELSE stale \ {t}
  /\ UNCHANGED <<state, half_open_probes, is_open_fast, sharedVars, clock,
                 recorded, trippedAt, admittedAt, takenAt, openedAt, raced>>

check_open_cas(t) ==
  /\ IF state = "Open"
       THEN /\ Drop(t, "open_cas", "open_fast")
            /\ SetState(t, "HalfOpen")
       ELSE /\ Goto(t, "open_cas", "open_lost")
            /\ UNCHANGED <<state, local, raced>>
  /\ stale' = stale \ {t}
  /\ UNCHANGED <<half_open_probes, is_open_fast, sharedVars, clock, recorded,
                 trippedAt, admittedAt, takenAt, openedAt>>

\* Lost the race: the state is read again, and an open breaker sheds.
check_open_lost(t) == Consult(t, "open_lost", "idle") /\ UNCHANGED stale

\* Slip: the mirror is not updated.
check_open_fast_kept(t) ==
  /\ Goto(t, "open_fast", "probe")
  /\ UNCHANGED <<state, half_open_probes, is_open_fast, sharedVars, clock,
                 local, recorded, historyVars>>

check_open_fast(t) ==
  /\ Goto(t, "open_fast", "probe")
  /\ is_open_fast' = FALSE
  /\ UNCHANGED <<state, half_open_probes, sharedVars, clock, local, recorded,
                 historyVars>>

(***************************************************************************)
(* try_half_open_probe.                                                    *)
(***************************************************************************)
probe_now(t) ==
  /\ Goto(t, "probe", "probe_add")
  /\ local' = [local EXCEPT ![t].now = clock]
  /\ UNCHANGED <<state, half_open_probes, is_open_fast, sharedVars, clock,
                 recorded, historyVars>>

\* fetch_add; a free slot is taken.
probe_add(t) ==
  /\ Goto(t, "probe_add", IF half_open_probes < half_open_max_probes
                            THEN "probe_claim" ELSE "probe_sub")
  /\ half_open_probes' =
       IF half_open_probes = USIZE - 1 THEN 0 ELSE half_open_probes + 1
  /\ UNCHANGED <<state, is_open_fast, sharedVars, clock, local, recorded,
                 historyVars>>

\* The probe is admitted.
Admit(t, from) ==
  /\ Drop(t, from, "wire")
  /\ probe_claimed_at_millis' = local[t].now
  /\ admittedAt' = clock

probe_claim(t) ==
  /\ Admit(t, "probe_claim")
  /\ takenAt' = Never
  /\ UNCHANGED <<state, half_open_probes, is_open_fast, opened_at_millis,
                 window, clock, recorded, trippedAt, openedAt, stale, raced>>

\* fetch_sub; trip and close may have reset the counter in between.
probe_sub(t) ==
  /\ Goto(t, "probe_sub", "probe_load")
  /\ half_open_probes' =
       IF half_open_probes = 0 THEN USIZE - 1 ELSE half_open_probes - 1
  /\ UNCHANGED <<state, is_open_fast, sharedVars, clock, local, recorded,
                 historyVars>>

\* Slip: a claim is never taken for abandoned.
probe_load_forever(t) ==
  /\ Drop(t, "probe_load", "idle")
  /\ UNCHANGED <<state, half_open_probes, is_open_fast, sharedVars, clock,
                 recorded, historyVars>>

\* Is the last claim older than a lease?
probe_load(t) ==
  /\ IF Saturating(local[t].now - probe_claimed_at_millis) >= open_duration
       THEN /\ Goto(t, "probe_load", "probe_cas")
            /\ local' = [local EXCEPT ![t].seen = probe_claimed_at_millis]
       ELSE Drop(t, "probe_load", "idle")
  /\ UNCHANGED <<state, half_open_probes, is_open_fast, sharedVars, clock,
                 recorded, historyVars>>

\* Slip: the claim is stored without comparing.
probe_cas_store(t) ==
  /\ Admit(t, "probe_cas")
  /\ takenAt' = local[t].now
  /\ UNCHANGED <<state, half_open_probes, is_open_fast, opened_at_millis,
                 window, clock, recorded, trippedAt, openedAt, stale, raced>>

\* One caller takes the abandoned claim over.
probe_cas(t) ==
  /\ IF probe_claimed_at_millis = local[t].seen
       THEN Admit(t, "probe_cas") /\ takenAt' = local[t].now
       ELSE /\ Drop(t, "probe_cas", "idle")
            /\ UNCHANGED <<probe_claimed_at_millis, admittedAt, takenAt>>
  /\ UNCHANGED <<state, half_open_probes, is_open_fast, opened_at_millis,
                 window, clock, recorded, trippedAt, openedAt, stale, raced>>

(***************************************************************************)
(* The request on the wire, and record.                                    *)
(***************************************************************************)
\* The request ends without an outcome for the breaker: it is dropped, or
\* its answer is one that the storage client does not record.
abandon(t) ==
  /\ Goto(t, "wire", "idle")
  /\ UNCHANGED <<state, half_open_probes, is_open_fast, sharedVars, clock,
                 local, recorded, historyVars>>

record(t) ==
  /\ recorded < MAX_RECORDS
  /\ Goto(t, "wire", "record")
  /\ \E outcome \in Outcomes :
       local' = [local EXCEPT ![t] =
                   [now |-> clock, seen |-> 0, outcome |-> outcome]]
  /\ recorded' = recorded + 1
  /\ UNCHANGED <<state, half_open_probes, is_open_fast, sharedVars, clock,
                 historyVars>>

record_state(t) ==
  /\ Goto(t, "record",
          CASE state = "Closed" -> "record_closed"
            [] state = "Open" -> "record_open"
            [] state = "HalfOpen" ->
                 IF local[t].outcome = "Failure" THEN "trip" ELSE "close")
  /\ UNCHANGED <<state, half_open_probes, is_open_fast, sharedVars, clock,
                 local, recorded, historyVars>>

\* The window with the outcome of t.
Sampled(t) ==
  evict(push(window, local[t].outcome = "Failure", local[t].now), local[t].now)

record_closed(t) ==
  /\ window' = Sampled(t)
  /\ IF should_trip(window')
       THEN Goto(t, "record_closed", "trip") /\ UNCHANGED local
       ELSE Drop(t, "record_closed", "idle")
  /\ UNCHANGED <<state, half_open_probes, is_open_fast, opened_at_millis,
                 probe_claimed_at_millis, clock, recorded, historyVars>>

record_open(t) ==
  /\ window' = Sampled(t)
  /\ Drop(t, "record_open", "idle")
  /\ UNCHANGED <<state, half_open_probes, is_open_fast, opened_at_millis,
                 probe_claimed_at_millis, clock, recorded, historyVars>>

(***************************************************************************)
(* trip and close: one store after the other.                              *)
(***************************************************************************)
trip_state(t) ==
  /\ Drop(t, "trip", "trip_clock")
  /\ SetState(t, "Open")
  /\ trippedAt' = clock /\ openedAt' = clock
  /\ stale' = stale \cup {u \in Threads : pc[u] \in Deciding}
  /\ UNCHANGED <<half_open_probes, is_open_fast, sharedVars, clock, recorded,
                 admittedAt, takenAt>>

trip_clock(t) ==
  /\ Goto(t, "trip_clock", "trip_at")
  /\ local' = [local EXCEPT ![t].now = clock]
  /\ UNCHANGED <<state, half_open_probes, is_open_fast, sharedVars, clock,
                 recorded, historyVars>>

\* Slip: the cool-down is not restarted.
trip_at_kept(t) ==
  /\ Drop(t, "trip_at", "trip_probes")
  /\ trippedAt' = clock
  /\ UNCHANGED <<state, half_open_probes, is_open_fast, sharedVars, clock,
                 recorded, admittedAt, takenAt, openedAt, stale, raced>>

trip_at(t) ==
  /\ Drop(t, "trip_at", "trip_probes")
  /\ opened_at_millis' = local[t].now
  /\ trippedAt' = clock
  /\ UNCHANGED <<state, half_open_probes, is_open_fast, window,
                 probe_claimed_at_millis, clock, recorded, admittedAt, takenAt,
                 openedAt, stale, raced>>

ResetProbes(t, from, to) ==
  /\ Goto(t, from, to)
  /\ half_open_probes' = 0
  /\ UNCHANGED <<state, is_open_fast, sharedVars, clock, local, recorded,
                 historyVars>>

trip_probes(t) == ResetProbes(t, "trip_probes", "trip_fast")

SetFast(t, from, open) ==
  /\ Goto(t, from, "idle")
  /\ is_open_fast' = open
  /\ UNCHANGED <<state, half_open_probes, sharedVars, clock, local, recorded,
                 historyVars>>

trip_fast(t) == SetFast(t, "trip_fast", TRUE)

close_state(t) ==
  /\ Drop(t, "close", "close_window")
  /\ SetState(t, "Closed")
  /\ UNCHANGED <<half_open_probes, is_open_fast, sharedVars, clock, recorded,
                 trippedAt, admittedAt, takenAt, openedAt, stale>>

close_window(t) ==
  /\ Goto(t, "close_window", "close_probes")
  /\ window' = [entries |-> <<>>, failures |-> 0]
  /\ UNCHANGED <<state, half_open_probes, is_open_fast, opened_at_millis,
                 probe_claimed_at_millis, clock, local, recorded, historyVars>>

close_probes(t) == ResetProbes(t, "close_probes", "close_fast")
close_fast(t) == SetFast(t, "close_fast", FALSE)

(***************************************************************************)
(* error_rate reads the clock, then evicts under the mutex.                *)
(***************************************************************************)
error_rate(t) ==
  /\ Goto(t, "idle", "rate")
  /\ local' = [local EXCEPT ![t].now = clock]
  /\ UNCHANGED <<state, half_open_probes, is_open_fast, sharedVars, clock,
                 recorded, historyVars>>

error_rate_evict(t) ==
  /\ Drop(t, "rate", "idle")
  /\ window' = evict(window, local[t].now)
  /\ UNCHANGED <<state, half_open_probes, is_open_fast, opened_at_millis,
                 probe_claimed_at_millis, clock, recorded, historyVars>>

tick ==
  /\ clock < MAX_TIME
  /\ clock' = clock + 1
  /\ UNCHANGED <<state, half_open_probes, is_open_fast, sharedVars, pc, local,
                 recorded, historyVars>>

CheckStep(t) ==
  \/ check(t) \/ check_open_load(t) \/ check_open_now(t) \/ check_open_cas(t)
  \/ check_open_lost(t) \/ check_open_fast(t)
  \/ probe_now(t) \/ probe_add(t) \/ probe_claim(t) \/ probe_sub(t)
  \/ probe_load(t) \/ probe_cas(t)

RecordStep(t) ==
  \/ abandon(t) \/ record(t) \/ record_state(t)
  \/ record_closed(t) \/ record_open(t)
  \/ trip_state(t) \/ trip_clock(t) \/ trip_at(t) \/ trip_probes(t)
  \/ trip_fast(t)
  \/ close_state(t) \/ close_window(t) \/ close_probes(t) \/ close_fast(t)
  \/ error_rate(t) \/ error_rate_evict(t)

Next ==
  \/ \E t \in Threads : CheckStep(t) \/ RecordStep(t)
  \/ tick

Spec == Init /\ [][Next]_vars

(***************************************************************************)
(* Properties.                                                             *)
(***************************************************************************)
\* An event at most one cool-down older than the time a check went by.
Recent(event, now) == event + open_duration > now

\* A request is shed for a reason that is at most one cool-down old: an open
\* breaker was tripped since then, a half-open one admitted a probe.  Whatever
\* the races of trip, close and lost probes do to the counter of slots, the
\* breaker does not stay half-open with nobody admitted.
ShedForCause ==
  [][\A t \in Threads : pc'[t] = "idle" =>
       /\ pc[t] = "open_now" => Recent(trippedAt, clock)
       /\ pc[t] = "open_lost" => Recent(trippedAt, local[t].now)
       /\ pc[t] \in {"probe_load", "probe_cas"}
            => Recent(admittedAt, local[t].now)]_vars

\* A claim that was taken over can be taken over again only when its own
\* lease has run out: of the callers that find the lease expired, one wins.
OneTakeoverPerLease ==
  [][\A t \in Threads :
       pc[t] = "probe_cas" /\ pc'[t] = "wire"
       => local[t].now >= takenAt + open_duration]_vars

\* The breaker stays open for a whole cool-down after it was opened, unless
\* the check that ends it was under way during the trip, or two changes of
\* state overlapped: trip stores Open before the time it counts from.
CoolDownUnlessStale ==
  [][\A t \in Threads :
       pc[t] = "open_cas" /\ pc'[t] = "open_fast" /\ t \notin stale /\ ~raced
       => clock >= openedAt + open_duration]_vars

\* The cached number of failures is the number of failed samples, and the
\* window stays below its cap, whatever order the threads push and evict in.
WindowExact ==
  /\ Len(window.entries) <= MAX_WINDOW_ENTRIES
  /\ window.failures =
       Cardinality({i \in DOMAIN window.entries : window.entries[i].failed})

Settled == \A t \in Threads : pc[t] \notin Writing

\* As long as no two changes of state overlapped, is_open() tells the state
\* of the breaker after each of them.
MirrorUnlessRaced == Settled /\ ~raced => (is_open_fast <=> state = "Open")
=============================================================================
