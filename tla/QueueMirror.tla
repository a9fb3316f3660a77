----------------------------- MODULE QueueMirror -----------------------------
(***************************************************************************)
(* The queue that the pager shows: rows the adapter keeps itself           *)
(* (local_entries), and a mirror of the queues inside Pi (pi_entries).  Pi *)
(* reports its queues as lists of texts, so the mirror has to find out     *)
(* which text is whose: from the previous report, and from reservations    *)
(* made when a steering message is sent.                                   *)
(*                                                                         *)
(* mirror is the QueueMirror of queue_bridge.rs, and its methods are       *)
(* functions on it.  The actions are their callers in the adapter, each    *)
(* with the calls it makes up to its end; a task reserves, publishes and   *)
(* then writes to Pi, so lines may be written in another order than they   *)
(* were reserved in.  Execution text and display text are one here.        *)
(***************************************************************************)
EXTENDS Naturals, Sequences, SequencesExt

CONSTANTS
  Clients,  \* client prompt ids
  Texts,
  None,
  Scenarios, \* what the outside world may do, and how often
  MaxOrder   \* bounds the lists of ids that the pager sends

\* cancel: the user cancels; deadline: Pi streams on for 30 s after that;
\* refuse: Pi refuses a line; consume: an input handler of Pi takes one;
\* expand: Pi changes a text it queues; pi: extensions queue inside Pi;
\* reload: the bootstrap is reloaded; bash: the user runs Bash commands.
Liberties == {"cancel", "deadline", "refuse", "consume", "expand", "pi",
              "reload", "bash"}

Generated == {"extension", "pi"} \X Nat
Ids == Clients \cup Generated

\* No client sends an id that looks like a generated one.  (That it sends an
\* id once, the pager making a UUID for each prompt, is the variable fresh.)
ASSUME MirrorAssumption ==
  /\ None \notin Ids
  /\ \A c \in Clients : c \notin Generated
  /\ Scenarios \subseteq [may: SUBSET Liberties, extra: Nat, edits: Nat]
  /\ MaxOrder \in Nat

VARIABLES
  mirror,        \* queue_mirror
  agent_running,
  cancelling,
  active,        \* clients with an entry in active_prompts
  outbox,        \* lines whose tasks have not written them yet
  stdin,         \* lines Pi has not read
  pi,            \* Pi: its two queues, and whether it runs
  channel,       \* events the event loop has not taken
  published,     \* local rows the pager was shown (history)
  fresh,         \* clients that have not sent their prompt
  left,          \* messages and edits that the bounds still allow
  bash_running,
  may            \* the world's liberties

adapterVars == <<mirror, agent_running, cancelling, active, outbox, published>>
piVars == <<stdin, pi, channel>>
vars == <<adapterVars, piVars, fresh, left, bash_running, may>>

Lanes == {"Steering", "FollowUp"}
QueueTexts == Texts \cup {<<t>> : t \in Texts}  \* <<t>>: t as Pi expands it
Rows == [id: Ids, text: Texts, version: Nat]
Behaviours == {"prompt", "dispatch", "steer"}

\* The ids in a mirror are of clients or were generated by its counter.
KnownAt(n) == Clients \cup ({"extension", "pi"} \X (1..n))
Known == KnownAt(mirror.seq)

TypeOK ==
  /\ mirror \in [local: Seq([id: Known, text: Texts, version: Nat]),
                 pi: Seq([id: Known, text: QueueTexts, lane: Lanes]),
                 reserved: Seq([id: Known, text: Texts]),
                 running: Known \cup {None}, seq: Nat]
  /\ agent_running \in BOOLEAN
  /\ cancelling \in BOOLEAN
  /\ active \subseteq Clients
  /\ outbox \subseteq [id: Ids, text: Texts, how: Behaviours]
  /\ stdin \in Seq([id: Ids, text: Texts, how: Behaviours])
  /\ pi \in [running: BOOLEAN,
             queue: [Lanes -> Seq([owner: Ids \cup {None},
                                   text: QueueTexts])]]
  /\ channel \in Seq([kind: {"start", "queue", "settled"},
                      queue: [Lanes -> Seq(QueueTexts)]])
  /\ published \subseteq Rows
  /\ fresh \subseteq Clients
  /\ left \in [extra: Nat, edits: Nat]
  /\ bash_running \in BOOLEAN
  /\ may \subseteq Liberties
----------------------------------------------------------------------------
(***************************************************************************)
(* The methods of QueueMirror.                                             *)
(***************************************************************************)
EmptyMirror == [local |-> <<>>, pi |-> <<>>, reserved |-> <<>>,
                running |-> None, seq |-> 0]

IdsOf(entries) == {entries[i].id : i \in DOMAIN entries}

\* The items of s at the positions I, in their order.
Retain(s, I) ==
  LET kept[n \in 0..Len(s)] ==
        IF n = 0 THEN <<>>
        ELSE IF n \in I THEN Append(kept[n - 1], s[n])
        ELSE kept[n - 1]
  IN  kept[Len(s)]

Without(entries, id) ==
  Retain(entries, {i \in DOMAIN entries : entries[i].id # id})

\* The position of the first row with an id, 0 if there is none.
PositionOf(entries, id) == SelectInSeq(entries, LAMBDA e : e.id = id)

\* The rows without the one at a position, if it is one.
Removed(entries, at) == IF at = 0 THEN entries ELSE RemoveAt(entries, at)

\* Slip: the counter of ids stands still.
NextSeq_same(n) == n

NextSeq(n) == n + 1

\* A row that has the id already gets the new text and keeps its version.
enqueue_local(m, id, t) ==
  LET at == PositionOf(m.local, id)
  IN  IF at # 0 THEN [m EXCEPT !.local[at].text = t]
      ELSE [m EXCEPT !.local =
              Append(@, [id |-> id, text |-> t, version |-> 0])]

\* Slip: the row is read and stays in the queue.
take_local_kept(m, id) == m

take_local(m, id) ==
  [m EXCEPT !.local = Removed(@, PositionOf(@, id))]

push_front_local(m, e) == [m EXCEPT !.local = <<e>> \o Without(@, e.id)]

\* Slip: an edit keeps the version.
Edited_sameVersion(e, t) == [e EXCEPT !.text = t]

Edited(e, t) == [e EXCEPT !.text = t, !.version = @ + 1]

edit_local(m, id, t) ==
  [m EXCEPT !.local =
     [i \in DOMAIN @ |-> IF @[i].id = id THEN Edited(@[i], t) ELSE @[i]]]

reserve(m, id, t) ==
  [m EXCEPT !.reserved = Append(Without(@, id), [id |-> id, text |-> t])]

release_reservation(m, id) == [m EXCEPT !.reserved = Without(@, id)]

clear_running(m) == [m EXCEPT !.reserved = <<>>, !.running = None]

\* Slip: the mirror of Pi's queue is kept.
clear_kept(m) == [EmptyMirror EXCEPT !.pi = m.pi, !.seq = m.seq]

clear(m) == [EmptyMirror EXCEPT !.seq = m.seq]

\* An id takes its row, if it is found, out of the remaining ones.
Moved(acc, id) ==
  LET at == PositionOf(acc.remaining, id)
  IN  IF at = 0 THEN acc
      ELSE [reordered |-> Append(acc.reordered, acc.remaining[at]),
            remaining |-> RemoveAt(acc.remaining, at)]

\* The rows the pager names come first, in its order; the others follow.
reorder_local(m, ordered) ==
  LET acc[n \in 0..Len(ordered)] ==
        IF n = 0 THEN [reordered |-> <<>>, remaining |-> m.local]
        ELSE Moved(acc[n - 1], ordered[n])
      last == acc[Len(ordered)]
  IN  [m EXCEPT !.local = last.reordered \o last.remaining]

\* The reservation for a text, 0 if there is none: one of the same text, else
\* the oldest.  All reservations are made in the steering lane.
ReservedFor(reserved, lane, t) ==
  IF lane # "Steering" \/ reserved = <<>> THEN 0
  ELSE LET same == SelectInSeq(reserved, LAMBDA r : r.text = t)
       IN  IF same = 0 THEN 1 ELSE same

\* One text of a report: acc holds the previous entries not yet found again,
\* the entries found so far, the reservations and the counter of ids.
Match(acc, x) ==
  LET Entry(id) == [id |-> id, text |-> x.text, lane |-> x.lane]
      p == SelectInSeq(acc.previous,
             LAMBDA e : e.lane = x.lane /\ e.text = x.text)
      r == ReservedFor(acc.reserved, x.lane, x.text)
  IN  CASE p # 0 ->
             [acc EXCEPT !.next = Append(@, acc.previous[p]),
                         !.previous = RemoveAt(@, p)]
        [] p = 0 /\ r # 0 ->
             [acc EXCEPT !.next = Append(@, Entry(acc.reserved[r].id)),
                         !.reserved = RemoveAt(@, r)]
        [] OTHER ->
             [acc EXCEPT !.next = Append(@, Entry(<<"pi", acc.seq + 1>>)),
                         !.seq = NextSeq(@)]

\* The texts of a report, one by one.
Matched(first, desired) ==
  LET acc[n \in 0..Len(desired)] ==
        IF n = 0 THEN first ELSE Match(acc[n - 1], desired[n])
  IN  acc[Len(desired)]

Desired(queue) ==
  LET InLane(lane) ==
        [i \in DOMAIN queue[lane] |-> [text |-> queue[lane][i], lane |-> lane]]
  IN  InLane("Steering") \o InLane("FollowUp")

\* A follow-up that the report does not hold any more is running.
apply_queue_update(m, queue) ==
  LET acc == Matched([previous |-> m.pi, next |-> <<>>,
                      reserved |-> m.reserved, seq |-> m.seq],
                     Desired(queue))
      gone == SelectInSeq(acc.previous, LAMBDA e : e.lane = "FollowUp")
  IN  [m EXCEPT
         !.pi = acc.next,
         !.reserved = Retain(acc.reserved,
                             {i \in DOMAIN acc.reserved :
                                acc.reserved[i].id \notin IdsOf(acc.next)}),
         !.seq = acc.seq,
         !.running = IF gone = 0 THEN @ ELSE acc.previous[gone].id]
----------------------------------------------------------------------------
(***************************************************************************)
(* The adapter's side.  Every handler ends with a publication.             *)
(***************************************************************************)
Publish(m) ==
  /\ mirror' = m
  /\ published' = published \cup ToSet(m.local)

adapter_busy(m, running, act) ==
  running \/ cancelling' \/ bash_running \/ act # {} \/ m.running # None

\* dispatch_next_queued, which ends a handler that leaves mirror m, flag
\* running and active prompts act.
dispatch_next_queued(m, running, act) ==
  IF adapter_busy(m, running, act) \/ m.local = <<>>
  THEN /\ Publish(m)
       /\ agent_running' = running
       /\ active' = act
       /\ UNCHANGED outbox
  ELSE LET e == m.local[1] IN
       /\ Publish([m EXCEPT !.local = Tail(@), !.running = e.id])
       /\ agent_running' = TRUE
       /\ active' = act \cup ({e.id} \cap Clients)
       /\ outbox' = outbox \cup {[id |-> e.id, text |-> e.text,
                                  how |-> "dispatch"]}

Busy ==
  \/ agent_running \/ cancelling \/ bash_running
  \/ active # {} \/ mirror.running # None

\* session/prompt while the adapter is busy, as a follow-up.
prompt_queued(c, t) ==
  /\ Busy
  /\ cancelling' = cancelling
  /\ dispatch_next_queued(enqueue_local(mirror, c, t), agent_running, active)

\* session/prompt that is sent at once: as the primary prompt, or to steer.
prompt_direct(c, t) ==
  /\ Publish(IF Busy THEN reserve(mirror, c, t)
             ELSE [mirror EXCEPT !.running = c])
  /\ agent_running' = TRUE
  /\ active' = active \cup {c}
  /\ outbox' = outbox \cup {[id |-> c, text |-> t,
                             how |-> IF Busy THEN "steer" ELSE "prompt"]}
  /\ UNCHANGED cancelling

\* An interjection of the client, outside session/prompt.
handle_steer_message(c, t) ==
  /\ Publish(reserve(mirror, c, t))
  /\ outbox' = outbox \cup {[id |-> c, text |-> t, how |-> "steer"]}
  /\ UNCHANGED <<agent_running, cancelling, active>>

Client(c, t) ==
  /\ c \in fresh
  /\ fresh' = fresh \ {c}
  /\ prompt_queued(c, t) \/ prompt_direct(c, t) \/ handle_steer_message(c, t)
  /\ UNCHANGED <<piVars, left, bash_running, may>>

\* interject_local_queue for a row e, which leaves the queue with text e.text.
interject_local_queue(m, e) ==
  LET taken == take_local(m, e.id)
      act == active \cup ({e.id} \cap Clients)
  IN CASE cancelling ->
            /\ Publish(push_front_local(taken, e))
            /\ UNCHANGED <<agent_running, active, outbox>>
       [] ~cancelling /\ ~agent_running /\ active = {} ->
            dispatch_next_queued(push_front_local(taken, e), FALSE, {})
       [] OTHER ->
            /\ Publish(reserve(taken, e.id, e.text))
            /\ active' = act
            /\ outbox' = outbox \cup {[id |-> e.id, text |-> e.text,
                                       how |-> "steer"]}
            /\ UNCHANGED agent_running

\* A message of an extension goes through the adapter's queue.
enqueue_extension_message(lane, t) ==
  /\ left.extra > 0
  /\ left' = [left EXCEPT !.extra = @ - 1]
  /\ cancelling' = cancelling
  /\ LET id == <<"extension", mirror.seq + 1>>
         m == enqueue_local([mirror EXCEPT !.seq = NextSeq(@)], id, t)
     IN IF cancelling
        THEN UNCHANGED <<mirror, published, agent_running, active, outbox>>
        ELSE IF lane = "Steering" /\ agent_running
        THEN interject_local_queue(m, Last(m.local))
        ELSE dispatch_next_queued(m, agent_running, active)
  /\ UNCHANGED <<piVars, fresh, bash_running, may>>

\* The local row that the pager names, by id and version.
Named(row) ==
  \E i \in DOMAIN mirror.local :
    mirror.local[i].id = row.id /\ mirror.local[i].version = row.version
Current(row) ==
  mirror.local[PositionOf(mirror.local, row.id)]

\* x.ai/queue/remove, for a row that the pager was shown once.
queue_remove(row) ==
  /\ Named(row)
  /\ Publish(take_local(mirror, row.id))
  /\ UNCHANGED <<agent_running, cancelling, active, outbox, piVars, fresh,
                 left, bash_running, may>>

\* x.ai/queue/interject, with or without a new text.
queue_interject(row) ==
  /\ Named(row)
  /\ cancelling' = cancelling
  /\ interject_local_queue(mirror, Current(row))
  /\ UNCHANGED <<piVars, fresh, left, bash_running, may>>

queue_interject_edited(row, t) ==
  /\ Named(row)
  /\ left.edits > 0
  /\ left' = [left EXCEPT !.edits = @ - 1]
  /\ cancelling' = cancelling
  /\ interject_local_queue(mirror, Edited(Current(row), t))
  /\ UNCHANGED <<piVars, fresh, bash_running, may>>

\* x.ai/queue/edit and x.ai/queue/reorder go by the id alone.
queue_edit(id, t) ==
  /\ left.edits > 0
  /\ left' = [left EXCEPT !.edits = @ - 1]
  /\ Publish(edit_local(mirror, id, t))
  /\ UNCHANGED <<agent_running, cancelling, active, outbox, piVars, fresh,
                 bash_running, may>>

queue_reorder(ordered) ==
  /\ Publish(reorder_local(mirror, ordered))
  /\ UNCHANGED <<agent_running, cancelling, active, outbox, piVars, fresh,
                 left, bash_running, may>>

queue_clear ==
  /\ Publish([mirror EXCEPT !.local = <<>>])
  /\ UNCHANGED <<agent_running, cancelling, active, outbox, piVars, fresh,
                 left, bash_running, may>>

cancel ==
  /\ "cancel" \in may
  /\ cancelling' = TRUE
  /\ Publish(clear(mirror))
  /\ active' = {}
  /\ UNCHANGED <<agent_running, outbox, piVars, fresh, left, bash_running,
                 may>>

\* settle_cancelled_prompts: Pi is idle, or the deadline passes.
settle_confirmed ==
  /\ cancelling
  /\ ~pi.running
  /\ cancelling' = FALSE
  /\ dispatch_next_queued(clear_running(mirror), FALSE, active)
  /\ UNCHANGED <<piVars, fresh, left, bash_running, may>>

settle_deadline ==
  /\ "deadline" \in may
  /\ cancelling
  /\ pi.running
  /\ cancelling' = FALSE
  /\ UNCHANGED <<mirror, published, agent_running, active, outbox, piVars,
                 fresh, left, bash_running, may>>

\* probe_prompt_without_agent: it may run whenever a prompt is unfinished (the
\* line that spawned it, and which prompts have started, are left out).
probe ==
  /\ active # {} \/ (mirror.running # None /\ agent_running)
  /\ ~pi.running
  /\ cancelling' = FALSE
  /\ dispatch_next_queued(clear_running(mirror), FALSE, {})
  /\ UNCHANGED <<piVars, fresh, left, bash_running, may>>

\* replace_bootstrap for the same session.
replace_bootstrap ==
  /\ "reload" \in may
  /\ mirror' = EmptyMirror
  /\ agent_running' = FALSE
  /\ cancelling' = FALSE
  /\ UNCHANGED <<published, active, outbox, piVars, fresh, left,
                 bash_running, may>>

\* A direct Bash command, one at a time; its end dispatches nothing.
execute_bash ==
  /\ "bash" \in may
  /\ ~bash_running
  /\ bash_running' = TRUE
  /\ UNCHANGED <<adapterVars, piVars, fresh, left, may>>

bash_returns ==
  /\ bash_running
  /\ bash_running' = FALSE
  /\ UNCHANGED <<adapterVars, piVars, fresh, left, may>>
----------------------------------------------------------------------------
(***************************************************************************)
(* Pi, external, and the event loop.                                       *)
(***************************************************************************)
QueueLines(queue) ==
  [lane \in Lanes |-> [i \in DOMAIN queue[lane] |-> queue[lane][i].text]]

PiIs(running, queue, kind) ==
  /\ pi' = [running |-> running, queue |-> queue]
  /\ channel' = Append(channel, [kind |-> kind, queue |-> QueueLines(queue)])

Queued(lane, owner, t) ==
  [pi.queue EXCEPT ![lane] = Append(@, [owner |-> owner, text |-> t])]

\* A task writes its line.
write(l) ==
  /\ l \in outbox
  /\ outbox' = outbox \ {l}
  /\ stdin' = Append(stdin, l)
  /\ UNCHANGED <<mirror, agent_running, cancelling, active, published, pi,
                 channel, fresh, left, bash_running, may>>

\* Pi starts a run with a line, or queues it if it steers the current run.
PiTakes ==
  /\ stdin # <<>>
  /\ stdin' = Tail(stdin)
  /\ LET l == Head(stdin) IN
     \/ ~pi.running /\ PiIs(TRUE, pi.queue, "start")
     \/ /\ pi.running /\ l.how = "steer"
        /\ \E t \in {l.text} \cup (IF "expand" \in may THEN {<<l.text>>}
                                   ELSE {}) :
             PiIs(TRUE, Queued("Steering", l.id, t), "queue")
     \/ "consume" \in may /\ UNCHANGED <<pi, channel>>
  /\ UNCHANGED <<adapterVars, fresh, left, bash_running, may>>

\* Pi refuses a line, always a prompt that does not say how it joins a run;
\* the task that wrote it gets the error.
PiRefuses ==
  /\ stdin # <<>>
  /\ stdin' = Tail(stdin)
  /\ cancelling' = cancelling
  /\ LET l == Head(stdin)
         m == release_reservation(mirror, l.id)
         act == active \ {l.id}
     IN /\ "refuse" \in may \/ (pi.running /\ l.how # "steer")
        /\ CASE l.how = "steer" ->
                  /\ Publish(m)
                  /\ active' = act
                  /\ UNCHANGED <<agent_running, outbox>>
             [] l.how = "prompt" ->
                  /\ Publish(clear_running(m))
                  /\ agent_running' = FALSE
                  /\ active' = act
                  /\ UNCHANGED outbox
             [] l.how = "dispatch" ->
                  dispatch_next_queued(clear_running(mirror), FALSE, act)
  /\ UNCHANGED <<pi, channel, fresh, left, bash_running, may>>

\* An extension starts a run, or queues a message inside Pi.
PiActs(lane, t) ==
  /\ "pi" \in may
  /\ left.extra > 0
  /\ left' = [left EXCEPT !.extra = @ - 1]
  /\ IF pi.running THEN PiIs(TRUE, Queued(lane, None, t), "queue")
     ELSE PiIs(TRUE, pi.queue, "start")
  /\ UNCHANGED <<adapterVars, stdin, fresh, bash_running, may>>

\* Steering messages go first; follow-ups when a run would end.
PiDequeues(lane) ==
  /\ pi.running
  /\ pi.queue[lane] # <<>>
  /\ lane = "FollowUp" => pi.queue["Steering"] = <<>>
  /\ PiIs(TRUE, [pi.queue EXCEPT ![lane] = Tail(@)], "queue")
  /\ UNCHANGED <<adapterVars, stdin, fresh, left, bash_running, may>>

PiSettles ==
  /\ pi.running
  /\ \A lane \in Lanes : pi.queue[lane] = <<>>
  /\ PiIs(FALSE, pi.queue, "settled")
  /\ UNCHANGED <<adapterVars, stdin, fresh, left, bash_running, may>>

\* While a cancellation is pending, starts are aborted again and queue
\* reports are ignored.
handle_event ==
  /\ channel # <<>>
  /\ channel' = Tail(channel)
  /\ LET e == Head(channel) IN
     CASE e.kind = "settled" ->
            /\ cancelling' = FALSE
            /\ dispatch_next_queued(clear_running(mirror), FALSE, {})
       [] e.kind # "settled" /\ cancelling -> UNCHANGED adapterVars
       [] e.kind = "start" /\ ~cancelling ->
            /\ agent_running' = TRUE
            /\ UNCHANGED <<mirror, cancelling, active, outbox, published>>
       [] e.kind = "queue" /\ ~cancelling ->
            /\ Publish(apply_queue_update(mirror, e.queue))
            /\ UNCHANGED <<agent_running, cancelling, active, outbox>>
  /\ UNCHANGED <<stdin, pi, fresh, left, bash_running, may>>
----------------------------------------------------------------------------
Init ==
  /\ mirror = EmptyMirror
  /\ agent_running = FALSE
  /\ cancelling = FALSE
  /\ active = {}
  /\ outbox = {}
  /\ stdin = <<>>
  /\ pi = [running |-> FALSE, queue |-> [lane \in Lanes |-> <<>>]]
  /\ channel = <<>>
  /\ bash_running = FALSE
  /\ published = {}
  /\ fresh = Clients
  /\ \E s \in Scenarios :
       may = s.may /\ left = [extra |-> s.extra, edits |-> s.edits]

\* The lists of ids the pager may send: of rows it was shown, of which some are
\* gone.  An id may be repeated, so shorter lists are among them.
Orders == [1..MaxOrder -> {row.id : row \in published}]

Pager ==
  \/ \E row \in published : queue_remove(row) \/ queue_interject(row)
  \/ \E row \in published, t \in Texts : queue_interject_edited(row, t)
  \/ \E id \in IdsOf(mirror.local), t \in Texts : queue_edit(id, t)
  \/ \E ordered \in Orders : queue_reorder(ordered)
  \/ queue_clear
  \/ cancel

Next ==
  \/ \E c \in Clients, t \in Texts : Client(c, t)
  \/ \E lane \in Lanes, t \in Texts :
       enqueue_extension_message(lane, t) \/ PiActs(lane, t)
  \/ Pager
  \/ settle_confirmed
  \/ settle_deadline
  \/ probe
  \/ replace_bootstrap
  \/ execute_bash
  \/ bash_returns
  \/ \E l \in outbox : write(l)
  \/ PiTakes
  \/ PiRefuses
  \/ \E lane \in Lanes : PiDequeues(lane)
  \/ PiSettles
  \/ handle_event

Spec == Init /\ [][Next]_vars
----------------------------------------------------------------------------
Free(faults) == may \cap faults = {}
Caught == channel = <<>> /\ ~cancelling

\* The pager keys its rows by id: the mirrored rows, the local ones and the
\* reservations, of which a row will be made, have different ids, and the
\* prompt shown as running is not in the queue as well.
IdsUnique ==
  LET all == mirror.pi \o mirror.local \o mirror.reserved IN
  /\ \A i, j \in DOMAIN all : all[i].id = all[j].id => i = j
  /\ mirror.running \notin IdsOf(all)

\* A row's version stands for its text: what a stale click of the pager
\* removes or sends now is the text that was shown.  (A reload starts the
\* counter of generated ids again.)
VersionNamesText ==
  Free({"reload"}) =>
    \A a, b \in published : a.id = b.id /\ a.version = b.version => a = b

\* When no event is under way, the mirror shows the queues Pi has, also after
\* a cancellation during which reports were ignored.
MirrorExact ==
  Caught /\ Free({"deadline", "reload"}) =>
    LET lines == QueueLines(pi.queue) IN
    [i \in DOMAIN mirror.pi |-> mirror.pi[i].text]
      = lines["Steering"] \o lines["FollowUp"]
=============================================================================
