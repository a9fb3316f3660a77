--------------------------- MODULE PromptService ---------------------------
(***************************************************************************)
(* What the adapter promises the ACP client about its calls: a call that   *)
(* was submitted is answered once, by the end of a turn, by a cancellation *)
(* or by an error, and an answer is final.  Several calls may be answered  *)
(* by one event, and then all of them get the same answer.                 *)
(***************************************************************************)
CONSTANT Calls

VARIABLE status    \* [Calls -> what the client knows]

Open == {"new", "pending"}
Answers == {"end_turn", "cancelled", "failed"}

Init == status = [c \in Calls |-> "new"]

Submit(c) ==
  /\ status[c] = "new"
  /\ status' = [status EXCEPT ![c] = "pending"]

\* A set of waiting calls is answered at once.
Answer(S, a) ==
  /\ \A c \in S : status[c] = "pending"
  /\ status' = [c \in Calls |-> IF c \in S THEN a ELSE status[c]]

\* A call may also fail before it was accepted.
Refuse(c) ==
  /\ status[c] \in Open
  /\ status' = [status EXCEPT ![c] = "failed"]

Next ==
  \/ \E c \in Calls : Submit(c) \/ Refuse(c)
  \/ \E S \in SUBSET Calls, a \in {"end_turn", "cancelled"} : Answer(S, a)

Spec == Init /\ [][Next]_status
============================================================================
