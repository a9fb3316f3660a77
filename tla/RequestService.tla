-------------------------- MODULE RequestService ---------------------------
(***************************************************************************)
(* What PiRpc promises its callers.  A request ends once, with one result, *)
(* and the result is true: data or a refusal only if Pi decided so, an     *)
(* exit or a closed writer only if the process is gone, a timeout only for *)
(* a command that has one.  A notification has no answer: it is handed     *)
(* over, or the writer is closed.                                          *)
(***************************************************************************)
CONSTANTS Requests, Untimed, Notes

VARIABLES
  status,   \* [Requests \cup Notes -> "new", "open" or the result]
  verdict,  \* [Requests -> what Pi decided, "none" before]
  gone      \* has the process exited?

vars == <<status, verdict, gone>>

Init ==
  /\ status = [c \in Requests \cup Notes |-> "new"]
  /\ verdict = [r \in Requests |-> "none"]
  /\ gone = FALSE

Ask(r) ==
  /\ status[r] = "new"
  /\ status' = [status EXCEPT ![r] = "open"]
  /\ UNCHANGED <<verdict, gone>>

\* Pi can only decide on a request that was asked, and decides once.
Decide(r, v) ==
  /\ ~gone
  /\ status[r] # "new"
  /\ verdict[r] = "none"
  /\ verdict' = [verdict EXCEPT ![r] = v]
  /\ UNCHANGED <<status, gone>>

Exit ==
  /\ gone' = TRUE
  /\ UNCHANGED <<status, verdict>>

Truthful(r, a) ==
  \/ a = "data" /\ verdict[r] = "ok"
  \/ a = "refused" /\ verdict[r] = "refused"
  \/ a \in {"exit", "closed"} /\ gone
  \/ a = "timeout" /\ r \notin Untimed

End(r, a) ==
  /\ status[r] = "open"
  /\ Truthful(r, a)
  /\ status' = [status EXCEPT ![r] = a]
  /\ UNCHANGED <<verdict, gone>>

Note(n, a) ==
  /\ status[n] = "new"
  /\ a = "sent" \/ (a = "closed" /\ gone)
  /\ status' = [status EXCEPT ![n] = a]
  /\ UNCHANGED <<verdict, gone>>

Next ==
  \/ \E r \in Requests :
       \/ Ask(r)
       \/ \E v \in {"ok", "refused"} : Decide(r, v)
       \/ \E a \in {"data", "refused", "exit", "closed", "timeout"} : End(r, a)
  \/ \E n \in Notes, a \in {"sent", "closed"} : Note(n, a)
  \/ Exit

Spec == Init /\ [][Next]_vars
============================================================================
