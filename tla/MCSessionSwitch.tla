-------------------------- MODULE MCSessionSwitch --------------------------
(* Model-checking instances of SessionSwitch.                              *)
EXTENDS SessionSwitch

CONSTANTS s1, s2, s3, t1, t2

\* Two sessions with a subagent, and one that session/new may open.
SomeRecords == [x \in Sessions |-> CASE x = s1 -> 1 [] x = s2 -> 2 [] x = s3 -> 0]
Scenario(liberties, switches, reports) ==
  [may |-> liberties, switches |-> switches, reports |-> reports]
SwitchScenarios ==
  {Scenario({"fail", "live", "new"}, 2, 2),
   Scenario({"fail", "replay"}, 3, 1),
   Scenario({"read"}, 2, 1),
   Scenario({"overlap", "fail", "replay"}, 2, 1),
   Scenario({"overlap", "live", "new"}, 2, 1)}
=============================================================================
