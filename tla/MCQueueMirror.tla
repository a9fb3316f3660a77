--------------------------- MODULE MCQueueMirror ---------------------------
(* Model-checking instances of QueueMirror.                                *)
EXTENDS QueueMirror

CONSTANTS c1, c2, a, b

Scenario(liberties, extra, edits) ==
  [may |-> liberties, extra |-> extra, edits |-> edits]
MirrorScenarios ==
  {Scenario({"cancel", "refuse"}, 1, 1),
   Scenario({"cancel", "pi"}, 1, 1),
   Scenario({"pi", "expand", "consume"}, 1, 0),
   Scenario({"cancel", "deadline", "reload", "bash"}, 0, 1)}
Symmetry == Permutations({a, b}) \cup Permutations({c1, c2})
============================================================================
