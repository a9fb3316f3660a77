----------------------------- MODULE MCPlanMode -----------------------------
(* Model-checking instances of PlanMode: what the world may do.            *)
EXTENDS PlanMode

CONSTANTS s1, s2

SafeWorlds ==
  {{"late", "extension"}, {"write", "cancel"},
   {"sendNow", "replay", "cancel"},
   {"restart", "refuse", "extension", "cancel"},
   {"switch", "read", "veto"}}
InterjectWorlds == {{"sendNow"}}
=============================================================================
