--------------------------- MODULE MCPowerManager ---------------------------
(***************************************************************************)
(* Instances of PowerManager for TLC are given in the configurations: one  *)
(* tick to the dimming, two to the fade-out, fades of two steps.           *)
(***************************************************************************)
EXTENDS PowerManager

\* States in which the tasks take turns: neither is inside a step of its own
\* while the other is.  What fails in these fails without a data race.
TakingTurns == pc["main"] \in LoopPc \/ pc["lvgl"] = "free"
=============================================================================
