------------------------------ MODULE MCRunView ------------------------------
(***************************************************************************)
(* SessionLog and RunView for TLC: a judge alone, the two sides of the      *)
(* investment debate, the three of the risk debate.                         *)
(***************************************************************************)
EXTENDS RunView

MCStageNames ==
    <<<<"trader">>, <<"bull", "bear">>, <<"aggressive", "conservative", "neutral">>>>

MCPlanOrder == <<"bull", "bear", "trader", "aggressive", "conservative", "neutral">>
=============================================================================
