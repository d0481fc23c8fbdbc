---------------------------- MODULE MCCalcEngine ----------------------------
(* CalcEngine for TLC: every configuration of up to MaxVariables variables. *)
EXTENDS CalcEngine

=============================================================================
