------------------------------ MODULE MCRouter ------------------------------
(* TLC instance of Router: prompts at and over the impact threshold.       *)
EXTENDS Router

MCImpacts == {12, 13}
=============================================================================
