--------------------------- MODULE MCSessionTurns ---------------------------
(* TLC instance of SessionTurns: an open-ended prompt, which goes to the   *)
(* escalation layer until the user pins another.                           *)
EXTENDS SessionTurns

MCPromptsTried == {[matches |-> {"complex"}, impacted |-> 0]}
=============================================================================
