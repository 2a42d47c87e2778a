---------------------------- MODULE MCTaskRunner ----------------------------
(* TLC instance of TimedTask; the bounds are in the configuration.         *)
EXTENDS TimedTask
=============================================================================
