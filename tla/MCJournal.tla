----------------------------- MODULE MCJournal ------------------------------
(* TLC instance of Journal; the bounds are in the configurations.          *)
EXTENDS Journal
=============================================================================
