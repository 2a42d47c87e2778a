-------------------------- MODULE MCProviderChain --------------------------
(* TLC instance of ProviderChain; the bounds are in the configuration.     *)
EXTENDS ProviderChain
=============================================================================
