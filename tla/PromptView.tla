----------------------------- MODULE PromptView -----------------------------
(***************************************************************************)
(* What the provider may see of one conversation after another.  Its cache *)
(* matches on the exact prefix, so a request either extends the last one   *)
(* or belongs to a counted batch of rewrites, in which a message stays as  *)
(* it is or is masked, once (packages/history/src/compaction.ts:20-28).    *)
(* A batch that is cut short is not counted and may leave rewrites owed,   *)
(* which show in a later request: at most once for every cut.              *)
(***************************************************************************)
EXTENDS Naturals, Sequences, SequencesExt

CONSTANT Masked(_)   \* what a rewrite makes of a message

VARIABLES
    view,            \* messages of the last request
    rewrites,        \* counted batches of rewrites so far
    cuts,            \* batches that were cut short
    owed             \* rewrites of cut batches have yet to show

viewVars == <<view, rewrites, cuts, owed>>

ViewInit == view = <<>> /\ rewrites = 0 /\ cuts = 0 /\ owed = FALSE

Extend == IsPrefix(view, view') /\ UNCHANGED <<rewrites, cuts, owed>>

Masks ==
    /\ Len(view) =< Len(view')
    /\ \A i \in 1..Len(view) : view'[i] \in {view[i], Masked(view[i])}

Rewrite ==
    /\ rewrites' = rewrites + 1
    /\ Masks
    /\ owed' = FALSE
    /\ UNCHANGED cuts

Cut ==
    /\ cuts' = cuts + 1
    /\ owed' \in BOOLEAN
    /\ UNCHANGED <<view, rewrites>>

\* What is owed shows, or becomes part of a batch that will be counted.
Settle ==
    /\ owed /\ owed' = FALSE
    /\ Masks
    /\ UNCHANGED <<rewrites, cuts>>

NewConversation ==
    /\ view' = <<>> /\ rewrites' = 0 /\ owed' = FALSE
    /\ UNCHANGED cuts

ViewNext == Extend \/ Rewrite \/ Cut \/ Settle \/ NewConversation

ViewSpec == ViewInit /\ [][ViewNext]_viewVars
=============================================================================
