--------------------------- MODULE MCConversation ---------------------------
EXTENDS Conversation, TLC

CONSTANTS p1, p2, ls, make, reset, nothing, torn, noTail

Kind(shot, graph, model, permissions, tty) ==
    [shot |-> shot, graph |-> graph, model |-> model, permissions |-> permissions, tty |-> tty]

\* At a terminal; one prompt, piped; without the graph; with an unknown model.
MCKinds == {Kind(FALSE, TRUE, TRUE, "confirm", TRUE),
            Kind(TRUE, TRUE, TRUE, "confirm", FALSE),
            Kind(FALSE, FALSE, TRUE, "yolo", FALSE),
            Kind(FALSE, TRUE, FALSE, "allowlist", FALSE)}

Symmetry == Permutations(Procs)
=============================================================================
