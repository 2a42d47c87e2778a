---------------------------- MODULE MCCompactor ----------------------------
(* TLC instance of Compactor: one user and one assistant message, four     *)
(* outputs that may be masked (the largest does not save most, and one is  *)
(* no larger than its placeholder), and three that may not: a failure, an  *)
(* image and a quoted placeholder.                                         *)
EXTENDS Compactor

CONSTANTS talk, big, mid, small, tiny, trace, image, quote

MCContents == {talk, big, mid, small, tiny, trace, image, quote}

Output(c, n, f, bad) ==
    [role |-> "toolResult", content |-> c, tokens |-> n, form |-> f, failure |-> bad]

Talk(r) == [role |-> r, content |-> talk, tokens |-> 1, form |-> "text", failure |-> FALSE]

Masking == {Talk("user"), Talk("assistant"), Output(big, 8, "text", FALSE),
            Output(mid, 5, "text", FALSE), Output(small, 4, "text", FALSE)}

Protected == {Output(tiny, 2, "text", FALSE), Output(trace, 8, "text", TRUE),
              Output(image, 0, "image", FALSE), Output(quote, 2, "placeholder", FALSE)}

MCMessages == Masking \cup Protected

MCPlaceholderTokens ==
    [c \in MCContents |-> CASE c = big -> 6 [] c = mid -> 2 [] OTHER -> 3]
=============================================================================
