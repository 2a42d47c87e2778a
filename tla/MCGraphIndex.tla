---------------------------- MODULE MCGraphIndex ----------------------------
(* Two names, three contents: a callee, its caller, and a file of both.     *)
EXTENDS GraphIndex, TLC

CONSTANTS h, r, f1, f2, f3, i1, i2

MCNames == {h, r}
Callee == [declares |-> {h}, calls |-> {}]
Caller == [declares |-> {r}, calls |-> {<<r, h>>, <<Top, r>>}]
Both == [declares |-> {h, r}, calls |-> {<<r, h>>}]
MCContents == {Callee, Caller, Both}
TwoContents == {Callee, Caller}
TwoFiles == {f1, f2}
ThreeFiles == {f1, f2, f3}
Alone == {i1}
Pair == {i1, i2}
Sessions == Permutations(Pair) \cup Permutations(TwoFiles)
=============================================================================
