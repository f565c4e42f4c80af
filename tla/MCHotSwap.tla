----------------------------- MODULE MCHotSwap -----------------------------
(* Model values for HotSwap.  Well-formed programs are interchangeable,    *)
(* and so are connection threads.                                          *)
EXTENDS HotSwap, TLC

CONSTANTS c1, c2, p1, p2, p3, broken

TwoClients == {c1, c2}
GoodPrograms == {p1, p2, p3}
AllPrograms == GoodPrograms \union {broken}

SwapSymmetry == Permutations(TwoClients) \union Permutations(GoodPrograms)

=============================================================================
