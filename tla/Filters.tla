------------------------------ MODULE Filters ------------------------------
(***************************************************************************)
(* Array.prototype.filter, with which the operations of both editors take   *)
(* things out of their lists.  The test is given by the set of the elements *)
(* that fail it, the recursion by a function: both as proofs need them.     *)
(***************************************************************************)
EXTENDS Integers, Sequences

\* What filter leaves of a sequence when the given elements go.
Drop(s, gone) ==
  LET drop[n \in 0..Len(s)] == IF n = 0 THEN <<>>
                               ELSE IF s[n] \in gone THEN drop[n - 1]
                               ELSE Append(drop[n - 1], s[n])
  IN  drop[Len(s)]
=============================================================================
