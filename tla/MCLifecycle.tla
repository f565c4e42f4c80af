---------------------------- MODULE MCLifecycle ----------------------------
(* Model values for Lifecycle: two children, so that one visit restarts    *)
(* both, one or neither.                                                   *)
EXTENDS Lifecycle

CONSTANTS a, b

TwoChildren == {a, b}

=============================================================================
