-------------------------- MODULE MCEngineControl --------------------------
(* Model values for EngineControl: two callers are enough for a call of    *)
(* one to fall between the two stores of step_cycle of the other.          *)
EXTENDS EngineControl

CONSTANTS c1, c2

OneCaller == {c1}
TwoCallers == {c1, c2}

=============================================================================
