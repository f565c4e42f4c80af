---------------------------- MODULE MCHmiDeploy ----------------------------
(* Model values for HmiDeploy: with three layouts one can be active, one   *)
(* being written and one about to be stored.                               *)
EXTENDS HmiDeploy

CONSTANTS c1, c2, l1, l2, l3

TwoClients == {c1, c2}
ThreeLayouts == {l1, l2, l3}

=============================================================================
