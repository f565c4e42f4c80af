---------------------------- MODULE MCFbdCompile ----------------------------
(* Values for FbdCompile: two gates and two blocks with their rows of       *)
(* getDefaultInputPinNames and of the block registry.                       *)
EXTENDS FbdCompile, TLC

TwoGates == {"NOT", "AND"}
TwoBlocks == {"TON", "R_TRIG"}

PinsIn == [NOT |-> [IN |-> "BOOL"], AND |-> [IN1 |-> "BOOL", IN2 |-> "BOOL"],
           TON |-> [IN |-> "BOOL", PT |-> "TIME"],
           R_TRIG |-> [CLK |-> "BOOL"]]
PinsOut == [NOT |-> [OUT |-> "BOOL"], AND |-> [OUT |-> "BOOL"],
            TON |-> [Q |-> "BOOL", ET |-> "TIME"],
            R_TRIG |-> [Q |-> "BOOL"]]

\* A gate wired to a block that is not there, or to a pin that it has not.
OpenedFiles ==
  {[nodes |-> <<[id |-> a, type |-> "NOT"]>>,
    edges |-> <<[id |-> w, src |-> a, out |-> "OUT", dst |-> y, in |-> q]>>] :
     a \in GateIds, w \in WireIds,
     <<y, q>> \in (GateIds \X {"IN1"}) \cup (BlockIds \X {"IN"})}

Interchangeable == Permutations(GateIds) \cup Permutations(BlockIds) \cup Permutations(WireIds)
=============================================================================
