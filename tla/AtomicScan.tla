----------------------------- MODULE AtomicScan -----------------------------
(***************************************************************************)
(* The scan cycle as its users are meant to see it: the inputs are sampled *)
(* in one step, the program runs on that sample, and its outputs appear on *)
(* the wire in one step.  Between these steps clients write single signals *)
(* and take snapshots of the outputs.  Adapters do not keep out of a step: *)
(* what one writes to an input after the sample may still get into it, for *)
(* that input, until the program runs.                                     *)
(***************************************************************************)
CONSTANTS
  Inputs,     \* Monitored signals
  Outputs,    \* Own signals
  Others,     \* the signals that are neither
  Values,     \* what a signal can carry
  Initial,    \* the value signals are registered with
  None,       \* no value published yet
  Program,    \* the outputs for each valuation of the inputs
  Remote,     \* the signals clients write
  Direct      \* the signals adapters write

VARIABLES wire, reg, seen, phase

scanVars == <<wire, reg, seen, phase>>

Registered == Inputs \union Outputs \union Others

Init ==
  /\ wire = [s \in Inputs \union Outputs |-> None]
  /\ reg = [s \in Registered |-> Initial]
  /\ seen = [o \in Outputs |-> None]
  /\ phase = "sample"

Sample ==
  /\ phase = "sample" /\ phase' = "run"
  /\ reg' = [s \in Registered |->
               IF s \in Inputs /\ wire[s] # None THEN wire[s] ELSE reg[s]]
  /\ UNCHANGED <<wire, seen>>

Run ==
  /\ phase = "run" /\ phase' = "publish"
  /\ reg' = [s \in Registered |->
               IF s \in Outputs THEN Program[[i \in Inputs |-> reg[i]]][s] ELSE reg[s]]
  /\ UNCHANGED <<wire, seen>>

Publish ==
  /\ phase = "publish" /\ phase' = "sample"
  /\ wire' = [s \in Inputs \union Outputs |-> IF s \in Outputs THEN reg[s] ELSE wire[s]]
  /\ UNCHANGED <<reg, seen>>

Write(s, v) == wire' = [wire EXCEPT ![s] = v] /\ UNCHANGED <<reg, seen, phase>>

WriteLate(s, v) ==
  /\ phase = "run"
  /\ wire' = [wire EXCEPT ![s] = v] /\ reg' = [reg EXCEPT ![s] = v]
  /\ UNCHANGED <<seen, phase>>

Observe == seen' = [o \in Outputs |-> wire[o]] /\ UNCHANGED <<wire, reg, phase>>

Next ==
  \/ Sample \/ Run \/ Publish
  \/ \E v \in Values :
       \/ \E s \in Remote \union Direct : Write(s, v)
       \/ \E s \in Direct \intersect Inputs : WriteLate(s, v)
  \/ Observe

Spec == Init /\ [][Next]_scanVars

=============================================================================
