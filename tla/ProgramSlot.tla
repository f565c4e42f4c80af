---------------------------- MODULE ProgramSlot ----------------------------
(***************************************************************************)
(* What the engine's program interface promises, with every call and the   *)
(* cycle boundary as one step: a slot for one validated program beside the *)
(* program that runs.  A program leaves the slot in three ways only: it is *)
(* replaced by another, discarded, or moved whole to become the running    *)
(* program; and the running program changes only by such a move or by an   *)
(* immediate load.  HotSwap implements this with two locks and a flag.     *)
(***************************************************************************)
CONSTANTS
  Versions,     \* submitted programs, one identity for each submission
  WellFormed,   \* those HalProgram::is_well_formed accepts
  None          \* no program

VARIABLES slot, active

slotVars == <<slot, active>>

Program == WellFormed \union {None}

Init == slot = None /\ active = None

Prepare(v) == slot' = v /\ UNCHANGED active

Discard == slot' = None /\ UNCHANGED active

Move == slot # None /\ active' = slot /\ slot' = None

Load(v) == active' = v /\ UNCHANGED slot

Next ==
  \/ \E v \in WellFormed : Prepare(v) \/ Load(v)
  \/ Discard
  \/ Move

Spec == Init /\ [][Next]_slotVars

=============================================================================
