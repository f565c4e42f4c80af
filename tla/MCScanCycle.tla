---------------------------- MODULE MCScanCycle ----------------------------
(* Model values for ScanCycle: three inputs, the last of which an adapter  *)
(* writes past the mutex, as another does the first output, and a program  *)
(* whose two outputs both follow the first input, so that halves of two    *)
(* cycles differ from every whole one.                                     *)
EXTENDS ScanCycle

CONSTANTS i1, i2, i3, o1, o2, k, low, high

ThreeInputs == {i1, i2, i3}
TwoInputs == {i1, i2}
TwoOutputs == {o1, o2}
OneComputed == {k}
NoSignals == {}
AdapterSignals == {i3, o1}
AllWired == ThreeInputs \union TwoOutputs
Levels == {low, high}
FollowFirst == [f \in [ThreeInputs -> Levels] |-> [o \in TwoOutputs |-> f[i1]]]

=============================================================================
