----------------------- MODULE EngineControl_proofs -----------------------
(***************************************************************************)
(* Proofs about the control gate of the cycle thread, for any set of       *)
(* callers.                                                                *)
(***************************************************************************)
EXTENDS EngineControl, TLAPS

(* Every variable of the gate keeps its type under every call and every    *)
(* step of the cycle thread.                                               *)
THEOREM TypeCorrect == Spec => []TypeOK
<1>1. Init => TypeOK
  <2> SUFFICES ASSUME Init PROVE TypeOK
    OBVIOUS
  <2>1. client \in [Clients -> {"idle", "stepping"}] /\ credit \in Int
    BY SMT DEF Init
  <2>2. QED
    BY <2>1, Zenon DEF Init, TypeOK, EnginePc
<1>2. TypeOK /\ [Next]_vars => TypeOK'
  <2> SUFFICES ASSUME TypeOK, [Next]_vars PROVE TypeOK'
    OBVIOUS
  <2> USE DEF TypeOK, EnginePc, EngineGoes
  <2>1. CASE Engine
    <3>1. CASE AtTop
      BY <3>1 DEF AtTop
    <3>2. CASE LeavePark
      BY <3>2 DEF LeavePark
    <3>3. CASE AtGate
      BY <3>3 DEF AtGate
    <3>4. CASE LeaveHold
      BY <3>4 DEF LeaveHold
    <3>5. CASE ClearStep
      BY <3>5 DEF ClearStep
    <3>6. CASE FinishCycle
      BY <3>6 DEF FinishCycle
    <3>7. QED
      BY <2>1, <3>1, <3>2, <3>3, <3>4, <3>5, <3>6 DEF Engine
  <2>2. ASSUME NEW c \in Clients, Call(c) PROVE TypeOK'
    <3>1. CASE Pause(c)
      BY <3>1 DEF Pause, StorePaused, InFlight, Pending
    <3>2. CASE Resume(c)
      <4>1. credit' \in Int
        BY <3>2, SMT DEF Resume
      <4>2. QED
        BY <3>2, <4>1, Zenon DEF Resume
    <3>3. CASE StepPauses(c)
      BY <3>3 DEF StepPauses, StorePaused, InFlight, Pending
    <3>4. CASE StepRequests(c)
      BY <3>4 DEF StepRequests, Pending
    <3>5. QED
      BY <2>2, <3>1, <3>2, <3>3, <3>4 DEF Call
  <2>3. CASE Start \/ Stop \/ Join
    BY <2>3 DEF Start, Stop, Join
  <2>4. CASE UNCHANGED vars
    BY <2>4 DEF vars
  <2>5. QED
    BY <2>1, <2>2, <2>3, <2>4 DEF Next
<1>3. QED
  BY <1>1, <1>2, PTL DEF Spec

(* The credit of a pause covers every cycle the thread is committed to:    *)
(* the inductive half of the pause contract.                               *)
LEMMA CreditInductive == Spec => []CreditCovers
<1> USE DEF CreditCovers, InFlight, Pending, EngineGoes
<1>1. Init => CreditCovers
  BY DEF Init
<1>2. TypeOK /\ CreditCovers /\ [Next]_vars => CreditCovers'
  <2> SUFFICES ASSUME TypeOK, CreditCovers, [Next]_vars PROVE CreditCovers'
    OBVIOUS
  <2> USE DEF TypeOK
  <2>1. CASE Engine
    <3>1. CASE AtTop
      BY <3>1 DEF AtTop
    <3>2. CASE LeavePark
      BY <3>2 DEF LeavePark
    <3>3. CASE AtGate
      BY <3>3 DEF AtGate
    <3>4. CASE LeaveHold
      BY <3>4 DEF LeaveHold
    <3>5. CASE ClearStep
      BY <3>5 DEF ClearStep
    <3>6. CASE FinishCycle
      BY <3>6 DEF FinishCycle
    <3>7. QED
      BY <2>1, <3>1, <3>2, <3>3, <3>4, <3>5, <3>6 DEF Engine
  <2>2. ASSUME NEW c \in Clients, Call(c) PROVE CreditCovers'
    <3>1. CASE Pause(c)
      BY <3>1 DEF Pause, StorePaused
    <3>2. CASE Resume(c)
      BY <3>2 DEF Resume
    <3>3. CASE StepPauses(c)
      BY <3>3 DEF StepPauses, StorePaused
    <3>4. CASE StepRequests(c)
      BY <3>4 DEF StepRequests
    <3>5. QED
      BY <2>2, <3>1, <3>2, <3>3, <3>4 DEF Call
  <2>3. CASE Start \/ Stop \/ Join
    BY <2>3 DEF Start, Stop, Join
  <2>4. CASE UNCHANGED vars
    BY <2>4 DEF vars
  <2>5. QED
    BY <2>1, <2>2, <2>3, <2>4 DEF Next
<1>3. QED
  BY <1>1, <1>2, TypeCorrect, PTL DEF Spec

(* A paused engine completes only the cycle in flight and the cycles that  *)
(* were asked for by step_cycle, whoever else calls pause, resume, step    *)
(* and stop meanwhile.                                                     *)
THEOREM PauseContract == Spec => []PauseHolds
<1>1. TypeOK /\ CreditCovers => PauseHolds
  BY DEF TypeOK, CreditCovers, PauseHolds, InFlight, Pending
<1>2. QED
  BY <1>1, TypeCorrect, CreditInductive, PTL

=============================================================================
