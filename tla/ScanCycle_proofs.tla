------------------------- MODULE ScanCycle_proofs -------------------------
(***************************************************************************)
(* The barriers of the scan cycle for any sets of signals and values and   *)
(* any program, whatever adapters write past the mutex.                    *)
(***************************************************************************)
EXTENDS ScanCycle, TLAPS

(* What each loop of the cycle thread works on, and what it may be about   *)
(* to store; a value computed is stored under the guard that blocks it.    *)
LoopInv ==
  /\ engine = "read" => todo \subseteq Inputs
  /\ engine = "compute" => todo \subseteq Computed
  /\ engine = "write" => todo \subseteq Outputs
  /\ engine = "read" /\ store # Nothing => store[1] \in Inputs
  /\ engine = "compute" /\ store # Nothing => store[1] \in Computed /\ readGuard
  /\ engine \in {"boundary", "publish", "write"} => store = Nothing

(* What the sample of a signal is or is going to be. *)
Taken(s) == IF store # Nothing /\ store[1] = s THEN store[2] ELSE reg[s]

(* During the barrier the present is one of the instants remembered, and   *)
(* what the loop has been past was taken at one of them.                   *)
FreshInv ==
  /\ engine = "read" => InputsOf(wire) \in instants
  /\ engine = "read" =>
       \A i \in Inputs \ todo : \E f \in instants : f[i] \in {None, Taken(i)}

IInv == TypeOK /\ LoopInv /\ FreshInv /\ InputsFresh

(* The types of a sample, of an instant and of a value about to be stored. *)
LEMMA Typed ==
  ASSUME TypeOK
  PROVE  /\ InputsOf(wire) \in [Inputs -> Values \union {None}]
         /\ InputsOf(reg) \in [Inputs -> Values]
         /\ Nothing \notin (Inputs \union Computed) \X Values
         /\ store # Nothing => /\ store \in (Inputs \union Computed) \X Values
                               /\ store = <<store[1], store[2]>>
                               /\ store[1] \in Inputs \union Computed /\ store[2] \in Values
  BY DEF TypeOK, InputsOf, Wired, Nothing

(* The cycle starts at its boundary, with nothing sampled and nothing to   *)
(* store.                                                                  *)
LEMMA InitInv == Init => IInv
<1> SUFFICES ASSUME Init PROVE IInv
  OBVIOUS
<1> USE DEF Init
<1>1. TypeOK
  BY SignalsAssumption DEF TypeOK, Wired
<1>2. LoopInv /\ FreshInv
  BY DEF LoopInv, FreshInv
<1>3. InputsFresh
  BY DEF InputsFresh
<1>4. QED
  BY <1>1, <1>2, <1>3 DEF IInv

(* Every step of the cycle thread, the adapters and the remote writers     *)
(* keeps the types.                                                        *)
LEMMA TypeStep == TypeOK /\ LoopInv /\ [Next]_vars => TypeOK'
<1> SUFFICES ASSUME TypeOK, LoopInv, [Next]_vars PROVE TypeOK'
  OBVIOUS
<1> USE SignalsAssumption DEF TypeOK, OthersKeep, Wired
<1>1. CASE EnterRead
  BY <1>1, Typed DEF EnterRead
<1>2. ASSUME NEW i \in Inputs, ReadSignal(i) PROVE TypeOK'
  BY <1>2 DEF ReadSignal
<1>3. CASE UpdateValue
  BY <1>3, Typed DEF UpdateValue
<1>4. CASE LeaveRead
  BY <1>4 DEF LeaveRead
<1>5. ASSUME NEW k \in Computed, NEW v \in Values, ComputeSignal(k, v) PROVE TypeOK'
  BY <1>5 DEF ComputeSignal
<1>6. CASE RunProgram
  <2>1. Program[InputsOf(reg)] \in [Outputs -> Values]
    BY Typed
  <2>2. QED
    BY <1>6, <2>1 DEF RunProgram
<1>7. CASE EnterWrite
  BY <1>7 DEF EnterWrite
<1>8. ASSUME NEW o \in Outputs, PublishSignal(o) PROVE TypeOK'
  BY <1>8 DEF PublishSignal
<1>9. CASE LeaveWrite
  BY <1>9 DEF LeaveWrite, LoopInv
<1>10. ASSUME NEW v \in Values, NEW s \in Wired, WriteSignal(s, v) \/ PublishDirect(s, v)
       PROVE  TypeOK'
  <2>1. wire' \in [Wired -> Values \union {None}]
    BY <1>10 DEF WriteSignal, PublishDirect
  <2>2. InputsOf(wire') \in [Inputs -> Values \union {None}]
    BY <2>1 DEF InputsOf
  <2>3. QED
    BY <1>10, <2>1, <2>2 DEF WriteSignal, PublishDirect
<1>11. CASE SnapshotSignals
  BY <1>11 DEF SnapshotSignals, OutputsOf
<1>12. ASSUME NEW k \in Computed, RegisterComputed(k) PROVE TypeOK'
  BY <1>12 DEF RegisterComputed
<1>13. CASE UNCHANGED vars
  BY <1>13 DEF vars
<1>14. QED
  BY <1>1, <1>2, <1>3, <1>4, <1>5, <1>6, <1>7, <1>8, <1>9, <1>10, <1>11, <1>12, <1>13
     DEF Next, Engine

(* Every step keeps the loops inside the signals they are about, and the   *)
(* guard held while a computed value is stored.                            *)
LEMMA LoopStep == TypeOK /\ LoopInv /\ [Next]_vars => LoopInv'
<1> SUFFICES ASSUME TypeOK, LoopInv, [Next]_vars PROVE LoopInv'
  OBVIOUS
<1> USE DEF LoopInv, OthersKeep
<1>1. CASE EnterRead
  BY <1>1 DEF EnterRead, TypeOK
<1>2. ASSUME NEW i \in Inputs, ReadSignal(i) PROVE LoopInv'
  BY <1>2 DEF ReadSignal
<1>3. CASE UpdateValue
  BY <1>3 DEF UpdateValue
<1>4. CASE LeaveRead
  BY <1>4 DEF LeaveRead, TypeOK
<1>5. ASSUME NEW k \in Computed, NEW v \in Values, ComputeSignal(k, v) PROVE LoopInv'
  BY <1>5 DEF ComputeSignal
<1>6. CASE RunProgram \/ EnterWrite \/ LeaveWrite
  BY <1>6 DEF RunProgram, EnterWrite, LeaveWrite
<1>7. ASSUME NEW o \in Outputs, PublishSignal(o) PROVE LoopInv'
  BY <1>7 DEF PublishSignal
<1>8. CASE UNCHANGED <<engine, todo, store, readGuard>>
  BY <1>8
<1>9. QED
  BY <1>1, <1>2, <1>3, <1>4, <1>5, <1>6, <1>7, <1>8
     DEF Next, Engine, WriteSignal, PublishDirect, SnapshotSignals, RegisterComputed, vars

-----------------------------------------------------------------------------
(* Freshness of each input, whoever writes what.                           *)
LEMMA ReadFresh ==
  ASSUME IInv, NEW i \in Inputs, ReadSignal(i)
  PROVE  FreshInv' /\ InputsFresh'
<1> USE DEF IInv, ReadSignal, OthersKeep
<1>1. InputsOf(wire) \in instants /\ InputsOf(wire)[i] = wire[i]
  BY DEF FreshInv, InputsOf
<1>2. ASSUME NEW j \in Inputs \ todo' PROVE \E f \in instants : f[j] \in {None, Taken(j)'}
  <2>1. CASE j = i
    <3>1. wire[i] \in {None, Taken(i)'}
      BY DEF Taken, Nothing
    <3>2. QED
      BY <1>1, <2>1, <3>1
  <2>2. CASE j # i
    <3>1. j \in Inputs \ todo /\ Taken(j)' = Taken(j)
      BY <2>2 DEF Taken, Nothing
    <3>2. QED
      BY <3>1 DEF FreshInv
  <2>3. QED
    BY <2>1, <2>2
<1>3. QED
  BY <1>1, <1>2 DEF FreshInv, InputsFresh, InputsOf

(* A write to the wire from outside adds an instant where it changes an    *)
(* input during the barrier, so what the loop has sampled stays a value of *)
(* a remembered instant.                                                   *)
LEMMA UpdateFresh ==
  ASSUME IInv, UpdateValue
  PROVE  FreshInv' /\ InputsFresh'
<1> USE DEF IInv, UpdateValue, OthersKeep
<1>1. engine \in {"read", "compute"}
  BY DEF TypeOK, LoopInv
<1>2. CASE engine = "read"
  <2>1. store[1] \in DOMAIN reg /\ Inputs \subseteq DOMAIN reg
    BY Typed DEF TypeOK, Wired
  <2>2. ASSUME NEW i \in Inputs PROVE Taken(i)' = Taken(i)
    <3>1. Taken(i)' = reg'[i]
      BY DEF Taken
    <3>2. CASE store[1] = i
      BY <2>1, <3>1, <3>2 DEF Taken
    <3>3. CASE store[1] # i
      BY <2>1, <3>1, <3>3 DEF Taken
    <3>4. QED
      BY <3>2, <3>3
  <2>3. QED
    BY <1>2, <2>2 DEF FreshInv, InputsFresh, InputsOf
<1>3. CASE engine = "compute"
  <2>1. \A i \in Inputs : reg'[i] = reg[i]
    BY <1>3, SignalsAssumption DEF TypeOK, LoopInv, Wired
  <2>2. QED
    BY <1>3, <2>1 DEF FreshInv, InputsFresh
<1>4. QED
  BY <1>1, <1>2, <1>3

(* Writers add the new present to the instants and take none away.         *)
LEMMA WriteFresh ==
  ASSUME IInv, NEW s \in Wired, NEW v \in Values, WriteSignal(s, v) \/ PublishDirect(s, v)
  PROVE  FreshInv' /\ InputsFresh'
<1>1. /\ UNCHANGED <<engine, todo, store, reg>>
      /\ instants \subseteq instants'
      /\ engine = "read" => InputsOf(wire') \in instants'
  BY DEF WriteSignal, PublishDirect
<1>2. \A i \in Inputs : Taken(i)' = Taken(i)
  BY <1>1 DEF Taken
<1>3. InputsOf(wire)' = InputsOf(wire')
  BY DEF InputsOf
<1>4. FreshInv'
  BY <1>1, <1>2, <1>3 DEF FreshInv, IInv
<1>5. InputsFresh'
  BY <1>1 DEF InputsFresh, IInv
<1>6. QED
  BY <1>4, <1>5

(* Every step keeps the samples taken at remembered instants, and the      *)
(* inputs fresh when the barrier is left.                                  *)
LEMMA FreshStep == IInv /\ [Next]_vars => FreshInv' /\ InputsFresh'
<1> SUFFICES ASSUME IInv, [Next]_vars PROVE FreshInv' /\ InputsFresh'
  OBVIOUS
<1>1. CASE EnterRead
  BY <1>1 DEF EnterRead, OthersKeep, FreshInv, InputsFresh, InputsOf
<1>2. CASE LeaveRead
  BY <1>2 DEF LeaveRead, OthersKeep, FreshInv, InputsFresh, Taken, IInv
<1>3. CASE RunProgram
  <2>1. \A i \in Inputs : reg'[i] = reg[i]
    BY <1>3, SignalsAssumption DEF RunProgram, IInv, TypeOK, Wired
  <2>2. QED
    BY <1>3, <2>1 DEF RunProgram, OthersKeep, FreshInv, InputsFresh, IInv
<1>4. ASSUME engine # "read", engine' # "read", UNCHANGED <<reg, instants>>
      PROVE  FreshInv' /\ InputsFresh'
  BY <1>4 DEF FreshInv, InputsFresh, IInv
<1>5. CASE UNCHANGED <<wire, reg, engine, todo, store, instants>>
  BY <1>5 DEF FreshInv, InputsFresh, Taken, InputsOf, IInv
<1>6. CASE (\E k \in Computed, v \in Values : ComputeSignal(k, v)) \/ EnterWrite \/ LeaveWrite
           \/ \E o \in Outputs : PublishSignal(o)
  BY <1>4, <1>6 DEF ComputeSignal, EnterWrite, LeaveWrite, PublishSignal, OthersKeep
<1>7. CASE SnapshotSignals \/ (\E k \in Computed : RegisterComputed(k)) \/ UNCHANGED vars
  BY <1>5, <1>7 DEF SnapshotSignals, RegisterComputed, vars
<1>8. QED
  BY <1>1, <1>2, <1>3, <1>6, <1>7, ReadFresh, UpdateFresh, WriteFresh, SignalsAssumption
     DEF Next, Engine

(* The inductive invariant of the cycle holds in every state.              *)
LEMMA Invariance == Spec => []IInv
<1>1. IInv /\ [Next]_vars => IInv'
  BY TypeStep, LoopStep, FreshStep DEF IInv
<1>2. QED
  BY <1>1, InitInv, PTL DEF Spec

(* Adapters that write past the mutex do not make the program miss an      *)
(* input or compute on an old one, input by input: read_barrier.           *)
THEOREM SampleIsFresh == Spec => []InputsFresh
  BY Invariance, PTL DEF IInv

-----------------------------------------------------------------------------
(* One instant for all inputs but those written past the mutex.            *)
SoleInstant ==
  engine = "read" => \A f \in instants : \A i \in Inputs \ Direct : f[i] = wire[i]

(* The mutex keeps the clients out, and the adapters write elsewhere: the  *)
(* other inputs stand still during the barrier.                            *)
LEMMA SoleStep ==
  ASSUME TypeOK, LoopInv, SoleInstant, [Next]_vars
  PROVE  SoleInstant'
<1> USE DEF SoleInstant, InputsOf, OthersKeep
<1>1. CASE EnterRead
  BY <1>1 DEF EnterRead
<1>2. ASSUME NEW v \in Values, NEW s \in Remote, WriteSignal(s, v) PROVE SoleInstant'
  BY <1>2 DEF WriteSignal, MutexHeld
<1>3. ASSUME NEW v \in Values, NEW s \in Direct, PublishDirect(s, v) PROVE SoleInstant'
  <2>1. \A i \in Inputs \ Direct : wire'[i] = wire[i] /\ InputsOf(wire')[i] = wire[i]
    BY <1>3 DEF PublishDirect, TypeOK, Wired
  <2>2. /\ engine' = engine
        /\ engine = "read" => instants' = instants \union {InputsOf(wire')}
    BY <1>3 DEF PublishDirect, InputsOf
  <2> HIDE DEF InputsOf
  <2>3. QED
    BY <2>1, <2>2
<1>4. CASE UNCHANGED <<engine, wire, instants>>
  BY <1>4
<1>5. CASE engine' # "read"
  BY <1>5
<1>6. QED
  BY <1>1, <1>2, <1>3, <1>4, <1>5
     DEF Next, Engine, ReadSignal, UpdateValue, LeaveRead, ComputeSignal, RunProgram,
         EnterWrite, PublishSignal, LeaveWrite, SnapshotSignals, RegisterComputed, vars

(* What was sampled stays so: the program changes outputs, a computed      *)
(* value goes to a Computed signal.                                        *)
LEMMA OneInstantStep ==
  ASSUME IInv, SoleInstant, InputsOfOneInstant, [Next]_vars
  PROVE  InputsOfOneInstant'
<1> USE DEF InputsOfOneInstant, OthersKeep
<1>1. CASE LeaveRead
  <2>1. instants' = instants /\ InputsOf(wire) \in instants
    BY <1>1 DEF LeaveRead, IInv, FreshInv
  <2>2. ASSUME NEW i \in Inputs \ Direct PROVE InputsOf(wire)[i] \in {None, reg[i]}
    <3>1. PICK f \in instants : f[i] \in {None, Taken(i)}
      BY <1>1 DEF LeaveRead, IInv, FreshInv
    <3>2. f[i] = InputsOf(wire)[i] /\ Taken(i) = reg[i]
      BY <1>1, <3>1 DEF LeaveRead, SoleInstant, Taken, InputsOf
    <3>3. QED
      BY <3>1, <3>2
  <2>3. Sampled(InputsOf(wire))'
    BY <1>1, <2>2 DEF LeaveRead, Sampled, InputsOf
  <2>4. QED
    BY <1>1, <2>1, <2>3 DEF LeaveRead, InputsOf, Sampled
<1>2. ASSUME engine # "read", engine' # "read", instants \subseteq instants',
             \A i \in Inputs : reg'[i] = reg[i]
      PROVE  InputsOfOneInstant'
  BY <1>2 DEF Sampled
<1>3. CASE RunProgram
  <2>1. \A i \in Inputs : reg'[i] = reg[i]
    BY <1>3, SignalsAssumption DEF RunProgram, IInv, TypeOK, Wired
  <2>2. QED
    BY <1>2, <1>3, <2>1 DEF RunProgram
<1>4. CASE UpdateValue
  <2>1. CASE engine = "read"
    BY <1>4, <2>1 DEF UpdateValue
  <2>2. CASE engine # "read"
    <3>1. \A i \in Inputs : reg'[i] = reg[i]
      BY <1>4, <2>2, SignalsAssumption DEF UpdateValue, IInv, LoopInv, TypeOK, Wired
    <3>2. QED
      BY <1>2, <1>4, <2>2, <3>1 DEF UpdateValue
  <2>3. QED
    BY <2>1, <2>2
<1>5. CASE engine' = "read"
  BY <1>5
<1>6. CASE engine # "read" /\ engine' # "read" /\ UNCHANGED <<reg, instants>>
  BY <1>2, <1>6
<1>7. QED
  BY <1>1, <1>3, <1>4, <1>5, <1>6
     DEF Next, Engine, EnterRead, ReadSignal, ComputeSignal, EnterWrite, PublishSignal, LeaveWrite,
         WriteSignal, PublishDirect, SnapshotSignals, RegisterComputed, vars

(* The sampled inputs of a cycle that no adapter writes stood on the wire  *)
(* together, for any program and whatever adapters write meanwhile:        *)
(* read_barrier under the mutex of the middleware.                         *)
THEOREM OneInstant == Spec => []InputsOfOneInstant
<1> DEFINE Inv == SoleInstant /\ InputsOfOneInstant
<1>1. Init => Inv
  BY DEF Init, SoleInstant, InputsOfOneInstant, Sampled
<1>2. IInv /\ Inv /\ [Next]_vars => Inv'
  BY SoleStep, OneInstantStep DEF IInv
<1>3. QED
  BY <1>1, <1>2, Invariance, PTL DEF Spec

-----------------------------------------------------------------------------
(* Two loops of single signals look like two steps.                        *)
LEMMA Phases ==
  /\ engine = "boundary" \/ engine = "write" => ScanPhase = "sample"
  /\ engine = "read" \/ engine = "compute" => ScanPhase = "run"
  /\ engine = "publish" => ScanPhase = "publish"
  BY DEF ScanPhase

(* Outside the barriers the mapped state is the state.                     *)
LEMMA MappedWire ==
  ASSUME TypeOK, engine # "write"
  PROVE  PublishedWire = wire
  BY DEF PublishedWire, TypeOK

(* Outside the read barrier the mapped inputs are the sampled ones.        *)
LEMMA MappedReg ==
  ASSUME TypeOK, engine # "read"
  PROVE  SampledReg = reg
  BY DEF SampledReg, TypeOK

(* Every step of the threads is a step of the atomic scan or none.         *)
LEMMA BarrierSteps ==
  ASSUME TypeOK, LoopInv
  PROVE  /\ EnterRead => Scan!Sample
         /\ RunProgram => Scan!Run
         /\ EnterWrite => Scan!Publish
<1> USE DEF OthersKeep
<1>1. ASSUME EnterRead PROVE Scan!Sample
  <2> USE <1>1 DEF EnterRead
  <2>1. ScanPhase = "sample" /\ ScanPhase' = "run"
    BY Phases DEF ScanPhase
  <2>2. PublishedWire = wire /\ SampledReg = reg
    BY MappedWire, MappedReg
  <2>3. PublishedWire' = wire
    BY DEF PublishedWire, TypeOK
  <2>4. SampledReg' = [s \in Scan!Registered |->
                         IF s \in Inputs /\ wire[s] # None THEN wire[s] ELSE reg[s]]
    BY DEF SampledReg, Scan!Registered, TypeOK, LoopInv, Nothing, Wired
  <2>5. QED
    BY <2>1, <2>2, <2>3, <2>4 DEF Scan!Sample
<1>2. ASSUME RunProgram PROVE Scan!Run
  <2> USE <1>2 DEF RunProgram
  <2>1. ScanPhase = "run" /\ ScanPhase' = "publish"
    BY Phases DEF ScanPhase
  <2>2. PublishedWire = wire /\ SampledReg = reg
    BY MappedWire, MappedReg
  <2>3. PublishedWire' = wire /\ SampledReg' = reg'
    BY DEF PublishedWire, SampledReg, TypeOK
  <2>4. reg' = [s \in Scan!Registered |->
                  IF s \in Outputs THEN Program[[i \in Inputs |-> reg[i]]][s] ELSE reg[s]]
    BY DEF Scan!Registered, TypeOK, InputsOf, Wired
  <2>5. QED
    BY <2>1, <2>2, <2>3, <2>4 DEF Scan!Run
<1>3. ASSUME EnterWrite PROVE Scan!Publish
  <2> USE <1>3 DEF EnterWrite
  <2>1. ScanPhase = "publish" /\ ScanPhase' = "sample"
    BY Phases DEF ScanPhase
  <2>2. PublishedWire = wire /\ SampledReg = reg
    BY MappedWire, MappedReg
  <2>3. SampledReg' = reg
    BY DEF SampledReg, TypeOK
  <2>4. PublishedWire' = [s \in Inputs \union Outputs |->
                            IF s \in Outputs THEN reg[s] ELSE wire[s]]
    BY DEF PublishedWire, Wired
  <2>5. QED
    BY <2>1, <2>2, <2>3, <2>4 DEF Scan!Publish
<1>4. QED
  BY <1>1, <1>2, <1>3

(* Single signals do not show: what a loop has yet to do is counted done.  *)
LEMMA LoopStutters ==
  ASSUME TypeOK, LoopInv
  PROVE  /\ \A i \in Inputs : ReadSignal(i) => UNCHANGED Scan!scanVars
         /\ UpdateValue => UNCHANGED Scan!scanVars
         /\ LeaveRead => UNCHANGED Scan!scanVars
         /\ \A o \in Outputs : PublishSignal(o) => UNCHANGED Scan!scanVars
         /\ LeaveWrite => UNCHANGED Scan!scanVars
<1> USE DEF OthersKeep, Scan!scanVars
<1>1. ASSUME NEW i \in Inputs, ReadSignal(i) PROVE UNCHANGED Scan!scanVars
  <2> USE <1>1 DEF ReadSignal
  <2>1. UNCHANGED <<PublishedWire, ScanPhase, seen>>
    BY DEF PublishedWire, ScanPhase
  <2>2. ASSUME NEW s \in DOMAIN reg PROVE SampledReg'[s] = SampledReg[s]
    <3>1. CASE s = i
      BY <3>1, <2>2 DEF SampledReg, Nothing
    <3>2. CASE s # i
      BY <3>2, <2>2 DEF SampledReg, Nothing
    <3>3. QED
      BY <3>1, <3>2
  <2>3. SampledReg' = SampledReg
    BY <2>2 DEF SampledReg
  <2>4. QED
    BY <2>1, <2>3
<1>2. ASSUME UpdateValue PROVE UNCHANGED Scan!scanVars
  <2> USE <1>2 DEF UpdateValue
  <2>1. engine = "read" /\ store[1] \in DOMAIN reg
    BY DEF TypeOK, LoopInv, Wired
  <2>2. UNCHANGED <<PublishedWire, ScanPhase, seen>>
    BY <2>1 DEF PublishedWire, ScanPhase
  <2>3. ASSUME NEW s \in DOMAIN reg PROVE SampledReg'[s] = SampledReg[s]
    <3>1. CASE s = store[1]
      BY <2>1, <3>1, <2>3 DEF SampledReg, TypeOK
    <3>2. CASE s # store[1]
      BY <2>1, <3>2, <2>3 DEF SampledReg, TypeOK
    <3>3. QED
      BY <3>1, <3>2
  <2>4. SampledReg' = SampledReg
    BY <2>3 DEF SampledReg, TypeOK
  <2>5. QED
    BY <2>2, <2>4
<1>3. ASSUME LeaveRead PROVE UNCHANGED Scan!scanVars
  <2> USE <1>3 DEF LeaveRead
  <2>1. UNCHANGED <<PublishedWire, seen>>
    BY DEF PublishedWire
  <2>2. UNCHANGED ScanPhase
    BY Phases DEF ScanPhase
  <2>3. SampledReg' = reg /\ SampledReg = reg
    BY DEF SampledReg, TypeOK
  <2>4. QED
    BY <2>1, <2>2, <2>3
<1>4. ASSUME NEW o \in Outputs, PublishSignal(o) PROVE UNCHANGED Scan!scanVars
  <2> USE <1>4 DEF PublishSignal
  <2>1. UNCHANGED <<SampledReg, ScanPhase, seen>>
    BY DEF SampledReg, ScanPhase
  <2>2. UNCHANGED PublishedWire
    BY DEF PublishedWire, TypeOK, Wired
  <2>3. QED
    BY <2>1, <2>2
<1>5. ASSUME LeaveWrite PROVE UNCHANGED Scan!scanVars
  <2> USE <1>5 DEF LeaveWrite
  <2>1. UNCHANGED <<SampledReg, seen>>
    BY DEF SampledReg
  <2>2. UNCHANGED ScanPhase
    BY Phases DEF ScanPhase
  <2>3. UNCHANGED PublishedWire
    BY DEF PublishedWire
  <2>4. QED
    BY <2>1, <2>2, <2>3
<1>6. QED
  BY <1>1, <1>2, <1>3, <1>4, <1>5

(* A Computed signal is neither read nor published.                        *)
LEMMA ComputedStutters ==
  ASSUME TypeOK, LoopInv
  PROVE  /\ \A k \in Computed, v \in Values : ComputeSignal(k, v) => UNCHANGED Scan!scanVars
         /\ \A k \in Computed : RegisterComputed(k) => UNCHANGED Scan!scanVars
<1>1. ASSUME NEW k \in Computed, NEW v \in Values, ComputeSignal(k, v)
      PROVE  UNCHANGED Scan!scanVars
  <2>1. UNCHANGED <<SampledReg, PublishedWire, ScanPhase, seen>>
    BY <1>1 DEF ComputeSignal, OthersKeep, SampledReg, PublishedWire, ScanPhase
  <2>2. QED
    BY <2>1 DEF Scan!scanVars
<1>2. ASSUME NEW k \in Computed, RegisterComputed(k) PROVE UNCHANGED Scan!scanVars
  <2>1. UNCHANGED <<SampledReg, PublishedWire, ScanPhase, seen>>
    BY <1>2 DEF RegisterComputed, SampledReg, PublishedWire, ScanPhase
  <2>2. QED
    BY <2>1 DEF Scan!scanVars
<1>3. QED
  BY <1>1, <1>2

(* What an adapter writes during the read barrier to an input that is yet  *)
(* to be read gets into the sample.                                        *)
LEMMA LateStep ==
  ASSUME TypeOK, LoopInv, engine = "read",
         NEW s \in todo, NEW v \in Values, PublishDirect(s, v)
  PROVE  Scan!WriteLate(s, v)
<1> USE DEF PublishDirect
<1>1. UNCHANGED seen /\ ScanPhase = "run" /\ ScanPhase' = "run"
  BY Phases DEF ScanPhase
<1>2. /\ wire' = [wire EXCEPT ![s] = v] /\ UNCHANGED <<engine, todo, reg, store>>
      /\ DOMAIN wire = Wired /\ s \in Wired /\ s \in DOMAIN reg /\ v # None
  BY SignalsAssumption DEF TypeOK, LoopInv, Wired
<1>3. PublishedWire = wire /\ PublishedWire' = wire'
  BY <1>2 DEF PublishedWire, TypeOK
<1> DEFINE P(x, r) == IF r \in todo /\ x[r] # None THEN x[r]
                      ELSE IF store # Nothing /\ store[1] = r THEN store[2]
                      ELSE reg[r]
<1>4. SampledReg = [r \in DOMAIN reg |-> P(wire, r)]
  BY DEF SampledReg
<1>5. SampledReg' = [r \in DOMAIN reg |-> P(wire', r)]
  BY <1>2 DEF SampledReg
<1>6. \A r \in DOMAIN reg : P(wire', r) = IF r = s THEN v ELSE P(wire, r)
  <2> TAKE r \in DOMAIN reg
  <2>1. CASE r = s
    BY <1>2, <2>1
  <2>2. CASE r # s
    <3>1. r \in todo => r \in Wired
      BY DEF LoopInv, Wired
    <3>2. r \in todo => wire'[r] = wire[r]
      BY <1>2, <2>2, <3>1
    <3> QED
      BY <2>2, <3>2
  <2> QED
    BY <2>1, <2>2
<1>7. SampledReg' = [SampledReg EXCEPT ![s] = v]
  <2> HIDE DEF P
  <2> QED
    BY <1>2, <1>4, <1>5, <1>6
<1>8. QED
  BY <1>1, <1>2, <1>3, <1>7 DEF Scan!WriteLate

(* Clients come between the barriers, where the mapped wire is the wire;   *)
(* an adapter overwrites an output unseen when its turn to be published is *)
(* yet to come, and an input unseen when it has been read.                 *)
LEMMA OthersSteps ==
  ASSUME TypeOK, LoopInv
  PROVE  /\ \A s \in Remote, v \in Values : WriteSignal(s, v) => Scan!Write(s, v)
         /\ \A s \in Direct, v \in Values :
              PublishDirect(s, v) /\ ~(engine = "read" /\ s \in todo) =>
                Scan!Write(s, v) \/ UNCHANGED Scan!scanVars
         /\ SnapshotSignals => Scan!Observe
<1>1. ASSUME NEW s \in Remote, NEW v \in Values, WriteSignal(s, v) PROVE Scan!Write(s, v)
  <2>1. UNCHANGED <<SampledReg, ScanPhase, seen>>
    BY <1>1 DEF WriteSignal, MutexHeld, SampledReg, ScanPhase
  <2>2. PublishedWire = wire /\ PublishedWire' = wire'
    BY <1>1 DEF WriteSignal, MutexHeld, PublishedWire, TypeOK
  <2>3. QED
    BY <1>1, <2>1, <2>2 DEF WriteSignal, Scan!Write
<1>2. ASSUME NEW s \in Direct, NEW v \in Values, PublishDirect(s, v),
             ~(engine = "read" /\ s \in todo)
      PROVE  Scan!Write(s, v) \/ UNCHANGED Scan!scanVars
  <2> USE <1>2 DEF PublishDirect
  <2>1. UNCHANGED <<ScanPhase, seen>>
    BY DEF ScanPhase
  <2>2. UNCHANGED SampledReg
    <3>1. CASE engine = "read"
      <4>1. s \notin todo /\ s \in Wired
        BY <1>2, <3>1, SignalsAssumption
      <4>2. \A r \in todo : wire'[r] = wire[r]
        BY <3>1, <4>1, SignalsAssumption DEF TypeOK, LoopInv
      <4>3. QED
        BY <4>2 DEF SampledReg
    <3>2. CASE engine # "read"
      BY <3>2 DEF SampledReg
    <3>3. QED
      BY <3>1, <3>2
  <2>3. CASE engine = "write" /\ s \in todo
    <3>1. UNCHANGED PublishedWire
      BY <2>3 DEF PublishedWire, TypeOK
    <3>2. QED
      BY <2>1, <2>2, <3>1 DEF Scan!scanVars
  <2>4. CASE ~(engine = "write" /\ s \in todo)
    <3>1. /\ wire' = [wire EXCEPT ![s] = v] /\ UNCHANGED <<engine, todo, reg>>
          /\ DOMAIN wire = Wired /\ s \in Wired
      BY SignalsAssumption DEF TypeOK
    <3> DEFINE P(x, r) == IF engine = "write" /\ r \in todo THEN reg[r] ELSE x[r]
    <3>3. PublishedWire = [r \in Wired |-> P(wire, r)]
      BY DEF PublishedWire
    <3>4. PublishedWire' = [r \in Wired |-> P(wire', r)]
      BY <3>1 DEF PublishedWire
    <3>5. \A r \in Wired : P(wire', r) = IF r = s THEN v ELSE P(wire, r)
      BY <2>4, <3>1
    <3>6. PublishedWire' = [PublishedWire EXCEPT ![s] = v]
      <4> HIDE DEF P
      <4> QED
        BY <3>3, <3>4, <3>5
    <3>7. QED
      BY <2>1, <2>2, <3>6 DEF Scan!Write
  <2>5. QED
    BY <2>3, <2>4
<1>3. ASSUME SnapshotSignals PROVE Scan!Observe
  <2>1. UNCHANGED <<SampledReg, ScanPhase, PublishedWire>>
    BY <1>3 DEF SnapshotSignals, SampledReg, ScanPhase, PublishedWire
  <2>2. PublishedWire = wire
    BY <1>3, MappedWire DEF SnapshotSignals, MutexHeld
  <2>3. QED
    BY <1>3, <2>1, <2>2 DEF SnapshotSignals, OutputsOf, Scan!Observe
<1>4. QED
  BY <1>1, <1>2, <1>3

(* Sampling and publishing are one step each, for any program and whatever *)
(* adapters write, but for what one writes to an input while the sample is *)
(* taken.                                                                  *)
THEOREM Refinement == Spec => ImplementsAtomicScan
<1>1. Init => Scan!Init
  <2> SUFFICES ASSUME Init PROVE Scan!Init
    OBVIOUS
  <2>1. PublishedWire = [s \in Inputs \union Outputs |-> None]
    BY DEF Init, PublishedWire, Wired
  <2>2. SampledReg = [s \in Scan!Registered |-> Initial]
    BY DEF Init, SampledReg, Wired, Scan!Registered
  <2>3. ScanPhase = "sample" /\ seen = [o \in Outputs |-> None]
    BY Phases DEF Init
  <2>4. QED
    BY <2>1, <2>2, <2>3 DEF Scan!Init
<1>2. TypeOK /\ LoopInv /\ [Next]_vars => [Scan!Next]_(Scan!scanVars)
  <2> SUFFICES ASSUME TypeOK, LoopInv, [Next]_vars PROVE [Scan!Next]_(Scan!scanVars)
    OBVIOUS
  <2>1. CASE EnterRead \/ RunProgram \/ EnterWrite
    BY <2>1, BarrierSteps DEF Scan!Next
  <2>2. CASE Engine /\ ~(EnterRead \/ RunProgram \/ EnterWrite)
    BY <2>2, LoopStutters, ComputedStutters DEF Engine
  <2>3. ASSUME NEW v \in Values, NEW s \in Remote, WriteSignal(s, v) PROVE Scan!Next
    BY <2>3, OthersSteps DEF Scan!Next
  <2>4. ASSUME NEW v \in Values, NEW s \in Direct, PublishDirect(s, v)
        PROVE  [Scan!Next]_(Scan!scanVars)
    <3>1. CASE engine = "read" /\ s \in todo
      <4>1. s \in Direct \intersect Inputs
        BY <3>1 DEF LoopInv
      <4>2. Scan!WriteLate(s, v)
        BY <2>4, <3>1, LateStep
      <4> QED
        BY <4>1, <4>2 DEF Scan!Next
    <3>2. CASE ~(engine = "read" /\ s \in todo)
      BY <2>4, <3>2, OthersSteps DEF Scan!Next
    <3> QED
      BY <3>1, <3>2
  <2>5. CASE SnapshotSignals
    BY <2>5, OthersSteps DEF Scan!Next
  <2>6. ASSUME NEW k \in Computed, RegisterComputed(k) PROVE UNCHANGED Scan!scanVars
    BY <2>6, ComputedStutters
  <2>7. CASE UNCHANGED vars
    BY <2>7 DEF vars, Scan!scanVars, SampledReg, PublishedWire, ScanPhase
  <2>8. QED
    BY <2>1, <2>2, <2>3, <2>4, <2>5, <2>6, <2>7 DEF Next
<1>3. QED
  BY <1>1, <1>2, Invariance, PTL DEF Spec, ImplementsAtomicScan, Scan!Spec, IInv

=============================================================================
