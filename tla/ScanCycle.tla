----------------------------- MODULE ScanCycle -----------------------------
(***************************************************************************)
(* The data path of one cycle, steps 2 to 4 of Engine::start_with_cycle:   *)
(* read barrier, computed signals, program, write barrier.  A signal has a *)
(* value in the registry of the engine (reg) and, once published, one in   *)
(* the transport (wire).  Both barriers hold the mutex of the middleware   *)
(* over all their signals.  IPC clients read and write the wire under that *)
(* mutex; protocol adapters and SimulationHarness::set_signal hold the     *)
(* transport itself and do not take it.                                    *)
(*                                                                         *)
(* Only the cycle thread changes registry values, so what the write        *)
(* barrier publishes is what is in the registry.  The program is a         *)
(* function of the inputs; it runs with the executor locked and only its   *)
(* result is seen, so its run is one step.                                 *)
(***************************************************************************)
EXTENDS Integers

CONSTANTS
  Inputs,     \* registered Monitored signals
  Outputs,    \* registered Own signals
  Computed,   \* Computed signals that may get registered
  Values,     \* what a signal can carry
  Initial,    \* the value signals are registered with
  None,       \* no value published yet
  Program,    \* the outputs for each valuation of the inputs
  Remote,     \* the signals IPC clients write, under the mutex
  Direct      \* the signals written to the transport without the mutex

Wired == Inputs \union Outputs

ASSUME SignalsAssumption ==
  /\ Inputs \intersect Outputs = {} /\ Wired \intersect Computed = {}
  /\ Initial \in Values /\ None \notin Values
  /\ Program \in [[Inputs -> Values] -> [Outputs -> Values]]
  /\ Remote \subseteq Wired /\ Direct \subseteq Wired

VARIABLES
  wire,       \* InprocTransport.signals
  reg,        \* SignalDef.value in the registry
  computed,   \* the Computed signals registered
  readGuard,  \* the cycle thread holds signals.read()
  engine,     \* where the cycle thread is
  todo,       \* signals the current loop of the cycle has yet to visit
  store,      \* the update_value the cycle thread is about to make
  seen,       \* outputs in the last snapshot an IPC client got
  instants    \* history: input valuations of the wire during the last read barrier

vars == <<wire, reg, computed, readGuard, engine, todo, store, seen, instants>>

Nothing == <<>>
InputsOf(w) == [i \in Inputs |-> w[i]]
OutputsOf(w) == [o \in Outputs |-> w[o]]

Init ==
  /\ wire = [s \in Wired |-> None]
  /\ reg = [s \in Wired \union Computed |-> Initial]
  /\ computed = {} /\ readGuard = FALSE
  /\ engine = "boundary" /\ todo = {} /\ store = Nothing
  /\ seen = [o \in Outputs |-> None]
  /\ instants = {[i \in Inputs |-> None]}

(* Faulty variant: the read barrier locks for each signal anew. *)
MutexHeldWriting == engine = "write"

(* The cycle thread holds the mutex of the middleware. *)
MutexHeld == engine \in {"read", "write"}

-----------------------------------------------------------------------------
(* The cycle thread. *)

OthersKeep == UNCHANGED <<computed, seen>>

EnterRead ==
  /\ engine = "boundary" /\ engine' = "read"
  /\ todo' = Inputs
  /\ instants' = {InputsOf(wire)}
  /\ OthersKeep /\ UNCHANGED <<wire, reg, readGuard, store>>

(* Faulty variant: the barrier ends at a signal not published yet. *)
ReadSignalBreaks(i) ==
  /\ engine = "read" /\ store = Nothing /\ i \in todo
  /\ todo' = IF wire[i] = None THEN {} ELSE todo \ {i}
  /\ store' = IF wire[i] = None THEN Nothing ELSE <<i, wire[i]>>
  /\ OthersKeep /\ UNCHANGED <<wire, reg, readGuard, engine, instants>>

(* Faulty variant: the barrier waits for a first value. *)
ReadSignalWaits(i) ==
  /\ engine = "read" /\ store = Nothing /\ i \in todo
  /\ wire[i] # None
  /\ todo' = todo \ {i}
  /\ store' = <<i, wire[i]>>
  /\ OthersKeep /\ UNCHANGED <<wire, reg, readGuard, engine, instants>>

ReadSignal(i) ==
  /\ engine = "read" /\ store = Nothing /\ i \in todo
  /\ todo' = todo \ {i}
  /\ store' = IF wire[i] = None THEN Nothing ELSE <<i, wire[i]>>
  /\ OthersKeep /\ UNCHANGED <<wire, reg, readGuard, engine, instants>>

(* signals.write().update_value(..), in the barrier and in the compute     *)
(* phase: it waits until nobody, this thread included, holds a read guard. *)
UpdateValue ==
  /\ store # Nothing /\ ~readGuard
  /\ reg' = [reg EXCEPT ![store[1]] = store[2]]
  /\ store' = Nothing
  /\ OthersKeep /\ UNCHANGED <<wire, readGuard, engine, todo, instants>>

LeaveRead ==
  /\ engine = "read" /\ store = Nothing /\ todo = {}
  /\ engine' = "compute"
  /\ todo' = computed
  /\ OthersKeep /\ UNCHANGED <<wire, reg, readGuard, store, instants>>

(* `if let Ok(value) = signals.read().unwrap().compute_signal(&name) {..}`: *)
(* the guard is a temporary of the condition and lives to the end of the   *)
(* block, in which update_value wants the write lock.                      *)
ComputeSignal(k, v) ==
  /\ engine = "compute" /\ store = Nothing /\ k \in todo
  /\ todo' = todo \ {k}
  /\ readGuard' = TRUE
  /\ store' = <<k, v>>
  /\ OthersKeep /\ UNCHANGED <<wire, reg, engine, instants>>

(* Faulty variant: the program sees the wire, not the sample. *)
RunProgramOnWire ==
  /\ engine = "compute" /\ store = Nothing /\ todo = {}
  /\ engine' = "publish"
  /\ reg' = [s \in DOMAIN reg |->
       IF s \in Outputs
       THEN Program[[i \in Inputs |-> IF wire[i] = None THEN reg[i] ELSE wire[i]]][s]
       ELSE reg[s]]
  /\ OthersKeep /\ UNCHANGED <<wire, readGuard, todo, store, instants>>

(* Registry values into the VM, run to halt, VM values back. *)
RunProgram ==
  /\ engine = "compute" /\ store = Nothing /\ todo = {}
  /\ engine' = "publish"
  /\ reg' = [s \in DOMAIN reg |-> IF s \in Outputs THEN Program[InputsOf(reg)][s] ELSE reg[s]]
  /\ OthersKeep /\ UNCHANGED <<wire, readGuard, todo, store, instants>>

EnterWrite ==
  /\ engine = "publish" /\ engine' = "write"
  /\ todo' = Outputs
  /\ OthersKeep /\ UNCHANGED <<wire, reg, readGuard, store, instants>>

PublishSignal(o) ==
  /\ engine = "write" /\ o \in todo
  /\ todo' = todo \ {o}
  /\ wire' = [wire EXCEPT ![o] = reg[o]]
  /\ OthersKeep /\ UNCHANGED <<reg, readGuard, engine, store, instants>>

LeaveWrite ==
  /\ engine = "write" /\ todo = {}
  /\ engine' = "boundary"
  /\ OthersKeep /\ UNCHANGED <<wire, reg, readGuard, todo, store, instants>>

Engine ==
  \/ EnterRead \/ (\E i \in Inputs : ReadSignal(i)) \/ UpdateValue \/ LeaveRead
  \/ (\E k \in Computed, v \in Values : ComputeSignal(k, v)) \/ RunProgram
  \/ EnterWrite \/ (\E o \in Outputs : PublishSignal(o)) \/ LeaveWrite

-----------------------------------------------------------------------------
(* The other threads. *)

(* WRITE_SIGNAL: one publish under the mutex, whoever owns the signal. *)
WriteSignal(s, v) ==
  /\ ~MutexHeld
  /\ wire' = [wire EXCEPT ![s] = v]
  /\ instants' = IF engine = "read" THEN instants \union {InputsOf(wire')} ELSE instants
  /\ UNCHANGED <<reg, computed, readGuard, engine, todo, store, seen>>

(* SIGNAL_SNAPSHOT: all signals under the mutex. *)
SnapshotSignals ==
  /\ ~MutexHeld
  /\ seen' = OutputsOf(wire)
  /\ UNCHANGED <<wire, reg, computed, readGuard, engine, todo, store, instants>>

(* publish_signal on the shared transport itself. *)
PublishDirect(s, v) ==
  /\ wire' = [wire EXCEPT ![s] = v]
  /\ instants' = IF engine = "read" THEN instants \union {InputsOf(wire')} ELSE instants
  /\ UNCHANGED <<reg, computed, readGuard, engine, todo, store, seen>>

(* Engine::register_signal for a Computed signal. *)
RegisterComputed(k) ==
  /\ k \notin computed /\ ~readGuard
  /\ computed' = computed \union {k}
  /\ UNCHANGED <<wire, reg, readGuard, engine, todo, store, seen, instants>>

Next ==
  \/ Engine
  \/ \E v \in Values :
       \/ \E s \in Remote : WriteSignal(s, v)
       \/ \E s \in Direct : PublishDirect(s, v)
  \/ SnapshotSignals
  \/ \E k \in Computed : RegisterComputed(k)

Spec == Init /\ [][Next]_vars

(* The cycle thread is scheduled; nobody is obliged to write or to read.   *)
FairSpec == Spec /\ WF_vars(Engine)

-----------------------------------------------------------------------------
TypeOK ==
  /\ wire \in [Wired -> Values \union {None}]
  /\ reg \in [Wired \union Computed -> Values]
  /\ computed \subseteq Computed
  /\ readGuard \in BOOLEAN
  /\ engine \in {"boundary", "read", "compute", "publish", "write"}
  /\ todo \subseteq Wired \union Computed
  /\ store = Nothing \/ store \in (Inputs \union Computed) \X Values
  /\ seen \in [Outputs -> Values \union {None}]
  /\ instants \subseteq [Inputs -> Values \union {None}]
  /\ engine \in {"boundary", "publish"} => todo = {} /\ store = Nothing

(* What a cycle computes on is one moment of the wire: the sampled inputs  *)
(* stood there together at some instant of the read barrier ("freeze all   *)
(* subscribed signals"), except those that adapters write past the mutex,  *)
(* of which InputsFresh speaks one by one.                                 *)
Sampled(f) == \A i \in Inputs \ Direct : f[i] \in {None, reg[i]}
InputsOfOneInstant == engine # "read" => \E f \in instants : Sampled(f)

(* Each sampled input by itself stood on the wire during the barrier, also *)
(* when adapters write past the mutex: none is missed, none is older.      *)
InputsFresh ==
  engine # "read" => \A i \in Inputs : \E f \in instants : f[i] \in {None, reg[i]}

(* Two loops of single signals look like two steps, to the program and to  *)
(* every client: the sample counts as taken when the read barrier locks,   *)
(* the outputs as published when the write barrier does.  Only adapters    *)
(* come in between: what one writes to an input the barrier has yet to     *)
(* read is a late change of the sample.                                    *)
SampledReg ==
  [s \in DOMAIN reg |->
     IF engine # "read" THEN reg[s]
     ELSE IF s \in todo /\ wire[s] # None THEN wire[s]
     ELSE IF store # Nothing /\ store[1] = s THEN store[2]
     ELSE reg[s]]
PublishedWire ==
  [s \in Wired |-> IF engine = "write" /\ s \in todo THEN reg[s] ELSE wire[s]]
ScanPhase ==
  CASE engine \in {"boundary", "write"} -> "sample"
    [] engine \in {"read", "compute"} -> "run"
    [] engine = "publish" -> "publish"
Scan == INSTANCE AtomicScan WITH
  Others <- Computed,
  wire <- PublishedWire,
  reg <- SampledReg,
  phase <- ScanPhase
ImplementsAtomicScan == Scan!Spec

(* The cycle thread comes round again and again unless a Computed signal   *)
(* has been registered.                                                    *)
CyclesWithoutComputed == []<>(engine = "boundary" \/ computed # {})

(* "COMPUTE PHASE - execute Computed signal functions": the cycle thread   *)
(* comes round again with such signals too.                                *)
CyclesComplete == []<>(engine = "boundary")

(* scan-barrier-design: all outputs of a cycle are published to            *)
(* subscribers at once, who never see half of a cycle.  A subscriber's     *)
(* callback runs inside publish_signal, so what it has been told is what   *)
(* is on the wire.                                                         *)
OutputsWhole ==
  [][OutputsOf(wire') # OutputsOf(wire) =>
       \E f \in [Inputs -> Values] : OutputsOf(wire') = Program[f]]_vars

=============================================================================
