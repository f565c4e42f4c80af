-------------------------- MODULE HotSwap_proofs --------------------------
(***************************************************************************)
(* Proofs about the program interface of the engine, for any sets of       *)
(* connection threads and programs.                                        *)
(***************************************************************************)
EXTENDS HotSwap, TLAPS

(* The thread that holds a version between two of its steps: the boundary  *)
(* with `taken`, a load with arg[c].                                       *)
Loading(c) == client[c] \in {"program", "executor"}

(* Where the cycle thread is says what it holds, and what it has taken     *)
(* leaves the slot empty until it lets go of the slot.                     *)
TakenInv ==
  /\ taken # None <=> engine \in {"register", "program", "executor"}
  /\ SlotHeld => pending = None

ArgInv ==
  \A c \in Clients : client[c] \in {"committing", "program", "executor"} => arg[c] # None

(* Outputs are registered before a version can reach the executor. *)
RegisteredInv ==
  /\ engine \in {"program", "executor"} => taken \in registered
  /\ \A c \in Clients : Loading(c) => arg[c] \in registered
  /\ OutputsRegistered

(* A version on its way to the executor is held in one place only, and was *)
(* never installed nor discarded.                                          *)
Fresh(v) == v \in submitted /\ v \notin installed /\ v \notin discarded

FreshInv ==
  /\ pending # None => Fresh(pending)
  /\ taken # None => Fresh(taken)
  /\ \A c \in Clients : Loading(c) =>
        Fresh(arg[c]) /\ arg[c] # pending /\ arg[c] # taken
  /\ \A c, d \in Clients : Loading(c) /\ Loading(d) /\ c # d => arg[c] # arg[d]
  /\ installed \subseteq submitted /\ discarded \subseteq submitted

IInv == TypeOK /\ TakenInv /\ ArgInv /\ RegisteredInv /\ FreshInv

(* Each part of the invariant holds initially. *)
LEMMA InitIInv == Init => IInv
  BY ProgramsAssumption
  DEF Init, IInv, TypeOK, TakenInv, ArgInv, RegisteredInv, FreshInv, Fresh, Loading,
      OutputsRegistered, SlotHeld, Slot, EnginePc, ClientPc

(* Typing is kept by every step: what a call stores is well formed, and    *)
(* what an argument holds is what the slot or the caller provided.         *)
LEMMA TypeStep == IInv /\ [Next]_vars => TypeOK'
<1> SUFFICES ASSUME IInv, [Next]_vars PROVE TypeOK'
  OBVIOUS
<1> USE ProgramsAssumption DEF IInv, TypeOK, TakenInv, ArgInv, Slot, EnginePc, ClientPc
<1>1. CASE Engine
  <2>1. CASE ReadFlag \/ TakePending
    BY <2>1 DEF EngineGoes, ReadFlag, TakePending, swap
  <2>2. CASE RegisterOutputs \/ StoreProgram
    BY <2>2 DEF EngineGoes, RegisterOutputs, StoreProgram, swap
  <2>3. CASE StoreExecutor \/ ClearFlag \/ RunCycle
    BY <2>3 DEF EngineGoes, StoreExecutor, ClearFlag, RunCycle, swap
  <2>4. QED
    BY <1>1, <2>1, <2>2, <2>3 DEF Engine
<1>2. ASSUME NEW c \in Clients, NEW v \in Versions,
             RejectProgram(c, v) \/ PrepareSwap(c, v) \/ LoadRegisters(c, v)
      PROVE TypeOK'
  BY <1>2 DEF RejectProgram, PrepareSwap, LoadRegisters, ClientGoes, InSlot, swap, history
<1>3. ASSUME NEW c \in Clients, CommitReads(c) \/ RollbackSlot(c) PROVE TypeOK'
  BY <1>3 DEF CommitReads, RollbackSlot, ClientGoes, InSlot, swap, history
<1>4. ASSUME NEW c \in Clients, Return(c) PROVE TypeOK'
  BY <1>4 DEF Return, CommitFlags, RollbackFlag, LoadStoresProgram, LoadStoresExecutor,
     ClientGoes, swap, history
<1>5. CASE UNCHANGED vars
  BY <1>5 DEF vars, swap, history
<1>6. QED
  BY <1>1, <1>2, <1>3, <1>4, <1>5 DEF Next, Call

(* The guard of the slot, held from take() to the clearing of the flag,    *)
(* keeps every caller's store out while a taken program is installed.      *)
LEMMA TakenStep == IInv /\ [Next]_vars => (TakenInv /\ ArgInv)'
<1> SUFFICES ASSUME IInv, [Next]_vars PROVE (TakenInv /\ ArgInv)'
  OBVIOUS
<1> USE ProgramsAssumption DEF IInv, TypeOK, Slot, TakenInv, ArgInv, SlotHeld
<1>1. CASE Engine
  BY <1>1 DEF Engine, EngineGoes, ReadFlag, TakePending, RegisterOutputs, StoreProgram,
     StoreExecutor, ClearFlag, RunCycle, swap
<1>2. ASSUME NEW c \in Clients, NEW v \in Versions, RejectProgram(c, v)
      PROVE (TakenInv /\ ArgInv)'
  BY <1>2 DEF RejectProgram, ClientGoes, swap
<1>3. ASSUME NEW c \in Clients, NEW v \in Versions, PrepareSwap(c, v)
      PROVE (TakenInv /\ ArgInv)'
  BY <1>3 DEF PrepareSwap, ClientGoes, InSlot
<1>4. ASSUME NEW c \in Clients, NEW v \in Versions, LoadRegisters(c, v)
      PROVE (TakenInv /\ ArgInv)'
  BY <1>4 DEF LoadRegisters, ClientGoes
<1>5. ASSUME NEW c \in Clients, CommitReads(c) PROVE (TakenInv /\ ArgInv)'
  BY <1>5 DEF CommitReads, ClientGoes, swap, history
<1>6. ASSUME NEW c \in Clients, RollbackSlot(c) PROVE (TakenInv /\ ArgInv)'
  BY <1>6 DEF RollbackSlot, ClientGoes, InSlot
<1>7. ASSUME NEW c \in Clients, CommitFlags(c) \/ RollbackFlag(c) PROVE (TakenInv /\ ArgInv)'
  BY <1>7 DEF CommitFlags, RollbackFlag, ClientGoes, history
<1>8. ASSUME NEW c \in Clients, LoadStoresProgram(c) PROVE (TakenInv /\ ArgInv)'
  BY <1>8 DEF LoadStoresProgram, ClientGoes, history
<1>9. ASSUME NEW c \in Clients, LoadStoresExecutor(c) PROVE (TakenInv /\ ArgInv)'
  BY <1>9 DEF LoadStoresExecutor, ClientGoes
<1>10. CASE UNCHANGED vars
  BY <1>10 DEF vars, swap, history
<1>11. QED
  BY <1>1, <1>2, <1>3, <1>4, <1>5, <1>6, <1>7, <1>8, <1>9, <1>10 DEF Next, Call, Return

(* Both installers register outputs before they store an executor, and     *)
(* nothing unregisters a signal.                                           *)
LEMMA RegisteredStep == IInv /\ [Next]_vars => RegisteredInv'
<1> SUFFICES ASSUME IInv, [Next]_vars PROVE RegisteredInv'
  OBVIOUS
<1> USE ProgramsAssumption DEF IInv, TypeOK, Slot, TakenInv, ArgInv, SlotHeld, RegisteredInv, OutputsRegistered, Loading
<1>1. CASE Engine
  BY <1>1 DEF Engine, EngineGoes, ReadFlag, TakePending, RegisterOutputs, StoreProgram,
     StoreExecutor, ClearFlag, RunCycle, swap
<1>2. ASSUME NEW c \in Clients, NEW v \in Versions, RejectProgram(c, v)
      PROVE RegisteredInv'
  BY <1>2 DEF RejectProgram, ClientGoes, swap
<1>3. ASSUME NEW c \in Clients, NEW v \in Versions, PrepareSwap(c, v)
      PROVE RegisteredInv'
  BY <1>3 DEF PrepareSwap, ClientGoes, InSlot
<1>4. ASSUME NEW c \in Clients, NEW v \in Versions, LoadRegisters(c, v)
      PROVE RegisteredInv'
  BY <1>4 DEF LoadRegisters, ClientGoes
<1>5. ASSUME NEW c \in Clients, CommitReads(c) PROVE RegisteredInv'
  BY <1>5 DEF CommitReads, ClientGoes, swap, history
<1>6. ASSUME NEW c \in Clients, RollbackSlot(c) PROVE RegisteredInv'
  BY <1>6 DEF RollbackSlot, ClientGoes, InSlot
<1>7. ASSUME NEW c \in Clients, CommitFlags(c) \/ RollbackFlag(c) PROVE RegisteredInv'
  BY <1>7 DEF CommitFlags, RollbackFlag, ClientGoes, history
<1>8. ASSUME NEW c \in Clients, LoadStoresProgram(c) PROVE RegisteredInv'
  BY <1>8 DEF LoadStoresProgram, ClientGoes, history
<1>9. ASSUME NEW c \in Clients, LoadStoresExecutor(c) PROVE RegisteredInv'
  BY <1>9 DEF LoadStoresExecutor, ClientGoes
<1>10. CASE UNCHANGED vars
  BY <1>10 DEF vars, swap, history
<1>11. QED
  BY <1>1, <1>2, <1>3, <1>4, <1>5, <1>6, <1>7, <1>8, <1>9, <1>10 DEF Next, Call, Return

(* A submission is fresh once, and each step that hands it on lets go of   *)
(* it where it was.                                                        *)
LEMMA FreshStep == IInv /\ [Next]_vars => FreshInv'
<1> SUFFICES ASSUME IInv, [Next]_vars PROVE FreshInv'
  OBVIOUS
<1> USE ProgramsAssumption DEF IInv, TypeOK, Slot, TakenInv, ArgInv, SlotHeld, FreshInv, Fresh, Loading
<1>1. CASE Engine
  BY <1>1 DEF Engine, EngineGoes, ReadFlag, TakePending, RegisterOutputs, StoreProgram,
     StoreExecutor, ClearFlag, RunCycle, swap
<1>2. ASSUME NEW c \in Clients, NEW v \in Versions, RejectProgram(c, v)
      PROVE FreshInv'
  BY <1>2 DEF RejectProgram, ClientGoes, swap
<1>3. ASSUME NEW c \in Clients, NEW v \in Versions, PrepareSwap(c, v)
      PROVE FreshInv'
  BY <1>3 DEF PrepareSwap, ClientGoes, InSlot
<1>4. ASSUME NEW c \in Clients, NEW v \in Versions, LoadRegisters(c, v)
      PROVE FreshInv'
  BY <1>4 DEF LoadRegisters, ClientGoes
<1>5. ASSUME NEW c \in Clients, CommitReads(c) PROVE FreshInv'
  BY <1>5 DEF CommitReads, ClientGoes, swap, history
<1>6. ASSUME NEW c \in Clients, RollbackSlot(c) PROVE FreshInv'
  BY <1>6 DEF RollbackSlot, ClientGoes, InSlot
<1>7. ASSUME NEW c \in Clients, CommitFlags(c) \/ RollbackFlag(c) PROVE FreshInv'
  BY <1>7 DEF CommitFlags, RollbackFlag, ClientGoes, history
<1>8. ASSUME NEW c \in Clients, LoadStoresProgram(c) PROVE FreshInv'
  BY <1>8 DEF LoadStoresProgram, ClientGoes, history
<1>9. ASSUME NEW c \in Clients, LoadStoresExecutor(c) PROVE FreshInv'
  BY <1>9 DEF LoadStoresExecutor, ClientGoes
<1>10. CASE UNCHANGED vars
  BY <1>10 DEF vars, swap, history
<1>11. QED
  BY <1>1, <1>2, <1>3, <1>4, <1>5, <1>6, <1>7, <1>8, <1>9, <1>10 DEF Next, Call, Return

(* IInv is inductive, so it holds in every reachable state. *)
LEMMA Invariance == Spec => []IInv
<1>1. IInv /\ [Next]_vars => IInv'
  BY TypeStep, TakenStep, RegisteredStep, FreshStep DEF IInv
<1>2. QED
  BY <1>1, InitIInv, PTL DEF Spec

(* Every variable keeps its type; in particular only well-formed programs  *)
(* are ever pending, taken or executed.                                    *)
THEOREM HotSwapTypeCorrect == Spec => []TypeOK
<1>1. IInv => TypeOK
  BY DEF IInv
<1>2. QED
  BY <1>1, Invariance, PTL

(* Whatever the interleaving of loads, commits and the boundary, a program *)
(* runs only with its output signals registered.                           *)
THEOREM OutputsAreRegistered == Spec => []OutputsRegistered
<1>1. IInv => OutputsRegistered
  BY DEF IInv, RegisteredInv
<1>2. QED
  BY <1>1, Invariance, PTL

(* The only steps that change the executor. *)
LEMMA ExecutorChanges ==
  ASSUME IInv, [Next]_vars, executor' # executor
  PROVE  StoreExecutor \/ \E c \in Clients : LoadStoresExecutor(c)
<1>1. CASE Engine
  BY <1>1 DEF Engine, ReadFlag, TakePending, RegisterOutputs, StoreProgram,
     ClearFlag, RunCycle, swap
<1>2. ASSUME NEW c \in Clients, Call(c) PROVE LoadStoresExecutor(c)
  BY <1>2 DEF Call, Return, RejectProgram, PrepareSwap, LoadRegisters, CommitReads,
     RollbackSlot, CommitFlags, RollbackFlag, LoadStoresProgram, swap
<1>3. QED
  BY <1>1, <1>2 DEF Next, vars, swap

(* take() and the guard of the slot make a prepared program a one-time     *)
(* ticket: it is never the executor a second time.                         *)
THEOREM NoReinstall == Spec => NeverReinstalled
<1>1. IInv /\ [Next]_vars => [executor' # executor => executor' \notin installed]_vars
  BY ExecutorChanges
  DEF IInv, TypeOK, TakenInv, ArgInv, FreshInv, Fresh, Loading, StoreExecutor, LoadStoresExecutor,
      EngineGoes, ClientGoes
<1>2. QED
  BY <1>1, Invariance, PTL DEF Spec, NeverReinstalled

(* A rollback or a superseding prepare is final, also when it falls        *)
(* between the boundary's look at the flag and its take().                 *)
THEOREM NoDiscardedInstall == Spec => DiscardedNeverInstalled
<1>1. IInv /\ [Next]_vars => [executor' # executor => executor' \notin discarded]_vars
  BY ExecutorChanges
  DEF IInv, TypeOK, TakenInv, ArgInv, FreshInv, Fresh, Loading, StoreExecutor, LoadStoresExecutor,
      EngineGoes, ClientGoes
<1>2. QED
  BY <1>1, Invariance, PTL DEF Spec, DiscardedNeverInstalled

(* The boundary clears the commit flag with the slot locked and empty, so  *)
(* no commit answered Ok for a later program is withdrawn with it.         *)
THEOREM CommitsKept == Spec => BoundaryKeepsCommits
<1>1. ASSUME IInv, [Next]_vars, engine' # engine, pending \in acked, committed
      PROVE  committed'
  <2>1. CASE ClearFlag
    BY <1>1, <2>1, ProgramsAssumption
    DEF ClearFlag, EngineGoes, IInv, TypeOK, TakenInv, SlotHeld
  <2>2. CASE Engine /\ ~ClearFlag
    BY <1>1, <2>2 DEF Engine, ReadFlag, TakePending, RegisterOutputs, StoreProgram,
       StoreExecutor, RunCycle, swap
  <2>3. ASSUME NEW c \in Clients, Call(c) PROVE FALSE
    BY <1>1, <2>3 DEF Call, Return, RejectProgram, PrepareSwap, LoadRegisters, CommitReads,
       RollbackSlot, CommitFlags, RollbackFlag, LoadStoresProgram, LoadStoresExecutor,
       ClientGoes
  <2>4. QED
    BY <1>1, <2>1, <2>2, <2>3 DEF Next, vars
<1>2. IInv /\ [Next]_vars => [engine' # engine /\ pending \in acked /\ committed => committed']_vars
  BY <1>1
<1>3. QED
  BY <1>2, Invariance, PTL DEF Spec, BoundaryKeepsCommits

(* The locks and the flag implement the one-step slot: each step of a call *)
(* or of the boundary is one abstract step or none.                        *)
THEOREM Refinement == Spec => ImplementsSlot
<1> DEFINE slotNow == IF taken = None THEN pending ELSE taken
<1> USE DEF Abstract!Next, Abstract!Prepare, Abstract!Discard, Abstract!Move, Abstract!Load,
            Abstract!slotVars
<1>1. Init => Abstract!Init
  BY DEF Init, Abstract!Init
<1>2. IInv /\ [Next]_vars => [Abstract!Next]_(Abstract!slotVars)
  <2> SUFFICES ASSUME IInv, [Next]_vars PROVE [Abstract!Next]_(Abstract!slotVars)
    OBVIOUS
  <2> USE ProgramsAssumption DEF IInv, TypeOK, Slot, TakenInv, ArgInv, SlotHeld
  <2>1. CASE StoreExecutor
    <3>1. Abstract!Move
      BY <2>1 DEF StoreExecutor, EngineGoes
    <3>2. QED
      BY <3>1
  <2>2. CASE Engine /\ ~StoreExecutor
    <3>1. UNCHANGED <<slotNow, executor>>
      BY <2>2 DEF Engine, EngineGoes, ReadFlag, TakePending, RegisterOutputs, StoreProgram,
         ClearFlag, RunCycle, swap
    <3>2. QED
      BY <3>1
  <2>3. ASSUME NEW c \in Clients, NEW v \in Versions, PrepareSwap(c, v)
        PROVE Abstract!Next
    <3>1. v \in WellFormed /\ Abstract!Prepare(v)
      BY <2>3 DEF PrepareSwap, ClientGoes
    <3>2. QED
      BY <3>1
  <2>4. ASSUME NEW c \in Clients, RollbackSlot(c) PROVE Abstract!Next
    <3>1. Abstract!Discard
      BY <2>4 DEF RollbackSlot, ClientGoes
    <3>2. QED
      BY <3>1
  <2>5. ASSUME NEW c \in Clients, LoadStoresExecutor(c) PROVE Abstract!Next
    <3>1. arg[c] \in WellFormed /\ Abstract!Load(arg[c])
      BY <2>5 DEF LoadStoresExecutor, ClientGoes
    <3>2. QED
      BY <3>1
  <2>6. ASSUME NEW c \in Clients, NEW v \in Versions, RejectProgram(c, v) \/ LoadRegisters(c, v)
        PROVE UNCHANGED <<slotNow, executor>>
    BY <2>6 DEF RejectProgram, LoadRegisters, ClientGoes, swap
  <2>7. ASSUME NEW c \in Clients,
               CommitReads(c) \/ CommitFlags(c) \/ RollbackFlag(c) \/ LoadStoresProgram(c)
        PROVE UNCHANGED <<slotNow, executor>>
    BY <2>7 DEF CommitReads, CommitFlags, RollbackFlag, LoadStoresProgram, ClientGoes, swap
  <2>8. CASE UNCHANGED vars
    BY <2>8 DEF vars, swap
  <2>9. QED
    BY <2>1, <2>2, <2>3, <2>4, <2>5, <2>6, <2>7, <2>8 DEF Next, Call, Return
<1>3. QED
  BY <1>1, <1>2, Invariance, PTL DEF Spec, ImplementsSlot, Abstract!Spec

=============================================================================
