------------------------------ MODULE HotSwap ------------------------------
(***************************************************************************)
(* The programs of the engine: prepare_swap, commit_swap, rollback_swap    *)
(* and load_hal_program, called by IPC connection threads, against step    *)
(* 1.5 of the cycle ("Check for committed hot-swap") and the execution of  *)
(* the program.  Each lock acquisition and each SeqCst access is one step. *)
(* The boundary keeps the write guard of pending_swap from take() until    *)
(* it has cleared swap_committed, which is all that keeps callers out.     *)
(*                                                                         *)
(* A program is one submission of bytes: two submissions of the same bytes *)
(* are two versions.  The engine is assumed neither paused nor stopped     *)
(* (EngineControl), so that boundaries keep coming.                        *)
(***************************************************************************)
CONSTANTS
  Clients,      \* the IPC connection threads
  Versions,     \* submitted programs
  WellFormed,   \* those that deserialize and are well formed
  None          \* no program

ASSUME ProgramsAssumption == WellFormed \subseteq Versions /\ None \notin Versions

VARIABLES
  pending,      \* Engine.pending_swap
  committed,    \* Engine.swap_committed
  program,      \* Engine.hal_program
  executor,     \* Engine.hal_executor, as the version it was built from
  registered,   \* versions whose output bindings are registered signals
  engine,       \* where the cycle thread is
  taken,        \* the cycle thread's local `program`
  client,       \* where client[c] is in a call
  arg,          \* arg[c]: the version the call of c is about
  submitted,    \* history: versions handed to prepare_swap or load
  installed,    \* history: versions that have been the executor
  discarded,    \* history: versions rolled back or superseded in the slot
  acked         \* history: versions commit_swap has returned Ok for

swap == <<pending, committed, program, executor, registered>>
history == <<submitted, installed, discarded, acked>>
vars == <<swap, engine, taken, client, arg, history>>

Slot == WellFormed \union {None}

EnginePc == {"boundary", "take", "register", "program", "executor", "unflag", "cycle"}
ClientPc == {"idle", "committing", "rollingback", "program", "executor"}

(* Faulty variant: the guard is dropped before the flag is cleared. *)
SlotHeldShort == engine \in {"register", "program", "executor"}

(* Faulty variant: take() under a guard of its own. *)
SlotNotHeld == FALSE

(* The cycle thread holds pending_swap.write(). *)
SlotHeld == engine \in {"register", "program", "executor", "unflag"}

Init ==
  /\ pending = None /\ committed = FALSE
  /\ program = None /\ executor = None
  /\ registered = {}
  /\ engine = "boundary" /\ taken = None
  /\ client = [c \in Clients |-> "idle"]
  /\ arg = [c \in Clients |-> None]
  /\ submitted = {} /\ installed = {} /\ discarded = {} /\ acked = {}

-----------------------------------------------------------------------------
(* The cycle thread: step 1.5 of the boundary, then the rest of the cycle. *)

EngineGoes(from, to) ==
  /\ engine = from /\ engine' = to
  /\ UNCHANGED <<client, arg, submitted, discarded, acked>>

ReadFlag ==
  /\ EngineGoes("boundary", IF committed THEN "take" ELSE "cycle")
  /\ UNCHANGED <<swap, taken, installed>>

(* Faulty variant: clone() where the code has take(). *)
TakePendingClones ==
  /\ EngineGoes("take", IF pending = None THEN "unflag" ELSE "register")
  /\ taken' = pending
  /\ UNCHANGED <<pending, committed, program, executor, registered, installed>>

TakePending ==
  /\ EngineGoes("take", IF pending = None THEN "unflag" ELSE "register")
  /\ taken' = pending
  /\ pending' = None
  /\ UNCHANGED <<committed, program, executor, registered, installed>>

RegisterOutputs ==
  /\ EngineGoes("register", "program")
  /\ registered' = registered \union {taken}
  /\ UNCHANGED <<pending, committed, program, executor, taken, installed>>

StoreProgram ==
  /\ EngineGoes("program", "executor")
  /\ program' = taken
  /\ UNCHANGED <<pending, committed, executor, registered, taken, installed>>

StoreExecutor ==
  /\ EngineGoes("executor", "unflag")
  /\ executor' = taken
  /\ installed' = installed \union {taken}
  /\ taken' = None
  /\ UNCHANGED <<pending, committed, program, registered>>

ClearFlag ==
  /\ EngineGoes("unflag", "cycle")
  /\ committed' = FALSE
  /\ UNCHANGED <<pending, program, executor, registered, taken, installed>>

(* Barriers, compute and the run of the executor under its write lock. *)
RunCycle ==
  /\ EngineGoes("cycle", "boundary")
  /\ UNCHANGED <<swap, taken, installed>>

Engine ==
  \/ ReadFlag \/ TakePending \/ RegisterOutputs \/ StoreProgram
  \/ StoreExecutor \/ ClearFlag \/ RunCycle

-----------------------------------------------------------------------------
(* The calls. *)

ClientGoes(c, from, to) ==
  /\ client[c] = from
  /\ client' = [client EXCEPT ![c] = to]
  /\ UNCHANGED <<engine, taken>>

InSlot == {pending} \ {None}

(* A program that fails to deserialize or to validate changes nothing. *)
RejectProgram(c, v) ==
  /\ ClientGoes(c, "idle", "idle")
  /\ v \notin submitted /\ v \notin WellFormed
  /\ submitted' = submitted \union {v}
  /\ UNCHANGED <<swap, arg, installed, discarded, acked>>

(* Faulty variant: the program is stored without validation. *)
PrepareSwapUnchecked(c, v) ==
  /\ ClientGoes(c, "idle", "idle")
  /\ v \notin submitted
  /\ ~SlotHeld
  /\ pending' = v
  /\ submitted' = submitted \union {v}
  /\ discarded' = discarded \union InSlot
  /\ UNCHANGED <<committed, program, executor, registered, arg, installed, acked>>

PrepareSwap(c, v) ==
  /\ ClientGoes(c, "idle", "idle")
  /\ v \notin submitted /\ v \in WellFormed
  /\ ~SlotHeld
  /\ pending' = v
  /\ submitted' = submitted \union {v}
  /\ discarded' = discarded \union InSlot
  /\ UNCHANGED <<committed, program, executor, registered, arg, installed, acked>>

(* commit_swap reads the slot, lets its lock go, then sets the flag. *)
CommitReads(c) ==
  /\ ClientGoes(c, "idle", "committing")
  /\ ~SlotHeld /\ pending # None
  /\ arg' = [arg EXCEPT ![c] = pending]
  /\ UNCHANGED <<swap, history>>

CommitFlags(c) ==
  /\ ClientGoes(c, "committing", "idle")
  /\ committed' = TRUE
  /\ acked' = acked \union {arg[c]}
  /\ arg' = [arg EXCEPT ![c] = None]
  /\ UNCHANGED <<pending, program, executor, registered, submitted, installed, discarded>>

(* Faulty variant: rollback only withdraws the commit flag. *)
RollbackSlotKeeps(c) ==
  /\ ClientGoes(c, "idle", "rollingback")
  /\ ~SlotHeld
  /\ discarded' = discarded \union InSlot
  /\ UNCHANGED <<swap, arg, submitted, installed, acked>>

(* rollback_swap empties the slot, lets its lock go, then clears the flag. *)
RollbackSlot(c) ==
  /\ ClientGoes(c, "idle", "rollingback")
  /\ ~SlotHeld
  /\ pending' = None
  /\ discarded' = discarded \union InSlot
  /\ UNCHANGED <<committed, program, executor, registered, arg, submitted, installed, acked>>

RollbackFlag(c) ==
  /\ ClientGoes(c, "rollingback", "idle")
  /\ committed' = FALSE
  /\ UNCHANGED <<pending, program, executor, registered, arg, history>>

(* Faulty variant: a loaded program's outputs are not registered. *)
LoadRegistersNothing(c, v) ==
  /\ ClientGoes(c, "idle", "program")
  /\ v \notin submitted /\ v \in WellFormed
  /\ arg' = [arg EXCEPT ![c] = v]
  /\ submitted' = submitted \union {v}
  /\ UNCHANGED <<swap, installed, discarded, acked>>

(* load_hal_program: register, store the program, store the executor. *)
LoadRegisters(c, v) ==
  /\ ClientGoes(c, "idle", "program")
  /\ v \notin submitted /\ v \in WellFormed
  /\ registered' = registered \union {v}
  /\ arg' = [arg EXCEPT ![c] = v]
  /\ submitted' = submitted \union {v}
  /\ UNCHANGED <<pending, committed, program, executor, installed, discarded, acked>>

LoadStoresProgram(c) ==
  /\ ClientGoes(c, "program", "executor")
  /\ program' = arg[c]
  /\ UNCHANGED <<pending, committed, executor, registered, arg, history>>

LoadStoresExecutor(c) ==
  /\ ClientGoes(c, "executor", "idle")
  /\ executor' = arg[c]
  /\ installed' = installed \union {arg[c]}
  /\ arg' = [arg EXCEPT ![c] = None]
  /\ UNCHANGED <<pending, committed, program, registered, submitted, discarded, acked>>

Return(c) ==
  \/ CommitFlags(c) \/ RollbackFlag(c)
  \/ LoadStoresProgram(c) \/ LoadStoresExecutor(c)

Call(c) ==
  \/ \E v \in Versions : RejectProgram(c, v) \/ PrepareSwap(c, v) \/ LoadRegisters(c, v)
  \/ CommitReads(c) \/ RollbackSlot(c)
  \/ Return(c)

Next == Engine \/ \E c \in Clients : Call(c)

Spec == Init /\ [][Next]_vars

(* The cycle thread is never held here, and a call that has begun returns. *)
Fairness == WF_vars(Engine) /\ \A c \in Clients : WF_vars(Return(c))

FairSpec == Spec /\ Fairness

-----------------------------------------------------------------------------
TypeOK ==
  /\ pending \in Slot /\ program \in Slot /\ executor \in Slot /\ taken \in Slot
  /\ committed \in BOOLEAN
  /\ registered \subseteq WellFormed
  /\ engine \in EnginePc
  /\ client \in [Clients -> ClientPc]
  /\ arg \in [Clients -> Slot]
  /\ submitted \subseteq Versions
  /\ installed \subseteq Versions /\ discarded \subseteq Versions /\ acked \subseteq Versions

(* The signals a program writes are registered before its executor can     *)
(* run: the publish-back of the cycle drops a value whose signal is not.   *)
OutputsRegistered == executor # None => executor \in registered

(* take() hands a prepared program to one boundary: no version becomes the *)
(* executor twice, whatever flags are left over from earlier commits.      *)
NeverReinstalled == [][executor' # executor => executor' \notin installed]_vars

(* A version rolled back or superseded in the slot is never installed      *)
(* afterwards, also when the boundary had already seen the commit flag.    *)
DiscardedNeverInstalled == [][executor' # executor => executor' \notin discarded]_vars

(* Clearing the flag of the program just installed never erases the flag   *)
(* of the next one: a commit answered Ok for the program in the slot is    *)
(* withdrawn by a rollback only, however prepare and commit fall between   *)
(* the steps of the boundary.                                              *)
BoundaryKeepsCommits ==
  [][engine' # engine /\ pending \in acked /\ committed => committed']_vars

(* Two locks and a flag implement the one-step interface: the program the  *)
(* boundary has taken still counts as in the slot until it is installed.   *)
Abstract == INSTANCE ProgramSlot WITH
  slot <- IF taken = None THEN pending ELSE taken,
  active <- executor
ImplementsSlot == Abstract!Spec

(* "Commit the prepared swap. Applied at the next cycle boundary.": the    *)
(* program a commit returned Ok for is installed, unless the slot lost it  *)
(* to a rollback or another prepare.                                       *)
AckedCommitApplies ==
  \A v \in Versions : v \in acked ~> v \in installed \union discarded

=============================================================================
