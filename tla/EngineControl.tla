--------------------------- MODULE EngineControl ---------------------------
(***************************************************************************)
(* The control gate of the engine's cycle thread: Engine::start_with_cycle *)
(* and the calls that steer it from other threads (pause, resume,          *)
(* step_cycle, stop).  All three flags are SeqCst atomics, so every load   *)
(* and every store is one step here.  A wait loop re-reads its flags until *)
(* one load lets it out; since each load that lets it out does so by its   *)
(* own value, a loop is one action enabled when some flag would let it out.*)
(*                                                                         *)
(* The body of a cycle is one step (FinishCycle); the modules HotSwap,     *)
(* ConfigBarrier, HmiDeploy and Lifecycle open it up.  The owner of the    *)
(* thread (main, or a SimulationHarness) starts it, stops it and joins it. *)
(***************************************************************************)
EXTENDS Integers

CONSTANT Clients    \* the IPC connection threads that call the engine

VARIABLES
  running,          \* Engine.running
  paused,           \* Engine.paused
  stepRequested,    \* Engine.step_requested
  engine,           \* where the cycle thread is
  owner,            \* what the thread that holds the JoinHandle is doing
  client,           \* client[c]: is c between the two stores of step_cycle?
  credit            \* history: cycles that may still complete in this pause

vars == <<running, paused, stepRequested, engine, owner, client, credit>>

(* The cycle thread: "none" before it is spawned and after it is joined,   *)
(* "top" at the outer loop's test, "park" in the first wait loop, "gate"   *)
(* at the test between the loops, "hold" in the second wait loop, "clear"  *)
(* before the store that consumes a step, "cycle" in the body.             *)
EnginePc == {"none", "top", "park", "gate", "hold", "clear", "cycle", "exited"}

Init ==
  /\ running = FALSE
  /\ paused = FALSE
  /\ stepRequested = FALSE
  /\ engine = "none"
  /\ owner = "stopped"
  /\ client = [c \in Clients |-> "idle"]
  /\ credit = 0

-----------------------------------------------------------------------------
(* The cycle thread. *)

EngineGoes(from, to) == engine = from /\ engine' = to

AtTop ==
  /\ engine = "top"
  /\ engine' = IF running THEN "park" ELSE "exited"
  /\ UNCHANGED <<running, paused, stepRequested, owner, client, credit>>

(* Faulty variant: the wait loop does not see a stop. *)
LeaveParkDeaf ==
  /\ EngineGoes("park", "gate")
  /\ ~paused \/ stepRequested
  /\ UNCHANGED <<running, paused, stepRequested, owner, client, credit>>

LeavePark ==
  /\ EngineGoes("park", "gate")
  /\ ~running \/ ~paused \/ stepRequested
  /\ UNCHANGED <<running, paused, stepRequested, owner, client, credit>>

(* Faulty variant: no test between the two wait loops. *)
AtGateUntested ==
  /\ EngineGoes("gate", "hold")
  /\ UNCHANGED <<running, paused, stepRequested, owner, client, credit>>

AtGate ==
  /\ engine = "gate"
  /\ engine' = IF running THEN "hold" ELSE "exited"
  /\ UNCHANGED <<running, paused, stepRequested, owner, client, credit>>

(* Faulty variant: no second wait loop. *)
LeaveHoldAtOnce ==
  /\ EngineGoes("hold", "clear")
  /\ UNCHANGED <<running, paused, stepRequested, owner, client, credit>>

(* Faulty variant: the second wait loop waits for a resume only. *)
LeaveHoldOnResume ==
  /\ EngineGoes("hold", "clear")
  /\ ~paused
  /\ UNCHANGED <<running, paused, stepRequested, owner, client, credit>>

(* The second wait loop does not look at running. *)
LeaveHold ==
  /\ EngineGoes("hold", "clear")
  /\ ~paused \/ stepRequested
  /\ UNCHANGED <<running, paused, stepRequested, owner, client, credit>>

(* Faulty variant: the step is not consumed. *)
ClearStepForgets ==
  /\ EngineGoes("clear", "cycle")
  /\ UNCHANGED <<running, paused, stepRequested, owner, client, credit>>

ClearStep ==
  /\ EngineGoes("clear", "cycle")
  /\ stepRequested' = FALSE
  /\ UNCHANGED <<running, paused, owner, client, credit>>

FinishCycle ==
  /\ EngineGoes("cycle", "top")
  /\ credit' = IF paused THEN credit - 1 ELSE credit
  /\ UNCHANGED <<running, paused, stepRequested, owner, client>>

Engine == AtTop \/ LeavePark \/ AtGate \/ LeaveHold \/ ClearStep \/ FinishCycle

-----------------------------------------------------------------------------
(* The callers. *)

InFlight == IF engine \in {"clear", "cycle"} THEN 1 ELSE 0
Pending == IF stepRequested THEN 1 ELSE 0

(* The store paused = true.  A pause that begins here still owes the cycle *)
(* already past the wait loops and the step already requested.             *)
StorePaused ==
  /\ paused' = TRUE
  /\ credit' = IF paused THEN credit ELSE InFlight + Pending

Pause(c) ==
  /\ client[c] = "idle"
  /\ StorePaused
  /\ UNCHANGED <<running, stepRequested, engine, owner, client>>

Resume(c) ==
  /\ client[c] = "idle"
  /\ paused' = FALSE
  /\ credit' = 0
  /\ UNCHANGED <<running, stepRequested, engine, owner, client>>

(* step_cycle: two stores, another thread may run between them. *)
StepPauses(c) ==
  /\ client[c] = "idle"
  /\ client' = [client EXCEPT ![c] = "stepping"]
  /\ StorePaused
  /\ UNCHANGED <<running, stepRequested, engine, owner>>

StepRequests(c) ==
  /\ client[c] = "stepping"
  /\ client' = [client EXCEPT ![c] = "idle"]
  /\ stepRequested' = TRUE
  /\ credit' = IF paused THEN credit + 1 - Pending ELSE credit
  /\ UNCHANGED <<running, paused, engine, owner>>

Call(c) == Pause(c) \/ Resume(c) \/ StepPauses(c) \/ StepRequests(c)

-----------------------------------------------------------------------------
(* The owner of the JoinHandle. *)

Start ==
  /\ owner = "stopped"
  /\ owner' = "started"
  /\ running' = TRUE
  /\ EngineGoes("none", "top")
  /\ UNCHANGED <<paused, stepRequested, client, credit>>

Stop ==
  /\ owner = "started"
  /\ owner' = "joining"
  /\ running' = FALSE
  /\ UNCHANGED <<paused, stepRequested, engine, client, credit>>

(* Faulty variant: stop() forgets the thread instead of joining it. *)
JoinDetached ==
  /\ owner = "joining"
  /\ owner' = "stopped"
  /\ UNCHANGED <<running, paused, stepRequested, engine, client, credit>>

Join ==
  /\ owner = "joining"
  /\ owner' = "stopped"
  /\ EngineGoes("exited", "none")
  /\ UNCHANGED <<running, paused, stepRequested, client, credit>>

Next ==
  \/ Engine
  \/ \E c \in Clients : Call(c)
  \/ Start \/ Stop \/ Join

Spec == Init /\ [][Next]_vars

(* The operating system keeps scheduling the cycle thread and a caller in  *)
(* the middle of step_cycle; nobody is obliged to call anything.           *)
Fairness ==
  /\ WF_vars(Engine)
  /\ WF_vars(Join)
  /\ \A c \in Clients : WF_vars(StepRequests(c))

FairSpec == Spec /\ Fairness

-----------------------------------------------------------------------------
TypeOK ==
  /\ running \in BOOLEAN
  /\ paused \in BOOLEAN
  /\ stepRequested \in BOOLEAN
  /\ engine \in EnginePc
  /\ owner \in {"stopped", "started", "joining"}
  /\ client \in [Clients -> {"idle", "stepping"}]
  /\ credit \in Int
  /\ engine = "none" <=> owner = "stopped"

(* While the engine stays paused it completes no cycle but the one already *)
(* past the wait loops when the pause was stored and one for every step    *)
(* requested since (tests test_pause_stops_cycle_execution and             *)
(* test_step_cycle_advances_by_one, for every interleaving of callers).    *)
PauseHolds == credit >= 0

(* The strengthening that makes PauseHolds inductive: a pause has credit   *)
(* for every cycle the thread is committed to or will be let into.         *)
CreditCovers ==
  /\ ~paused => credit = 0
  /\ paused /\ engine # "clear" => credit >= InFlight + Pending
  /\ paused /\ engine = "clear" => credit >= InFlight

(* A requested step is consumed by a cycle as long as the engine runs: no  *)
(* interleaving of pause, resume and step parks the thread on a step.      *)
StepServed == (stepRequested /\ running) ~> (~stepRequested \/ ~running)

(* A stop that finds the thread parked by a pause ends it: the test        *)
(* between the two wait loops is there for this.                           *)
StopParkedEnds == (engine = "park" /\ ~running) ~> engine = "none"

(* The most stop() achieves in general: the thread is joined, or it sits   *)
(* in the second wait loop.                                                *)
StopEndsOrHolds == ~running ~> engine \in {"none", "hold"}

(* What Engine::start promises: the engine runs the cycle "until stop() is *)
(* called", and main and SimulationHarness::stop join the thread right     *)
(* after stop().  (Already the weaker form is violated, which lets a later *)
(* resume free the thread.)                                                *)
StopEnds == owner = "joining" ~> (owner = "stopped" \/ ~paused)

=============================================================================
