----------------------------- MODULE HmiDeploy -----------------------------
(***************************************************************************)
(* Deployment of HMI layouts: Engine::deploy_hmi_layout, called by IPC     *)
(* connection threads, against step 1.6 of the cycle, which writes the     *)
(* layout to project/hmi/layout.yaml and, if that succeeded, publishes it. *)
(* The generation is drawn from a counter before the layout is stored, and *)
(* the boundary keeps the pending layout locked until it has published.    *)
(* The process may be restarted; only the file survives.                   *)
(***************************************************************************)
EXTENDS Integers

CONSTANTS
  Clients,      \* the IPC connection threads
  Layouts,      \* valid layouts, each deployed at most once
  None,         \* no layout
  Torn,         \* what a failed or interrupted write may leave in the file
  MaxRestarts   \* bound on restarts of the process

ASSUME LayoutsAssumption ==
  /\ None \notin Layouts /\ Torn \notin Layouts /\ Torn # None
  /\ MaxRestarts \in Nat

VARIABLES
  counter,      \* Engine.hmi_layout_generation
  pending,      \* Engine.pending_hmi_layout: layout and generation
  active,       \* Engine.hmi_layout: layout and generation
  file,         \* contents of layout.yaml
  engine,       \* where the cycle thread is
  taken,        \* the layout the boundary has taken
  client,       \* client[c]: the layout and generation c is about to store
  restarts,     \* number of restarts so far
  deployed,     \* history: layouts handed to deploy_hmi_layout
  acked,        \* history: layouts whose deploy has returned its generation
  before        \* history: <<l, m>> where l's deploy returned before m's began

vars == <<counter, pending, active, file, engine, taken, client, restarts,
          deployed, acked, before>>

Stamped == [layout : Layouts, gen : Nat]
NoLayout == [layout |-> None, gen |-> 0]
Slot == Stamped \union {NoLayout}

Init ==
  /\ counter = 0
  /\ pending = NoLayout /\ active = NoLayout /\ taken = NoLayout
  /\ file = None
  /\ engine = "boundary"
  /\ client = [c \in Clients |-> NoLayout]
  /\ restarts = 0
  /\ deployed = {} /\ acked = {} /\ before = {}

(* The boundary holds pending_hmi_layout.write() from take() to publishing. *)
SlotHeld == engine \in {"writing", "publishing"}

-----------------------------------------------------------------------------
(* deploy_hmi_layout: draw a generation, then store under the lock.  The   *)
(* validation of the bytes happens before and leaves no trace on failure.  *)

(* Faulty variant: the call returns before the layout is stored. *)
DrawGenerationReturns(c, l) ==
  /\ client[c] = NoLayout
  /\ l \notin deployed
  /\ counter' = counter + 1
  /\ client' = [client EXCEPT ![c] = [layout |-> l, gen |-> counter + 1]]
  /\ deployed' = deployed \union {l}
  /\ acked' = acked \union {l}
  /\ before' = before \union (acked \X {l})
  /\ UNCHANGED <<pending, active, file, engine, taken, restarts>>

DrawGeneration(c, l) ==
  /\ client[c] = NoLayout
  /\ l \notin deployed
  /\ counter' = counter + 1
  /\ client' = [client EXCEPT ![c] = [layout |-> l, gen |-> counter + 1]]
  /\ deployed' = deployed \union {l}
  /\ before' = before \union (acked \X {l})
  /\ UNCHANGED <<pending, active, file, engine, taken, restarts, acked>>

StorePending(c) ==
  /\ client[c] # NoLayout
  /\ ~SlotHeld
  /\ pending' = client[c]
  /\ client' = [client EXCEPT ![c] = NoLayout]
  /\ acked' = acked \union {client[c].layout}
  /\ UNCHANGED <<counter, active, file, engine, taken, restarts, deployed, before>>

-----------------------------------------------------------------------------
(* Step 1.6 of the cycle. *)

TakeLayout ==
  /\ engine = "boundary"
  /\ engine' = IF pending = NoLayout THEN "cycle" ELSE "writing"
  /\ taken' = pending
  /\ pending' = NoLayout
  /\ UNCHANGED <<counter, active, file, client, restarts, deployed, acked, before>>

WriteSucceeds ==
  /\ engine = "writing"
  /\ engine' = "publishing"
  /\ file' = taken.layout
  /\ UNCHANGED <<counter, pending, active, taken, client, restarts, deployed, acked, before>>

(* Faulty variant: a failed write is logged and the layout published. *)
WriteFailsPublishes ==
  /\ engine = "writing"
  /\ engine' = "publishing"
  /\ file' \in {file, Torn}
  /\ UNCHANGED <<counter, pending, active, taken, client, restarts, deployed, acked, before>>

(* create_dir_all or fs::write fails: the file is untouched, or truncated  *)
(* and partly written; the layout is dropped.                              *)
WriteFails ==
  /\ engine = "writing"
  /\ engine' = "cycle"
  /\ file' \in {file, Torn}
  /\ taken' = NoLayout
  /\ UNCHANGED <<counter, pending, active, client, restarts, deployed, acked, before>>

Publish ==
  /\ engine = "publishing"
  /\ engine' = "cycle"
  /\ active' = taken
  /\ taken' = NoLayout
  /\ UNCHANGED <<counter, pending, file, client, restarts, deployed, acked, before>>

RunCycle ==
  /\ engine = "cycle"
  /\ engine' = "boundary"
  /\ UNCHANGED <<counter, pending, active, file, taken, client, restarts, deployed, acked, before>>

Engine == TakeLayout \/ WriteSucceeds \/ WriteFails \/ Publish \/ RunCycle

-----------------------------------------------------------------------------
(* The process dies and is started again: Engine::new, nothing is read     *)
(* back.  A write in progress may be cut short.                            *)
Restart ==
  /\ restarts < MaxRestarts
  /\ restarts' = restarts + 1
  /\ counter' = 0
  /\ pending' = NoLayout /\ active' = NoLayout /\ taken' = NoLayout
  /\ file' \in {file} \union (IF engine = "writing" THEN {Torn} ELSE {})
  /\ engine' = "boundary"
  /\ client' = [c \in Clients |-> NoLayout]
  /\ UNCHANGED <<deployed, acked, before>>

Next ==
  \/ Engine
  \/ \E c \in Clients : StorePending(c) \/ \E l \in Layouts : DrawGeneration(c, l)
  \/ Restart

Spec == Init /\ [][Next]_vars

-----------------------------------------------------------------------------
TypeOK ==
  /\ counter \in Nat
  /\ pending \in Slot /\ active \in Slot /\ taken \in Slot
  /\ file \in Layouts \union {None, Torn}
  /\ engine \in {"boundary", "writing", "publishing", "cycle"}
  /\ client \in [Clients -> Slot]
  /\ restarts \in 0 .. MaxRestarts
  /\ deployed \subseteq Layouts /\ acked \subseteq deployed /\ before \subseteq acked \X deployed
  /\ taken # NoLayout <=> SlotHeld

(* HMI-DPL-006, the file holds what was deployed: a layout that panels     *)
(* read is the one on disk, and without one nothing is on disk before a    *)
(* restart, except where a write failed half way.                          *)
PanelAgreesWithDisk ==
  engine # "publishing" /\ (active # NoLayout \/ restarts = 0)
    => file \in {active.layout, Torn}

(* HMI-DPL-004, as far as it holds with several callers: panels see the    *)
(* layouts of deploys that did not overlap in the order of the deploys,    *)
(* also across failed writes and restarts.                                 *)
DeployOrder ==
  [][active' # active => <<active'.layout, active.layout>> \notin before]_vars

=============================================================================
