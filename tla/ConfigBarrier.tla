--------------------------- MODULE ConfigBarrier ---------------------------
(***************************************************************************)
(* The Config Barrier (D17): Engine::queue_config, set_lock_level and      *)
(* apply_config_now called by other threads, against step 1 of the cycle,  *)
(* which hands the queued commands to the middleware.  There are two lock  *)
(* levels and nothing relates them: the engine's, checked when a command   *)
(* is queued, and the middleware's, checked when it is handed over.        *)
(*                                                                         *)
(* queue_config holds the read lock of lock_level until it has pushed, and *)
(* set_lock_level takes the write lock; a drain holds config_queue from    *)
(* before it looks at the queue until the middleware has applied it.       *)
(***************************************************************************)
EXTENDS LockLevels, SequencesExt

CONSTANTS
  Clients,    \* threads that call the engine
  Commands,   \* config commands, each submitted at most once (random ids)
  Required,   \* the level the middleware requires for each command
  None        \* no command

ASSUME CommandsAssumption == Required \in [Commands -> CommandLevels] /\ None \notin Commands

VARIABLES
  engineLevel,  \* Engine.lock_level
  queue,        \* Engine.config_queue
  mwLevel,      \* InprocQoS.lock_level, under the middleware mutex
  engine,       \* where the cycle thread is
  client,       \* client[c]: in which critical section c is
  arg,          \* arg[c]: the command c is pushing
  accepted,     \* history: the commands queue_config returned Ok for, in order
  settled,      \* history: the commands handed to the middleware, in order
  applied       \* history: those the middleware applied

vars == <<engineLevel, queue, mwLevel, engine, client, arg, accepted, settled, applied>>

Init ==
  /\ engineLevel = NoLock /\ mwLevel = NoLock
  /\ queue = <<>>
  /\ engine = "boundary"
  /\ client = [c \in Clients |-> "idle"]
  /\ arg = [c \in Clients |-> None]
  /\ accepted = <<>> /\ settled = <<>> /\ applied = {}

(* Somebody is between locking and unlocking config_queue. *)
QueueHeld == engine = "draining" \/ \E c \in Clients : client[c] = "applying"

(* Faulty variant: the level is checked and its lock let go. *)
LevelUnread == FALSE

(* Somebody holds the read lock of lock_level. *)
LevelRead == \E c \in Clients : client[c] = "pushing"

ClientGoes(c, from, to) ==
  /\ client[c] = from
  /\ client' = [client EXCEPT ![c] = to]

-----------------------------------------------------------------------------
(* Faulty variant: the drain stops at the first command rejected. *)
HandOverStops ==
  LET ok == {n \in 0 .. Len(queue) :
               \A i \in 1 .. n : CanQueue(mwLevel, Required[queue[i]])}
      n == CHOOSE k \in ok : \A j \in ok : j <= k
  IN /\ settled' = settled \o SubSeq(queue, 1, n)
     /\ applied' = applied \union {queue[i] : i \in 1 .. n}
     /\ queue' = SubSeq(queue, n + 1, Len(queue))

(* Faulty variant: the drain pops from the back. *)
HandOverBackwards ==
  /\ settled' = settled \o Reverse(queue)
  /\ applied' = applied \union {m \in ToSet(queue) : CanQueue(mwLevel, Required[m])}
  /\ queue' = <<>>

(* Handing the whole queue to the middleware, under its mutex: each        *)
(* command is queued there or rejected by the middleware's own level, then *)
(* apply_queued applies what was queued.  A rejection is dropped.          *)
HandOver ==
  /\ settled' = settled \o queue
  /\ applied' = applied \union {m \in ToSet(queue) : CanQueue(mwLevel, Required[m])}
  /\ queue' = <<>>

(* The cycle thread: lock the queue, hand it over, run the cycle. *)
DrainLocks ==
  /\ engine = "boundary" /\ ~QueueHeld
  /\ engine' = "draining"
  /\ UNCHANGED <<engineLevel, queue, mwLevel, client, arg, accepted, settled, applied>>

DrainApplies ==
  /\ engine = "draining"
  /\ engine' = "cycle"
  /\ HandOver
  /\ UNCHANGED <<engineLevel, mwLevel, client, arg, accepted>>

RunCycle ==
  /\ engine = "cycle"
  /\ engine' = "boundary"
  /\ UNCHANGED <<engineLevel, queue, mwLevel, client, arg, accepted, settled, applied>>

Engine == DrainLocks \/ DrainApplies \/ RunCycle

-----------------------------------------------------------------------------
(* The calls. *)

(* queue_config checks the level (an error leaves everything alone) ...    *)
QueueChecks(c, m) ==
  /\ ClientGoes(c, "idle", "pushing")
  /\ engineLevel < RunLevel
  /\ m \notin ToSet(accepted) /\ \A d \in Clients : arg[d] # m
  /\ arg' = [arg EXCEPT ![c] = m]
  /\ UNCHANGED <<engineLevel, queue, mwLevel, engine, accepted, settled, applied>>

(* ... and pushes, still holding the level's read lock. *)
QueuePushes(c) ==
  /\ ClientGoes(c, "pushing", "idle")
  /\ ~QueueHeld
  /\ queue' = Append(queue, arg[c])
  /\ accepted' = Append(accepted, arg[c])
  /\ arg' = [arg EXCEPT ![c] = None]
  /\ UNCHANGED <<engineLevel, mwLevel, engine, settled, applied>>

(* set_lock_level: raises the level or changes nothing. *)
SetLockLevel(c, level) ==
  /\ client[c] = "idle"
  /\ ~LevelRead
  /\ level > engineLevel
  /\ engineLevel' = level
  /\ UNCHANGED <<queue, mwLevel, engine, client, arg, accepted, settled, applied>>

(* Faulty variant: the middleware takes whatever level it is given. *)
SetMiddlewareLevelAny(c, level) ==
  /\ client[c] = "idle"
  /\ level # mwLevel
  /\ mwLevel' = level
  /\ UNCHANGED <<engineLevel, queue, engine, client, arg, accepted, settled, applied>>

(* HalQoS::set_lock_level through Engine::middleware(), under the mutex. *)
SetMiddlewareLevel(c, level) ==
  /\ client[c] = "idle"
  /\ level > mwLevel
  /\ mwLevel' = level
  /\ UNCHANGED <<engineLevel, queue, engine, client, arg, accepted, settled, applied>>

(* apply_config_now: the same hand-over, on the caller's thread. *)
ApplyNowLocks(c) ==
  /\ ClientGoes(c, "idle", "applying")
  /\ ~QueueHeld /\ queue # <<>>
  /\ UNCHANGED <<engineLevel, queue, mwLevel, engine, arg, accepted, settled, applied>>

ApplyNowApplies(c) ==
  /\ ClientGoes(c, "applying", "idle")
  /\ HandOver
  /\ UNCHANGED <<engineLevel, mwLevel, engine, arg, accepted>>

Return(c) == QueuePushes(c) \/ ApplyNowApplies(c)

Call(c) ==
  \/ \E m \in Commands : QueueChecks(c, m)
  \/ \E level \in Levels : SetLockLevel(c, level) \/ SetMiddlewareLevel(c, level)
  \/ ApplyNowLocks(c)
  \/ Return(c)

Next == Engine \/ \E c \in Clients : Call(c)

Spec == Init /\ [][Next]_vars

(* The cycle thread runs, and a caller inside a call goes on when it can.  *)
(* Weak fairness is enough though apply_config_now may keep the queue from *)
(* the cycle thread: whoever holds the queue hands it over.                *)
Fairness == WF_vars(Engine) /\ \A c \in Clients : WF_vars(Return(c))

FairSpec == Spec /\ Fairness

-----------------------------------------------------------------------------
TypeOK ==
  /\ engineLevel \in Levels /\ mwLevel \in Levels
  /\ queue \in Seq(Commands) /\ accepted \in Seq(Commands) /\ settled \in Seq(Commands)
  /\ applied \subseteq Commands
  /\ engine \in {"boundary", "draining", "cycle"}
  /\ client \in [Clients -> {"idle", "pushing", "applying"}]
  /\ arg \in [Clients -> Commands \union {None}]
  /\ \A c \in Clients : client[c] = "pushing" <=> arg[c] # None

(* S-CFG-021: strictly first in, first out, no reordering, no duplicate,   *)
(* no loss, whoever drains: what was accepted is what was handed over      *)
(* followed by what is still queued.                                       *)
ExactlyOnceInOrder == accepted = settled \o queue

(* S-CFG-030: at Run nothing is queued any more, not even by a call that   *)
(* had checked the level before it was raised.                             *)
NothingQueuedAtRun == [][accepted' # accepted => engineLevel < RunLevel]_vars

(* A command queue_config accepted is handed over at some boundary. *)
AcceptedIsSettled ==
  \A m \in Commands : m \in ToSet(accepted) ~> m \in ToSet(settled)

(* The middleware only gets stricter: once it has rejected a command, no   *)
(* later one that needs the same level or a lower one is applied, whoever  *)
(* drains and whoever raises levels meanwhile.                             *)
RejectionsStick ==
  \A i, j \in DOMAIN settled :
    /\ i < j /\ settled[i] \notin applied
    /\ Required[settled[j]] <= Required[settled[i]]
    => settled[j] \notin applied

=============================================================================
