----------------------------- MODULE LockLevels -----------------------------
(***************************************************************************)
(* LockLevel of the HAL (None, Load, Config, Params, Run, All as 0..5) and *)
(* the admission rule of the in-process middleware: which command may be   *)
(* queued at which level.                                                  *)
(***************************************************************************)
EXTENDS Integers

NoLock == 0
LoadLevel == 1
ConfigLevel == 2
ParamsLevel == 3
RunLevel == 4
AllLevel == 5

Levels == NoLock .. AllLevel

(* What required_lock_level can answer for a method name. *)
CommandLevels == LoadLevel .. ParamsLevel

(* can_queue(current, required) *)
CanQueue(current, required) ==
  \/ current <= LoadLevel
  \/ current \in {ConfigLevel, ParamsLevel} /\ required >= current

=============================================================================
