----------------------------- MODULE Lifecycle -----------------------------
(***************************************************************************)
(* LifecycleManager: child processes spawned by callers, checked and       *)
(* restarted by the cycle thread (health_check, the last thing a cycle     *)
(* does), killed by shutdown_all.  The list of children is behind one      *)
(* mutex; health_check and shutdown_all hold it throughout, and what a     *)
(* child does meanwhile commutes with the visits to the others, so each is *)
(* one step.  spawn() forks before it takes the mutex: two steps.          *)
(*                                                                         *)
(* Time is counted in ticks; an age at or above Window is as good as any   *)
(* other, so ages stop there.                                              *)
(***************************************************************************)
EXTENDS Integers

CONSTANTS
  Children,     \* children that callers may spawn, each once
  MaxRetries,   \* MAX_RETRIES
  Window        \* RESTART_WINDOW_MS, in ticks

ASSUME RestartAssumption ==
  /\ MaxRetries \in Nat \ {0} /\ Window \in Nat \ {0}

VARIABLES
  process,      \* process[c]: what the operating system knows of c
  listed,       \* the children in the manager's list
  restartCount, \* ManagedChild.restart_count
  age,          \* ticks since ManagedChild.last_start
  recent        \* history: recent[c][k]: age of the k-th last restart of c

vars == <<process, listed, restartCount, age, recent>>

(* One restart more than the budget is remembered. *)
Remembered == 1 .. MaxRetries + 1
Ages == 0 .. Window

AtMost(n, cap) == IF n > cap THEN cap ELSE n

Init ==
  /\ process = [c \in Children |-> "none"]
  /\ listed = {}
  /\ restartCount = [c \in Children |-> 0]
  /\ age = [c \in Children |-> 0]
  /\ recent = [c \in Children |-> [k \in Remembered |-> Window]]

-----------------------------------------------------------------------------
(* The environment: time, and children that exit. *)

Tick ==
  /\ age' = [c \in Children |-> AtMost(age[c] + 1, Window)]
  /\ recent' = [c \in Children |-> [k \in Remembered |-> AtMost(recent[c][k] + 1, Window)]]
  /\ UNCHANGED <<process, listed, restartCount>>

Exit(c) ==
  /\ process[c] = "alive"
  /\ process' = [process EXCEPT ![c] = "exited"]
  /\ UNCHANGED <<listed, restartCount, age, recent>>

-----------------------------------------------------------------------------
(* spawn(): fork and exec; a failure changes nothing. *)
SpawnForks(c) ==
  /\ process[c] = "none"
  /\ process' = [process EXCEPT ![c] = "alive"]
  /\ UNCHANGED <<listed, restartCount, age, recent>>

SpawnLists(c) ==
  /\ process[c] \in {"alive", "exited"} /\ c \notin listed
  /\ listed' = listed \union {c}
  /\ restartCount' = [restartCount EXCEPT ![c] = 0]
  /\ age' = [age EXCEPT ![c] = 0]
  /\ UNCHANGED <<process, recent>>

-----------------------------------------------------------------------------
(* health_check, with the set of children whose restart the operating      *)
(* system grants.  Its answers go to the log and to a metric only.         *)

Exited == {c \in listed : process[c] = "exited"}

(* Faulty variant: the reset comes one tick early. *)
CountNowEarly(c) == IF age[c] + 1 >= Window THEN 0 ELSE restartCount[c]

(* Faulty variant: the counter is never reset. *)
CountNowNever(c) == restartCount[c]

(* The restart counter after the reset for a child that started long ago. *)
CountNow(c) == IF age[c] >= Window THEN 0 ELSE restartCount[c]

MayRestart == {c \in Exited : CountNow(c) < MaxRetries}

Remember(f) == [k \in Remembered |-> IF k = 1 THEN 0 ELSE f[k - 1]]

HealthCheck(granted) ==
  /\ granted \subseteq MayRestart
  /\ process' = [c \in Children |-> IF c \in granted THEN "alive" ELSE process[c]]
  /\ restartCount' = [c \in Children |->
       IF c \in Exited THEN CountNow(c) + (IF c \in granted THEN 1 ELSE 0) ELSE restartCount[c]]
  /\ age' = [c \in Children |-> IF c \in granted THEN 0 ELSE age[c]]
  /\ recent' = [c \in Children |-> IF c \in granted THEN Remember(recent[c]) ELSE recent[c]]
  /\ UNCHANGED listed

Check == \E granted \in SUBSET Children : HealthCheck(granted)

(* shutdown_all: SIGKILL to all, and every one is waited for and removed,  *)
(* in time or not.                                                         *)
ShutdownAll ==
  /\ listed # {}
  /\ process' = [c \in Children |-> IF c \in listed THEN "reaped" ELSE process[c]]
  /\ listed' = {}
  /\ UNCHANGED <<restartCount, age, recent>>

Next ==
  \/ Tick
  \/ \E c \in Children : Exit(c) \/ SpawnForks(c) \/ SpawnLists(c)
  \/ Check
  \/ ShutdownAll

Spec == Init /\ [][Next]_vars

(* Cycles keep running and so does time; spawn() and the process-creation  *)
(* calls of the operating system may fail, but not for ever.               *)
Fairness ==
  /\ WF_vars(Tick)
  /\ WF_vars(Check)
  /\ \A c \in Children :
       SF_vars(\E granted \in SUBSET Children : c \in granted /\ HealthCheck(granted))

FairSpec == Spec /\ Fairness

-----------------------------------------------------------------------------
TypeOK ==
  /\ process \in [Children -> {"none", "alive", "exited", "reaped"}]
  /\ listed \subseteq Children
  /\ restartCount \in [Children -> 0 .. MaxRetries]
  /\ age \in [Children -> Ages]
  /\ recent \in [Children -> [Remembered -> Ages]]

(* The budget is a rate: in no interval shorter than Window does           *)
(* health_check restart a child more than MaxRetries times, however exits, *)
(* checks, failed spawns and resets of the counter fall.                   *)
RateLimit == \A c \in Children : recent[c][MaxRetries + 1] = Window

(* What makes RateLimit inductive: restarts beyond the counted ones are    *)
(* old, and last_start is the time of the last restart counted; a child    *)
(* not yet in the list has never been restarted.                           *)
NeverRestarted(c) == \A k \in Remembered : recent[c][k] = Window
OnlyCounted(c) == \A k \in Remembered : k > restartCount[c] => recent[c][k] = Window
LastCounted(c) == restartCount[c] > 0 => recent[c][1] = age[c]
Ordered(c) == \A j, k \in Remembered : j <= k => recent[c][j] <= recent[c][k]

CountCovers ==
  \A c \in Children :
    /\ c \notin listed /\ process[c] # "reaped" => NeverRestarted(c)
    /\ OnlyCounted(c)
    /\ LastCounted(c)
    /\ Ordered(c)

(* Supervision never gives a child up: one that has exited runs again, or  *)
(* is shut down, also after "max retries" has been reported.               *)
ExitedIsRevived ==
  \A c \in Children :
    (c \in listed /\ process[c] = "exited") ~> (process[c] = "alive" \/ c \notin listed)

=============================================================================
