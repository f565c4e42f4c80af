----------------------- MODULE ConfigBarrier_proofs -----------------------
(***************************************************************************)
(* The Config Barrier for any set of callers and commands: first in first  *)
(* out and exactly once, nothing queued at Run, rejections that stick.     *)
(***************************************************************************)
EXTENDS ConfigBarrier, TLAPS

(* A caller that has passed the check still has the level below Run.       *)
PushInv == \A c \in Clients : client[c] = "pushing" => engineLevel < RunLevel

(* A command is under way in one call at most, and never after it has been *)
(* accepted; so nothing is accepted twice.                                 *)
OnceInv ==
  /\ \A c \in Clients : arg[c] # None => arg[c] \notin ToSet(accepted)
  /\ \A c, d \in Clients : arg[c] = arg[d] /\ arg[c] # None => c = d
  /\ \A i, j \in DOMAIN accepted : accepted[i] = accepted[j] => i = j

(* A command handed over and not applied would be rejected again now.      *)
RejectedInv ==
  \A i \in DOMAIN settled :
    settled[i] \notin applied => ~CanQueue(mwLevel, Required[settled[i]])

(* Only what was handed over has been applied.                             *)
AppliedInv == applied \subseteq ToSet(settled)

FifoInv == ExactlyOnceInOrder /\ PushInv /\ OnceInv
MiddlewareInv == AppliedInv /\ RejectedInv /\ RejectionsStick
IInv == TypeOK /\ FifoInv /\ MiddlewareInv

-----------------------------------------------------------------------------
(* The admission rule is monotone: a stricter level admits less, a command *)
(* that requires more is admitted wherever one that requires less is.      *)
LEMMA CanQueueMonotone ==
  /\ \A low, high \in Levels, r \in CommandLevels :
       low <= high /\ CanQueue(high, r) => CanQueue(low, r)
  /\ \A level \in Levels, r, s \in CommandLevels :
       r <= s /\ CanQueue(level, r) => CanQueue(level, s)
  BY DEF Levels, CommandLevels, CanQueue, NoLock, LoadLevel, ConfigLevel, ParamsLevel,
         RunLevel, AllLevel

(* Nothing appended to a sequence leaves the sequence as it is.            *)
LEMMA EmptyConcat ==
  ASSUME NEW S, NEW s \in Seq(S)
  PROVE  s \o <<>> = s
  OBVIOUS

(* Where the members of a concatenation come from. *)
LEMMA Parts ==
  ASSUME NEW S, NEW s \in Seq(S), NEW q \in Seq(S)
  PROVE  /\ s \o q \in Seq(S)
         /\ DOMAIN (s \o q) = 1 .. Len(s) + Len(q)
         /\ \A i \in DOMAIN s : i \in DOMAIN (s \o q) /\ (s \o q)[i] = s[i]
         /\ \A k \in DOMAIN q : Len(s) + k \in DOMAIN (s \o q) /\ (s \o q)[Len(s) + k] = q[k]
         /\ \A i \in DOMAIN (s \o q) : i \in DOMAIN s \/ i - Len(s) \in DOMAIN q
         /\ ToSet(s \o q) = ToSet(s) \union ToSet(q)
<1>1. /\ s \o q \in Seq(S)
      /\ DOMAIN (s \o q) = 1 .. Len(s) + Len(q)
      /\ \A i \in DOMAIN s : i \in DOMAIN (s \o q) /\ (s \o q)[i] = s[i]
      /\ \A k \in DOMAIN q : Len(s) + k \in DOMAIN (s \o q) /\ (s \o q)[Len(s) + k] = q[k]
      /\ \A i \in DOMAIN (s \o q) : i \in DOMAIN s \/ i - Len(s) \in DOMAIN q
  OBVIOUS
<1>2. ToSet(s \o q) = ToSet(s) \union ToSet(q)
  <2>1. ASSUME NEW i \in DOMAIN (s \o q) PROVE (s \o q)[i] \in ToSet(s) \union ToSet(q)
    <3>1. CASE i \in DOMAIN s
      BY <1>1, <3>1 DEF ToSet
    <3>2. CASE i - Len(s) \in DOMAIN q
      <4>1. i = Len(s) + (i - Len(s))
        BY <1>1, <2>1
      <4>2. (s \o q)[i] = q[i - Len(s)]
        BY <1>1, <3>2, <4>1
      <4>3. QED
        BY <3>2, <4>2 DEF ToSet
    <3>3. QED
      BY <1>1, <2>1, <3>1, <3>2
  <2>2. ToSet(s) \subseteq ToSet(s \o q)
    BY <1>1, Zenon DEF ToSet
  <2>3. ToSet(q) \subseteq ToSet(s \o q)
    BY <1>1, Zenon DEF ToSet
  <2>4. ToSet(s \o q) \subseteq ToSet(s) \union ToSet(q)
    BY <2>1, Zenon DEF ToSet
  <2>5. QED
    BY <2>2, <2>3, <2>4
<1>3. QED
  BY <1>1, <1>2

(* What Append returns: the old elements at their places and the new one   *)
(* last, for the push of queue_config_command and the record of accepted   *)
(* commands.                                                               *)
LEMMA Appended ==
  ASSUME NEW S, NEW s \in Seq(S), NEW m \in S
  PROVE  /\ Append(s, m) \in Seq(S)
         /\ DOMAIN Append(s, m) = DOMAIN s \union {Len(s) + 1}
         /\ \A i \in DOMAIN s : Append(s, m)[i] = s[i]
         /\ Append(s, m)[Len(s) + 1] = m
         /\ Len(s) + 1 \notin DOMAIN s
         /\ ToSet(Append(s, m)) = ToSet(s) \union {m}
<1>1. /\ Append(s, m) \in Seq(S)
      /\ DOMAIN Append(s, m) = DOMAIN s \union {Len(s) + 1}
      /\ \A i \in DOMAIN s : Append(s, m)[i] = s[i]
      /\ Append(s, m)[Len(s) + 1] = m
      /\ Len(s) + 1 \notin DOMAIN s
  OBVIOUS
<1>2. ToSet(Append(s, m)) = ToSet(s) \union {m}
  BY <1>1 DEF ToSet
<1>3. QED
  BY <1>1, <1>2

(* The elements of a sequence and its set of members are the same things.  *)
LEMMA Members ==
  ASSUME NEW S, NEW s \in Seq(S)
  PROVE  /\ \A i \in DOMAIN s : s[i] \in S /\ s[i] \in ToSet(s)
         /\ \A x \in ToSet(s) : x \in S /\ \E i \in DOMAIN s : s[i] = x
  BY DEF ToSet

-----------------------------------------------------------------------------
(* The barrier starts with nothing queued, accepted or settled.            *)
LEMMA InitInv == Init => IInv
<1> SUFFICES ASSUME Init PROVE IInv
  OBVIOUS
<1>1. TypeOK
  BY DEF Init, TypeOK, Levels, NoLock, AllLevel
<1>2. FifoInv
  BY DEF Init, FifoInv, ExactlyOnceInOrder, PushInv, OnceInv
<1>3. MiddlewareInv
  BY DEF Init, MiddlewareInv, AppliedInv, RejectedInv, RejectionsStick
<1>4. QED
  BY <1>1, <1>2, <1>3 DEF IInv

(* Every step keeps the types; a push and a hand-over move commands only.  *)
LEMMA HandOverTypes ==
  ASSUME TypeOK, HandOver
  PROVE  queue' \in Seq(Commands) /\ settled' \in Seq(Commands) /\ applied' \subseteq Commands
<1>1. \A m \in ToSet(queue) : m \in Commands
  BY Members DEF TypeOK
<1>2. QED
  BY <1>1 DEF HandOver, TypeOK

(* Every action of the callers, the cycle thread and the middleware keeps  *)
(* the types.                                                              *)
LEMMA TypeStep == TypeOK /\ [Next]_vars => TypeOK'
<1> SUFFICES ASSUME TypeOK, [Next]_vars PROVE TypeOK'
  OBVIOUS
<1>1. CASE DrainLocks \/ RunCycle
  BY <1>1 DEF TypeOK, DrainLocks, RunCycle
<1>2. CASE DrainApplies
  BY <1>2, HandOverTypes DEF TypeOK, DrainApplies
<1>3. ASSUME NEW c \in Clients, NEW m \in Commands, QueueChecks(c, m) PROVE TypeOK'
  BY <1>3, CommandsAssumption DEF TypeOK, QueueChecks, ClientGoes
<1>4. ASSUME NEW c \in Clients, QueuePushes(c) PROVE TypeOK'
  <2>1. arg[c] \in Commands
    BY <1>4 DEF TypeOK, QueuePushes, ClientGoes
  <2>2. queue' \in Seq(Commands) /\ accepted' \in Seq(Commands)
    BY <1>4, <2>1 DEF TypeOK, QueuePushes
  <2>3. QED
    BY <1>4, <2>1, <2>2 DEF TypeOK, QueuePushes, ClientGoes
<1>5. ASSUME NEW c \in Clients, NEW level \in Levels,
             SetLockLevel(c, level) \/ SetMiddlewareLevel(c, level)
      PROVE  TypeOK'
  BY <1>5 DEF TypeOK, SetLockLevel, SetMiddlewareLevel
<1>6. ASSUME NEW c \in Clients, ApplyNowLocks(c) PROVE TypeOK'
  BY <1>6 DEF TypeOK, ApplyNowLocks, ClientGoes
<1>7. ASSUME NEW c \in Clients, ApplyNowApplies(c) PROVE TypeOK'
  BY <1>7, HandOverTypes DEF TypeOK, ApplyNowApplies, ClientGoes
<1>8. CASE UNCHANGED vars
  BY <1>8 DEF TypeOK, vars
<1>9. QED
  BY <1>1, <1>2, <1>3, <1>4, <1>5, <1>6, <1>7, <1>8 DEF Next, Engine, Call, Return

-----------------------------------------------------------------------------
(* Only a push accepts a command; only a hand-over settles one.            *)
LEMMA PushStep ==
  ASSUME TypeOK, FifoInv, NEW c \in Clients, QueuePushes(c)
  PROVE  FifoInv'
<1> USE DEF TypeOK, FifoInv
<1>1. /\ arg[c] \in Commands /\ arg[c] # None /\ arg[c] \notin ToSet(accepted)
      /\ arg' = [arg EXCEPT ![c] = None] /\ client' = [client EXCEPT ![c] = "idle"]
      /\ accepted' = Append(accepted, arg[c]) /\ queue' = Append(queue, arg[c])
      /\ UNCHANGED <<settled, engineLevel>>
  BY DEF QueuePushes, ClientGoes, OnceInv
<1>2. ExactlyOnceInOrder'
  <2>1. settled \in Seq(Commands) /\ queue \in Seq(Commands) /\ arg[c] \in Commands
    BY <1>1
  <2>2. Append(settled \o queue, arg[c]) = settled \o Append(queue, arg[c])
    BY ONLY <2>1
  <2>3. QED
    BY <1>1, <2>2 DEF ExactlyOnceInOrder
<1>3. PushInv'
  BY <1>1 DEF PushInv
<1>4. OnceInv'
  <2>1. ToSet(accepted') = ToSet(accepted) \union {arg[c]}
    BY <1>1, Appended
  <2>2. \A d \in Clients : arg'[d] # None => arg'[d] \notin ToSet(accepted')
    BY <1>1, <2>1 DEF OnceInv
  <2>3. \A d, e \in Clients : arg'[d] = arg'[e] /\ arg'[d] # None => d = e
    BY <1>1 DEF OnceInv
  <2>4. \A i, j \in DOMAIN accepted' : accepted'[i] = accepted'[j] => i = j
    <3>1. /\ DOMAIN accepted' = DOMAIN accepted \union {Len(accepted) + 1}
          /\ \A i \in DOMAIN accepted : accepted'[i] = accepted[i]
          /\ accepted'[Len(accepted) + 1] = arg[c]
      BY <1>1, Appended
    <3>2. \A i \in DOMAIN accepted : accepted[i] \in ToSet(accepted)
      BY Members
    <3>3. \A i, j \in DOMAIN accepted : accepted[i] = accepted[j] => i = j
      BY DEF OnceInv
    <3>4. QED
      BY <1>1, <3>1, <3>2, <3>3
  <2>5. QED
    BY <2>2, <2>3, <2>4 DEF OnceInv
<1>5. QED
  BY <1>2, <1>3, <1>4

(* A hand-over moves the whole queue behind what has been settled, so      *)
(* settled and queue together still read as what was accepted.             *)
LEMMA HandOverFifo ==
  ASSUME TypeOK, ExactlyOnceInOrder, HandOver, UNCHANGED accepted
  PROVE  ExactlyOnceInOrder'
<1>1. settled' \in Seq(Commands) /\ settled' = accepted /\ queue' = <<>>
  BY HandOverTypes DEF ExactlyOnceInOrder, HandOver
<1>2. settled' \o <<>> = settled'
  BY <1>1, EmptyConcat
<1>3. QED
  BY <1>1, <1>2 DEF ExactlyOnceInOrder

(* Every step keeps the order, the level a pushing caller has seen and the *)
(* uniqueness of the commands under way.                                   *)
LEMMA FifoStep == TypeOK /\ FifoInv /\ [Next]_vars => FifoInv'
<1> SUFFICES ASSUME TypeOK, FifoInv, [Next]_vars PROVE FifoInv'
  OBVIOUS
<1>1. ASSUME NEW c \in Clients, NEW m \in Commands, QueueChecks(c, m) PROVE FifoInv'
  <2>1. /\ arg' = [arg EXCEPT ![c] = m] /\ client' = [client EXCEPT ![c] = "pushing"]
        /\ engineLevel < RunLevel /\ m \notin ToSet(accepted) /\ \A d \in Clients : arg[d] # m
        /\ UNCHANGED <<accepted, settled, queue, engineLevel>>
    BY <1>1 DEF QueueChecks, ClientGoes
  <2>2. OnceInv'
    BY <2>1 DEF TypeOK, FifoInv, OnceInv
  <2>3. QED
    BY <2>1, <2>2 DEF TypeOK, FifoInv, ExactlyOnceInOrder, PushInv
<1>2. ASSUME NEW c \in Clients, QueuePushes(c) PROVE FifoInv'
  BY <1>2, PushStep
<1>3. ASSUME NEW c \in Clients, NEW level \in Levels, SetLockLevel(c, level) PROVE FifoInv'
  BY <1>3 DEF SetLockLevel, LevelRead, FifoInv, ExactlyOnceInOrder, PushInv, OnceInv
<1>4. ASSUME NEW c \in Clients, NEW level \in Levels, SetMiddlewareLevel(c, level) PROVE FifoInv'
  BY <1>4 DEF SetMiddlewareLevel, FifoInv, ExactlyOnceInOrder, PushInv, OnceInv
<1>5. ASSUME NEW c \in Clients, ApplyNowLocks(c) PROVE FifoInv'
  BY <1>5 DEF ApplyNowLocks, ClientGoes, TypeOK, FifoInv, ExactlyOnceInOrder, PushInv, OnceInv
<1>6. ASSUME NEW c \in Clients, ApplyNowApplies(c) PROVE FifoInv'
  <2>1. ExactlyOnceInOrder'
    BY <1>6, HandOverFifo DEF ApplyNowApplies, FifoInv
  <2>2. PushInv' /\ OnceInv'
    BY <1>6 DEF ApplyNowApplies, ClientGoes, TypeOK, FifoInv, PushInv, OnceInv
  <2>3. QED
    BY <2>1, <2>2 DEF FifoInv
<1>7. CASE DrainLocks \/ RunCycle \/ UNCHANGED vars
  BY <1>7 DEF DrainLocks, RunCycle, vars, FifoInv, ExactlyOnceInOrder, PushInv, OnceInv
<1>8. CASE DrainApplies
  <2>1. ExactlyOnceInOrder'
    BY <1>8, HandOverFifo DEF DrainApplies, FifoInv
  <2>2. PushInv' /\ OnceInv'
    BY <1>8 DEF DrainApplies, FifoInv, PushInv, OnceInv
  <2>3. QED
    BY <2>1, <2>2 DEF FifoInv
<1>9. QED
  BY <1>1, <1>2, <1>3, <1>4, <1>5, <1>6, <1>7, <1>8 DEF Next, Engine, Call, Return

-----------------------------------------------------------------------------
(* What is still queued has not been handed over yet. *)
LEMMA QueuedIsNew ==
  ASSUME TypeOK, FifoInv, NEW i \in DOMAIN settled, NEW k \in DOMAIN queue
  PROVE  settled[i] # queue[k]
<1>1. settled \in Seq(Commands) /\ queue \in Seq(Commands)
  BY DEF TypeOK
<1>2. accepted = settled \o queue
  BY DEF FifoInv, ExactlyOnceInOrder
<1>3. /\ i \in DOMAIN accepted /\ accepted[i] = settled[i]
      /\ Len(settled) + k \in DOMAIN accepted /\ accepted[Len(settled) + k] = queue[k]
  BY <1>1, <1>2, Parts
<1>4. i # Len(settled) + k
  BY <1>1
<1>5. QED
  BY <1>3, <1>4 DEF FifoInv, OnceInv

(* Where a command of the longer list comes from, and what became of it.   *)
LEMMA HandOverSettles ==
  ASSUME TypeOK, FifoInv, AppliedInv, HandOver, NEW i \in DOMAIN settled'
  PROVE  \/ /\ i \in DOMAIN settled /\ settled'[i] = settled[i]
            /\ settled'[i] \in applied' <=> settled[i] \in applied
         \/ /\ i > Len(settled) /\ settled'[i] \in Commands
            /\ settled'[i] \in applied' <=> CanQueue(mwLevel, Required[settled'[i]])
<1>1. /\ settled \in Seq(Commands) /\ queue \in Seq(Commands)
      /\ settled' = settled \o queue
      /\ applied' = applied \union {m \in ToSet(queue) : CanQueue(mwLevel, Required[m])}
  BY DEF TypeOK, HandOver
<1>2. CASE i \in DOMAIN settled
  <2>1. settled'[i] = settled[i]
    BY <1>1, <1>2, Parts
  <2>2. settled[i] \notin ToSet(queue)
    BY <1>1, <1>2, QueuedIsNew, Members
  <2>3. QED
    BY <1>1, <1>2, <2>1, <2>2
<1>3. CASE i \notin DOMAIN settled
  <2> DEFINE k == i - Len(settled)
  <2>1. k \in DOMAIN queue /\ i \in Nat /\ i = Len(settled) + k /\ k > 0
    BY <1>1, <1>3, Parts
  <2>2. settled'[i] = queue[k]
    BY <1>1, <2>1, Parts
  <2>3. queue[k] \in ToSet(queue) /\ queue[k] \in Commands
    BY <1>1, <2>1, Members
  <2>4. queue[k] \notin applied
    BY <1>1, <2>1, QueuedIsNew, Members DEF AppliedInv
  <2>5. i > Len(settled)
    BY <1>1, <2>1
  <2>6. QED
    BY <1>1, <2>2, <2>3, <2>4, <2>5
<1>4. QED
  BY <1>2, <1>3

(* A hand-over applies exactly the commands the level of the middleware    *)
(* admits: what it drops is refused at that level, and nothing that was    *)
(* dropped before is applied.                                              *)
LEMMA HandOverRejects ==
  ASSUME IInv, HandOver, UNCHANGED mwLevel
  PROVE  MiddlewareInv'
<1> USE DEF IInv, MiddlewareInv
<1>1. AppliedInv'
  <2>1. ToSet(settled') = ToSet(settled) \union ToSet(queue)
    BY Parts DEF HandOver, TypeOK
  <2>2. QED
    BY <2>1 DEF HandOver, AppliedInv
<1>2. RejectedInv'
  <2> SUFFICES ASSUME NEW i \in DOMAIN settled', settled'[i] \notin applied'
               PROVE  ~CanQueue(mwLevel, Required[settled'[i]])
    BY DEF RejectedInv
  <2>1. QED
    BY HandOverSettles DEF RejectedInv
<1>3. RejectionsStick'
  <2> SUFFICES ASSUME NEW i \in DOMAIN settled', NEW j \in DOMAIN settled', i < j,
                      settled'[i] \notin applied',
                      Required[settled'[j]] <= Required[settled'[i]]
               PROVE  settled'[j] \notin applied'
    BY DEF RejectionsStick
  <2>1. CASE j \in DOMAIN settled
    <3>1. i \in DOMAIN settled
      BY <2>1 DEF TypeOK, HandOver
    <3>2. \A n \in DOMAIN settled : n <= Len(settled)
      BY DEF TypeOK
    <3>3. /\ settled'[i] = settled[i] /\ settled[i] \notin applied
          /\ settled'[j] = settled[j] /\ (settled'[j] \in applied' <=> settled[j] \in applied)
      BY <2>1, <3>1, <3>2, HandOverSettles
    <3>4. QED
      BY <2>1, <3>1, <3>3 DEF RejectionsStick
  <2>2. CASE j \notin DOMAIN settled
    <3>1. /\ settled'[j] \in Commands
          /\ settled'[j] \in applied' <=> CanQueue(mwLevel, Required[settled'[j]])
      BY <2>2, HandOverSettles
    <3>2. settled'[i] \in Commands /\ ~CanQueue(mwLevel, Required[settled'[i]])
      <4>1. settled'[i] \in Commands
        BY HandOverTypes, Members
      <4>2. QED
        BY <1>2, <4>1 DEF RejectedInv
    <3>3. /\ Required[settled'[i]] \in CommandLevels /\ Required[settled'[j]] \in CommandLevels
          /\ mwLevel \in Levels
      BY <3>1, <3>2, CommandsAssumption DEF TypeOK
    <3>4. QED
      BY <3>1, <3>2, <3>3, CanQueueMonotone
  <2>3. QED
    BY <2>1, <2>2
<1>4. QED
  BY <1>1, <1>2, <1>3

(* Every step keeps rejections rejected: the level of the middleware only  *)
(* rises, and a stricter level admits less.                                *)
LEMMA MiddlewareStep == IInv /\ [Next]_vars => MiddlewareInv'
<1> SUFFICES ASSUME IInv, [Next]_vars PROVE MiddlewareInv'
  OBVIOUS
<1> USE DEF MiddlewareInv, AppliedInv, RejectedInv, RejectionsStick
<1>1. CASE UNCHANGED <<settled, applied, mwLevel>>
  BY <1>1 DEF IInv
<1>2. ASSUME NEW c \in Clients, NEW level \in Levels, SetMiddlewareLevel(c, level)
      PROVE  MiddlewareInv'
  <2>1. /\ UNCHANGED <<settled, applied>> /\ mwLevel' = level
        /\ level \in Levels /\ mwLevel \in Levels /\ mwLevel <= level
    BY <1>2 DEF SetMiddlewareLevel, IInv, TypeOK, Levels, NoLock, AllLevel
  <2>2. \A i \in DOMAIN settled : Required[settled[i]] \in CommandLevels
    BY CommandsAssumption, Members DEF IInv, TypeOK
  <2>3. QED
    BY <2>1, <2>2, CanQueueMonotone DEF IInv
<1>3. CASE DrainApplies \/ \E c \in Clients : ApplyNowApplies(c)
  BY <1>3, HandOverRejects DEF DrainApplies, ApplyNowApplies
<1>4. QED
  BY <1>1, <1>2, <1>3 DEF Next, Engine, Call, Return, DrainLocks, RunCycle, QueueChecks,
     QueuePushes, SetLockLevel, ApplyNowLocks, vars

(* The three parts of the invariant hold together in every state of the    *)
(* barrier.                                                                *)
LEMMA Invariance == Spec => []IInv
<1>1. IInv /\ [Next]_vars => IInv'
  BY TypeStep, FifoStep, MiddlewareStep DEF IInv
<1>2. QED
  BY <1>1, InitInv, PTL DEF Spec

-----------------------------------------------------------------------------
(* Whoever drains, and however calls interleave: every accepted command is *)
(* handed over or still queued, in the order of acceptance.                *)
THEOREM FirstInFirstOut == Spec => []ExactlyOnceInOrder
  BY Invariance, PTL DEF IInv, FifoInv

(* Once the middleware has rejected a command it applies no later one that *)
(* requires as little, whoever drains and raises levels.                   *)
THEOREM RejectedForGood == Spec => []RejectionsStick
  BY Invariance, PTL DEF IInv, MiddlewareInv

(* At Run the queue is closed, also to the calls that checked before.      *)
THEOREM ClosedAtRun == Spec => NothingQueuedAtRun
<1>1. ASSUME IInv, [Next]_vars, accepted' # accepted PROVE engineLevel < RunLevel
  <2>1. \E c \in Clients : QueuePushes(c)
    BY <1>1 DEF Next, Engine, Call, Return, DrainLocks, DrainApplies, RunCycle, QueueChecks,
       SetLockLevel, SetMiddlewareLevel, ApplyNowLocks, ApplyNowApplies, vars
  <2>2. QED
    BY <1>1, <2>1 DEF QueuePushes, ClientGoes, IInv, FifoInv, PushInv
<1>2. IInv /\ [Next]_vars => [accepted' # accepted => engineLevel < RunLevel]_vars
  BY <1>1
<1>3. QED
  BY <1>2, Invariance, PTL DEF Spec, NothingQueuedAtRun

=============================================================================
