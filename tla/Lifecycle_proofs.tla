------------------------- MODULE Lifecycle_proofs -------------------------
(***************************************************************************)
(* The restart budget of LifecycleManager, for any set of children, any    *)
(* MAX_RETRIES and any window.                                             *)
(***************************************************************************)
EXTENDS Lifecycle, TLAPS

(* What the assumption says of the bounds. *)
LEMMA Bounds ==
  /\ MaxRetries \in Nat /\ MaxRetries >= 1
  /\ Window \in Nat
  /\ 0 \in Ages /\ Window \in Ages /\ 0 \in 0 .. MaxRetries
  /\ 1 \in Remembered /\ Remembered \subseteq Nat \ {0}
  BY RestartAssumption DEF Ages, Remembered

(* One more restart of a child below the budget stays within it. *)
LEMMA Counting ==
  \A n \in 0 .. MaxRetries : n + 0 \in 0 .. MaxRetries /\ (n < MaxRetries => n + 1 \in 0 .. MaxRetries)
  BY Bounds

(* A tick keeps an age an age. *)
LEMMA Aging == \A a \in Ages : AtMost(a + 1, Window) \in Ages
  BY RestartAssumption DEF AtMost, Ages

(* Every remembered restart but the first has one before it. *)
LEMMA Previous == \A k \in Remembered : k # 1 => k - 1 \in Remembered
  BY RestartAssumption DEF Remembered

(* Remembering one more restart drops the oldest. *)
LEMMA Remembering == \A f \in [Remembered -> Ages] : Remember(f) \in [Remembered -> Ages]
  BY Previous, Bounds DEF Remember

(* A reset or counted restart count is within the budget. *)
LEMMA CountInBudget ==
  ASSUME TypeOK, NEW c \in Children
  PROVE  CountNow(c) \in 0 .. MaxRetries
<1>1. restartCount[c] \in 0 .. MaxRetries /\ 0 \in 0 .. MaxRetries
  BY Bounds DEF TypeOK
<1>2. QED
  BY <1>1 DEF CountNow

(* A manager without children is typed and has restarted nobody. *)
LEMMA InitInv == Init => TypeOK /\ CountCovers
<1> SUFFICES ASSUME Init PROVE TypeOK /\ CountCovers
  OBVIOUS
<1>1. Window \in Ages /\ 0 \in Ages /\ 1 \in Remembered /\ Remembered \subseteq Int
  BY Bounds
<1>2. TypeOK
  <2>1. restartCount \in [Children -> 0 .. MaxRetries]
    BY Bounds DEF Init
  <2>2. recent \in [Children -> [Remembered -> Ages]]
    BY <1>1 DEF Init
  <2>3. QED
    BY <1>1, <2>1, <2>2 DEF Init, TypeOK
<1>3. CountCovers
  <2> SUFFICES ASSUME NEW c \in Children
               PROVE  /\ \A k \in Remembered : recent[c][k] = Window
                      /\ ~(restartCount[c] > 0)
                      /\ Window <= Window
    BY DEF CountCovers, NeverRestarted, OnlyCounted, LastCounted, Ordered
  <2>1. QED
    BY Bounds DEF Init
<1>4. QED
  BY <1>2, <1>3

(* No step takes a counter out of its budget or an age out of its range. *)
LEMMA TypeStep == TypeOK /\ [Next]_vars => TypeOK'
<1> SUFFICES ASSUME TypeOK, [Next]_vars PROVE TypeOK'
  OBVIOUS
<1> USE DEF TypeOK
<1>1. CASE Tick
  <2>1. age' \in [Children -> Ages]
    BY <1>1, Aging DEF Tick
  <2>2. recent' \in [Children -> [Remembered -> Ages]]
    BY <1>1, Aging DEF Tick
  <2>3. QED
    BY <1>1, <2>1, <2>2 DEF Tick
<1>2. ASSUME NEW c \in Children, Exit(c) \/ SpawnForks(c) \/ SpawnLists(c) PROVE TypeOK'
  <2>1. CASE Exit(c)
    BY <2>1 DEF Exit
  <2>2. CASE SpawnForks(c)
    BY <2>2 DEF SpawnForks
  <2>3. CASE SpawnLists(c)
    <3>1. age' \in [Children -> Ages] /\ restartCount' \in [Children -> 0 .. MaxRetries]
      BY <2>3, Bounds DEF SpawnLists
    <3>2. QED
      BY <2>3, <3>1 DEF SpawnLists
  <2>4. QED
    BY <1>2, <2>1, <2>2, <2>3
<1>3. ASSUME NEW granted \in SUBSET Children, HealthCheck(granted) PROVE TypeOK'
  <2>1. process' \in [Children -> {"none", "alive", "exited", "reaped"}]
    BY <1>3 DEF HealthCheck
  <2>2. restartCount' \in [Children -> 0 .. MaxRetries]
    <3>1. ASSUME NEW c \in Children
          PROVE  (IF c \in Exited THEN CountNow(c) + (IF c \in granted THEN 1 ELSE 0)
                  ELSE restartCount[c]) \in 0 .. MaxRetries
      <4>1. CountNow(c) \in 0 .. MaxRetries
        BY CountInBudget
      <4>2. c \in granted => CountNow(c) < MaxRetries
        BY <1>3 DEF HealthCheck, MayRestart
      <4>3. restartCount[c] \in 0 .. MaxRetries
        OBVIOUS
      <4>4. CASE c \in granted
        BY <4>1, <4>2, <4>3, <4>4, Counting
      <4>5. CASE c \notin granted
        BY <4>1, <4>3, <4>5, Counting
      <4>6. QED
        BY <4>4, <4>5
    <3>2. QED
      BY <1>3, <3>1, Zenon DEF HealthCheck
  <2>3. age' \in [Children -> Ages]
    BY <1>3, Bounds DEF HealthCheck
  <2>4. recent' \in [Children -> [Remembered -> Ages]]
    <3>1. \A f \in [Remembered -> Ages] : Remember(f) \in [Remembered -> Ages]
      BY Remembering
    <3>2. QED
      BY <1>3, <3>1 DEF HealthCheck
  <2>5. listed' \subseteq Children
    BY <1>3 DEF HealthCheck
  <2>6. QED
    BY <2>1, <2>2, <2>3, <2>4, <2>5
<1>4. CASE ShutdownAll
  BY <1>4 DEF ShutdownAll
<1>5. CASE UNCHANGED vars
  BY <1>5 DEF vars
<1>6. QED
  BY <1>1, <1>2, <1>3, <1>4, <1>5 DEF Next, Check

(* The capped successor is monotone and keeps a full age full. *)
LEMMA AgingMonotone ==
  /\ AtMost(Window + 1, Window) = Window
  /\ \A a, b \in Ages : a <= b => AtMost(a + 1, Window) <= AtMost(b + 1, Window)
  BY RestartAssumption DEF AtMost, Ages

(* The types of one child's numbers. *)
LEMMA Typed ==
  ASSUME TypeOK, NEW c \in Children
  PROVE  /\ restartCount[c] \in Nat /\ MaxRetries + 1 > restartCount[c]
         /\ age[c] \in Nat /\ (age[c] < Window \/ age[c] >= Window)
         /\ \A k \in Remembered : recent[c][k] \in Ages /\ 0 <= recent[c][k]
<1>1. \A n \in 0 .. MaxRetries : n \in Nat /\ MaxRetries + 1 > n
  BY Bounds
<1>2. \A a \in Ages : a \in Nat /\ 0 <= a /\ (a < Window \/ a >= Window)
  BY Bounds DEF Ages
<1>3. QED
  BY <1>1, <1>2 DEF TypeOK

(* A child whose count is reset has no recent restart left. *)
LEMMA ResetCovers ==
  ASSUME TypeOK, CountCovers, NEW c \in Children
  PROVE  \A k \in Remembered : k > CountNow(c) => recent[c][k] = Window
<1>1. CASE age[c] < Window
  <2>1. CountNow(c) = restartCount[c]
    BY <1>1, Typed, Bounds DEF CountNow
  <2>2. QED
    BY <2>1 DEF CountCovers, OnlyCounted
<1>2. CASE age[c] >= Window /\ restartCount[c] = 0
  BY <1>2 DEF CountNow, CountCovers, OnlyCounted
<1>3. CASE age[c] >= Window /\ restartCount[c] > 0
  <2>1. recent[c][1] = age[c]
    BY <1>3 DEF CountCovers, LastCounted
  <2>2. \A k \in Remembered : recent[c][1] <= recent[c][k]
    BY Bounds DEF CountCovers, Ordered
  <2>3. \A k \in Remembered : recent[c][k] \in Ages
    BY DEF TypeOK
  <2>4. \A k \in Remembered : recent[c][k] = Window
    BY <1>3, <2>1, <2>2, <2>3, Bounds DEF Ages
  <2>5. QED
    BY <2>4
<1>4. QED
  BY <1>1, <1>2, <1>3, Typed

(* Exits, spawns, failed spawns, ticks and checks keep the counter in step *)
(* with the restarts remembered: the one it is reset for are old by then.  *)
LEMMA CoverStep == TypeOK /\ CountCovers /\ [Next]_vars => CountCovers'
<1> SUFFICES ASSUME TypeOK, CountCovers, [Next]_vars PROVE CountCovers'
  OBVIOUS
<1>1. CASE Tick
  <2> SUFFICES ASSUME NEW c \in Children
               PROVE  /\ c \notin listed' /\ process'[c] # "reaped" => NeverRestarted(c)'
                      /\ OnlyCounted(c)' /\ LastCounted(c)' /\ Ordered(c)'
    BY DEF CountCovers
  <2>1. \A k \in Remembered : recent'[c][k] = AtMost(recent[c][k] + 1, Window)
    BY <1>1 DEF Tick
  <2>2. age'[c] = AtMost(age[c] + 1, Window)
    BY <1>1 DEF Tick
  <2>3. listed' = listed /\ process' = process /\ restartCount' = restartCount
    BY <1>1 DEF Tick
  <2>4. \A k \in Remembered : recent[c][k] \in Ages
    BY DEF TypeOK
  <2>5. c \notin listed' /\ process'[c] # "reaped" => NeverRestarted(c)'
    BY <2>1, <2>3, AgingMonotone DEF CountCovers, NeverRestarted
  <2>6. OnlyCounted(c)'
    BY <2>1, <2>3, AgingMonotone DEF CountCovers, OnlyCounted
  <2>7. LastCounted(c)'
    BY <2>1, <2>2, <2>3, Bounds DEF CountCovers, LastCounted
  <2>8. Ordered(c)'
    BY <2>1, <2>4, AgingMonotone DEF CountCovers, Ordered
  <2>9. QED
    BY <2>5, <2>6, <2>7, <2>8
<1>2. ASSUME NEW d \in Children, Exit(d) \/ SpawnForks(d) PROVE CountCovers'
  <2>1. /\ recent' = recent /\ age' = age /\ restartCount' = restartCount /\ listed' = listed
        /\ \A c \in Children : process'[c] # "reaped" => process[c] # "reaped"
    BY <1>2 DEF Exit, SpawnForks, TypeOK
  <2>2. QED
    BY <2>1 DEF CountCovers, NeverRestarted, OnlyCounted, LastCounted, Ordered
<1>3. ASSUME NEW d \in Children, SpawnLists(d) PROVE CountCovers'
  <2> SUFFICES ASSUME NEW c \in Children
               PROVE  /\ c \notin listed' /\ process'[c] # "reaped" => NeverRestarted(c)'
                      /\ OnlyCounted(c)' /\ LastCounted(c)' /\ Ordered(c)'
    BY DEF CountCovers
  <2>1. recent' = recent /\ process' = process /\ listed \subseteq listed' /\ d \in listed'
    BY <1>3 DEF SpawnLists
  <2>2. c # d => restartCount'[c] = restartCount[c] /\ age'[c] = age[c]
    BY <1>3 DEF SpawnLists, TypeOK
  <2>3. c = d => restartCount'[c] = 0 /\ NeverRestarted(c)
    BY <1>3 DEF SpawnLists, CountCovers, TypeOK
  <2>4. c \notin listed' /\ process'[c] # "reaped" => NeverRestarted(c)'
    BY <2>1 DEF CountCovers, NeverRestarted
  <2>5. OnlyCounted(c)'
    BY <2>1, <2>2, <2>3 DEF CountCovers, OnlyCounted, NeverRestarted
  <2>6. LastCounted(c)'
    BY <2>1, <2>2, <2>3 DEF CountCovers, LastCounted
  <2>7. Ordered(c)'
    BY <2>1 DEF CountCovers, Ordered
  <2>8. QED
    BY <2>4, <2>5, <2>6, <2>7
<1>4. ASSUME NEW granted \in SUBSET Children, HealthCheck(granted) PROVE CountCovers'
  <2> SUFFICES ASSUME NEW c \in Children
               PROVE  /\ c \notin listed' /\ process'[c] # "reaped" => NeverRestarted(c)'
                      /\ OnlyCounted(c)' /\ LastCounted(c)' /\ Ordered(c)'
    BY DEF CountCovers
  <2>1. listed' = listed /\ granted \subseteq listed /\ granted \subseteq Exited
    BY <1>4 DEF HealthCheck, MayRestart, Exited
  <2>2. CASE c \in granted
    <3>1. restartCount'[c] = CountNow(c) + 1 /\ age'[c] = 0 /\ recent'[c] = Remember(recent[c])
      BY <1>4, <2>1, <2>2 DEF HealthCheck
    <3>2. \A k \in Remembered : recent'[c][k] = IF k = 1 THEN 0 ELSE recent[c][k - 1]
      BY <3>1 DEF Remember
    <3>3. \A k \in Remembered : k # 1 => k - 1 \in Remembered /\ recent[c][k - 1] \in Ages
      BY Previous, Typed
    <3>4. c \in listed'
      BY <2>1, <2>2
    <3>5. OnlyCounted(c)'
      <4>1. CountNow(c) \in Nat
        BY CountInBudget, Bounds
      <4>2. ASSUME NEW k \in Remembered, k > CountNow(c) + 1 PROVE recent'[c][k] = Window
        <5>1. k # 1 /\ k - 1 > CountNow(c)
          BY <4>1, <4>2, Bounds
        <5>2. recent[c][k - 1] = Window
          BY <3>3, <5>1, ResetCovers
        <5>3. QED
          BY <3>2, <5>1, <5>2
      <4>3. QED
        BY <3>1, <4>2 DEF OnlyCounted
    <3>6. LastCounted(c)'
      BY <3>1, <3>2, Bounds DEF LastCounted
    <3>7. Ordered(c)'
      <4>1. ASSUME NEW j \in Remembered, NEW k \in Remembered, j <= k
            PROVE  recent'[c][j] <= recent'[c][k]
        <5>1. CASE j = 1
          <6>1. \A a \in Ages : 0 <= a
            BY Bounds DEF Ages
          <6>2. recent'[c][j] = 0 /\ (k = 1 => recent'[c][k] = 0)
            BY <3>2, <5>1
          <6>3. k # 1 => recent'[c][k] \in Ages
            BY <3>2, <3>3
          <6>4. QED
            BY <6>1, <6>2, <6>3, Bounds
        <5>2. CASE j # 1
          <6>1. k # 1 /\ j - 1 <= k - 1
            BY <4>1, <5>2, Bounds
          <6>2. recent[c][j - 1] <= recent[c][k - 1]
            BY <3>3, <5>2, <6>1 DEF CountCovers, Ordered
          <6>3. QED
            BY <3>2, <5>2, <6>1, <6>2
        <5>3. QED
          BY <5>1, <5>2
      <4>2. QED
        BY <4>1 DEF Ordered
    <3>8. QED
      BY <3>4, <3>5, <3>6, <3>7
  <2>3. CASE c \notin granted
    <3>1. recent'[c] = recent[c] /\ age'[c] = age[c] /\ process'[c] = process[c]
      BY <1>4, <2>3 DEF HealthCheck
    <3>2. CASE c \in Exited
      <4>1. restartCount'[c] = CountNow(c)
        <5>1. CountNow(c) \in Nat
          BY CountInBudget, Bounds
        <5>2. restartCount'[c] = CountNow(c) + 0
          BY <1>4, <2>3, <3>2, Zenon DEF HealthCheck
        <5>3. QED
          BY <5>1, <5>2
      <4>2. CountNow(c) > 0 => restartCount[c] > 0
        BY DEF CountNow
      <4>3. QED
        BY <2>1, <3>1, <4>1, <4>2, ResetCovers
           DEF CountCovers, NeverRestarted, OnlyCounted, LastCounted, Ordered
    <3>3. CASE c \notin Exited
      <4>1. restartCount'[c] = restartCount[c]
        BY <1>4, <3>3 DEF HealthCheck
      <4>2. QED
        BY <2>1, <3>1, <4>1 DEF CountCovers, NeverRestarted, OnlyCounted, LastCounted, Ordered
    <3>4. QED
      BY <3>2, <3>3
  <2>4. QED
    BY <2>2, <2>3
<1>5. CASE ShutdownAll
  <2>1. /\ recent' = recent /\ age' = age /\ restartCount' = restartCount
        /\ \A c \in Children : c \notin listed' /\ process'[c] # "reaped" =>
             c \notin listed /\ process[c] # "reaped"
    BY <1>5 DEF ShutdownAll, TypeOK
  <2>2. QED
    BY <2>1 DEF CountCovers, NeverRestarted, OnlyCounted, LastCounted, Ordered
<1>6. CASE UNCHANGED vars
  BY <1>6 DEF vars, CountCovers, NeverRestarted, OnlyCounted, LastCounted, Ordered
<1>7. QED
  BY <1>1, <1>2, <1>3, <1>4, <1>5, <1>6 DEF Next, Check

(* The two together are inductive. *)
LEMMA Invariance == Spec => [](TypeOK /\ CountCovers)
  BY InitInv, TypeStep, CoverStep, PTL DEF Spec

(* Every variable of the manager keeps its type. *)
THEOREM LifecycleTypeCorrect == Spec => []TypeOK
  BY Invariance, PTL

(* The count of a child covers the restarts the window still remembers,    *)
(* which is what the budget is compared with: no order of exits, checks    *)
(* and failed spawns loses one (ChildManager::health_check).               *)
THEOREM CountsCover == Spec => []CountCovers
  BY Invariance, PTL

(* A crash loop costs at most MaxRetries restarts in any interval shorter  *)
(* than the window, whatever the interleaving of exits, checks, failed     *)
(* spawns and shutdowns.                                                   *)
THEOREM RestartRate == Spec => []RateLimit
<1>1. TypeOK /\ CountCovers => RateLimit
  <2> SUFFICES ASSUME TypeOK, CountCovers, NEW c \in Children
               PROVE  recent[c][MaxRetries + 1] = Window
    BY DEF RateLimit
  <2>1. MaxRetries + 1 \in Remembered
    BY RestartAssumption DEF Remembered
  <2>2. MaxRetries + 1 > restartCount[c]
    BY Typed
  <2>3. QED
    BY <2>1, <2>2 DEF CountCovers, OnlyCounted
<1>2. QED
  BY <1>1, Invariance, PTL

=============================================================================
