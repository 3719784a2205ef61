------------------------------ MODULE ProbeProofs ------------------------------
(* The counters of the demo program (main.c): does what check_probe.py asks of  *)
(* them always hold?  Proved for every choice of times, and every length of the *)
(* queues and of the pool.                                                      *)
EXTENDS DemoProofs

(* What the probe asks.  The most urgent task, the consumer, runs whenever it   *)
(* can, so that the producer and it take turns in a fixed way.                  *)
Blocked(t) == state[t] = "BLOCKED"
NeverTimesOut(t) == waitResult[t] = "OK" /\ (Blocked(t) => delay[t] = 0)
AwaitsMessage == call[Consumer] # Queue!NoCall /\ Blocked(Consumer)
AwaitsMutex == want[Consumer] # <<>> /\ Blocked(Consumer)
ConsumerUrgent ==
    /\ basePriority \in [Slots -> Nat] /\ basePriority[Idle] = 0
    /\ \A t \in Slots \ {Idle} : 0 < basePriority[t]
    /\ \A t \in Slots \ {Consumer} : basePriority[t] < basePriority[Consumer]
    /\ 1 < basePriority[Consumer]
    /\ priority = [basePriority EXCEPT ![Producer] =
                      IF AwaitsMutex THEN basePriority[Consumer] ELSE @]

(* How often a task has locked the mutex, from the call it made last.           *)
LockDepth(t) ==
    IF at[t] \in {"relock", "send"} THEN 2
    ELSE IF at[t] = "unlock" \/ (at[t] = "lock" /\ want[t] = <<>>) THEN 1 ELSE 0
LocksMatch ==
    /\ owner = [m \in {AppMutex} |->
                  IF LockDepth(Producer) > 0 THEN Producer
                  ELSE IF LockDepth(Consumer) > 0 THEN Consumer ELSE NoOwner]
    /\ depth = [m \in {AppMutex} |-> LockDepth(Producer) + LockDepth(Consumer)]
    /\ LockDepth(Producer) = 0 \/ LockDepth(Consumer) = 0

(* The producer locks and sends while the consumer waits for a message, and     *)
(* unlocks while it waits for the mutex.                                        *)
Handover ==
    /\ NoArgs(Producer) /\ NeverTimesOut(Consumer)
    /\ waitType[Consumer] \notin {"SLEEP", "NOTIFICATION"}
    /\ at[Producer] \in {"start", "lock", "relock", "send", "unlock", "reunlock", "sleep"}
    /\ at[Consumer] \in {"start", "recv", "lock", "relock", "unlock", "reunlock"}
    /\ call[Consumer] # Queue!NoCall => at[Consumer] = "recv"
    /\ want[Consumer] # <<>> => at[Consumer] = "lock"
    /\ Blocked(Consumer) => AwaitsMessage \/ AwaitsMutex
    /\ at[Producer] \in {"lock", "relock"} => AwaitsMessage
    /\ AwaitsMutex => at[Producer] \in {"send", "unlock"}
    /\ at[Producer] \in {"send", "unlock"} =>
          \/ call[Consumer] # Queue!NoCall /\ ~Blocked(Consumer)
          \/ at[Consumer] = "recv" /\ call[Consumer] = Queue!NoCall
          \/ AwaitsMutex

HasMessage ==
    \/ at[Consumer] \in {"lock", "relock"}
    \/ at[Consumer] = "recv" /\ call[Consumer] = Queue!NoCall
CountsMatch ==
    /\ count = IF call[Consumer] # Queue!NoCall /\ ~Blocked(Consumer) THEN 1 ELSE 0
    /\ ahead = count + IF HasMessage THEN 1 ELSE 0
PairInv == ConsumerUrgent /\ LocksMatch /\ Handover /\ CountsMatch

(* Who runs: the consumer if it can, and the idle task if no other task can.    *)
ConsumerIsNext ==
    (~Blocked(Consumer) /\ current # Consumer) =>
        \/ pendsv \/ pc[current] \in {"kick", "block", "exit"}
        \/ current = WorkTask /\ at[Consumer] = "start"
TurnInv ==
    /\ RingHasAll /\ ConsumerIsNext
    /\ \A t \in Slots : state[t] = "RUNNING" => t = current
    /\ \A t \in Slots \ {OneShot} : state[t] # "STOPPED"
    /\ firing => inTick
    /\ AllIsQuiet => \A t \in Slots \ {Idle} : state[t] \in {"BLOCKED", "STOPPED"}

(* The timeout task locks the scheduler only while the consumer waits, and has  *)
(* a block only while it runs.                                                  *)
SchedMatches ==
    /\ lockCount = IF at[TimeoutTask] \in {"schedlock", "yield"} THEN 1 ELSE 0
    /\ lockCount # 0 => HoldsProcessor /\ current = TimeoutTask /\ Blocked(Consumer)
    /\ schedPending => lockCount # 0
PoolMatches ==
    /\ freeList \in Seq(1 .. BlockCount) /\ freeCount = Len(freeList)
    /\ IF at[TimeoutTask] = "alloc"
       THEN /\ freeCount = BlockCount - 1 /\ \E b \in 1 .. BlockCount : inUse = {b}
            /\ ~Blocked(TimeoutTask) /\ pc[TimeoutTask] = "app"
       ELSE freeCount = BlockCount /\ inUse = {}

(* The worker sleeps only when it has no work.                                  *)
WorkerTold ==
    /\ pendingItems \in Nat /\ notifyPending \in [Slots -> BOOLEAN]
    /\ NeverTimesOut(WorkTask)
    /\ Blocked(WorkTask) => pendingItems = 0 /\ waitType[WorkTask] = "NOTIFICATION"
    /\ workerAt = "await" =>
          (pendingItems = 0 \/ notifyPending[WorkTask]) /\ pc[WorkTask] = "app"

(* The slot of the one-shot task is used twice at most.                         *)
OneShotCounted ==
    \/ exits = 0 /\ reuses = 0 /\ reuseCreated = FALSE /\ at[OneShot] = "start"
    \/ exits = 1 /\ reuses = 0 /\ reuseCreated = (at[OneShot] = "start")
    \/ exits = 1 /\ reuses = 1 /\ reuseCreated = TRUE /\ at[OneShot] # "start"
AsideInv == SchedMatches /\ PoolMatches /\ WorkerTold /\ OneShotCounted /\ timeoutCount = 0
ProbeInv == PairInv /\ TurnInv /\ AsideInv

LEMMA ProbeInvMeansProbeHolds ==
    ASSUME WaitInv, ProbeInv
    PROVE  ProbeHolds
  <1>1. /\ {WorkTask, Producer, Consumer, TimeoutTask, OneShot} \subseteq Slots \ {Idle}
        /\ Idle \in Slots
    BY DemoFacts DEF WorkTask, Producer, Consumer, TimeoutTask, OneShot
  <1>2. CountersAgree
    <2>1. /\ ahead >= 0 /\ count <= 1
      BY DEF ProbeInv, PairInv, CountsMatch
    <2>2. /\ depth[AppMutex] <= 2
          /\ depth[AppMutex] = 0 <=> owner[AppMutex] = NoOwner
      BY DEF ProbeInv, PairInv, LocksMatch, LockDepth, NoOwner, Producer, Consumer
    <2>3. exits <= 1 /\ reuses <= exits
      BY DEF ProbeInv, AsideInv, OneShotCounted
    <2> QED  BY <2>1, <2>2, <2>3 DEF ProbeInv, AsideInv, CountersAgree
  <1>3. SendRaisesProducer
    <2> SUFFICES ASSUME at[Producer] = "send", pc[Producer] = "app", current = Producer, ~pendsv
                 PROVE  priority[Producer] = basePriority[Consumer]
      BY DEF SendRaisesProducer
    <2>1. Blocked(Consumer)
      BY DEF ProbeInv, TurnInv, ConsumerIsNext, Producer, Consumer, WorkTask
    <2>2. AwaitsMutex
      BY <2>1 DEF ProbeInv, PairInv, Handover, AwaitsMessage, AwaitsMutex
    <2> QED  BY <1>1, <2>2 DEF ProbeInv, PairInv, ConsumerUrgent
  <1>4. QuietMeansClean
    <2> SUFFICES ASSUME AllIsQuiet
                 PROVE  /\ freeCount = BlockCount /\ pendingItems = 0
                        /\ lockCount = 0 /\ ~schedPending
      BY DEF QuietMeansClean
    <2>1. Blocked(WorkTask) /\ Blocked(TimeoutTask) /\ current # TimeoutTask
      BY <1>1, DemoFacts
      DEF ProbeInv, TurnInv, Blocked, WorkTask, TimeoutTask, OneShot, AllIsQuiet
    <2> QED  BY <2>1 DEF ProbeInv, AsideInv, SchedMatches, PoolMatches, WorkerTold
  <1> QED  BY <1>2, <1>3, <1>4 DEF ProbeHolds
-------------------------------------------------------------------------------
(* What leaves a part of the invariant alone.                                   *)
Still(t) ==
    /\ Blocked(t)' <=> Blocked(t)
    /\ delay'[t] = delay[t] /\ waitType'[t] = waitType[t] /\ waitResult'[t] = waitResult[t]
    /\ pc[t] = "app" => pc'[t] = "app"
PairStill ==
    /\ UNCHANGED <<owner, depth, want, call, count, ahead, priority, basePriority>>
    /\ at'[Producer] = at[Producer] /\ at'[Consumer] = at[Consumer] /\ Still(Consumer)
SchedStill ==
    /\ UNCHANGED <<lockCount, schedPending>> /\ at'[TimeoutTask] = at[TimeoutTask]
PoolStill ==
    /\ UNCHANGED <<freeList, freeCount, inUse>> /\ at'[TimeoutTask] = at[TimeoutTask]
    /\ Blocked(TimeoutTask)' => Blocked(TimeoutTask)
    /\ pc[TimeoutTask] = "app" => pc'[TimeoutTask] = "app"
WorkerStill ==
    /\ UNCHANGED <<pendingItems, workerAt>> /\ Still(WorkTask)
    /\ notifyPending' \in [Slots -> BOOLEAN]
    /\ notifyPending'[WorkTask] = notifyPending[WorkTask]
OneShotStill ==
    UNCHANGED <<exits, reuses, reuseCreated>> /\ at'[OneShot] = at[OneShot]

LEMMA PairFrame ==
    ASSUME PairInv, PairStill
    PROVE  PairInv'
  <1>1. /\ AwaitsMessage' <=> AwaitsMessage
        /\ AwaitsMutex' <=> AwaitsMutex
        /\ Blocked(Consumer)' <=> Blocked(Consumer)
    BY DEF PairStill, Still, AwaitsMessage, AwaitsMutex
  <1>2. ConsumerUrgent'
    BY <1>1 DEF PairInv, PairStill, ConsumerUrgent
  <1>3. LocksMatch'
    BY DEF PairInv, PairStill, LocksMatch, LockDepth
  <1>4. Handover'
    BY <1>1 DEF PairInv, PairStill, Still, Handover, NeverTimesOut, NoArgs
  <1>5. CountsMatch'
    BY <1>1 DEF PairInv, PairStill, CountsMatch, HasMessage
  <1> QED  BY <1>2, <1>3, <1>4, <1>5 DEF PairInv

LEMMA AsideFrames ==
    /\ PoolMatches /\ PoolStill => PoolMatches'
    /\ WorkerTold /\ WorkerStill => WorkerTold'
    /\ OneShotCounted /\ OneShotStill => OneShotCounted'
  <1>1. ASSUME PoolMatches, PoolStill PROVE PoolMatches'
    BY <1>1 DEF PoolMatches, PoolStill
  <1>2. ASSUME WorkerTold, WorkerStill PROVE WorkerTold'
    BY <1>2 DEF WorkerTold, WorkerStill, Still, NeverTimesOut
  <1>3. ASSUME OneShotCounted, OneShotStill PROVE OneShotCounted'
    BY <1>3 DEF OneShotCounted, OneShotStill
  <1> QED  BY <1>1, <1>2, <1>3

(* A task makes a step: it keeps the processor until its next yield, and the    *)
(* tasks it wakes, the consumer among them or not, wait for that.               *)
Acts(c) ==
    /\ c = current /\ ~pendsv /\ pc[c] \in {"app", "resume", "retry"} /\ state[c] = "RUNNING"
    /\ UNCHANGED <<ring, current, pendsv, firing, inTick>>
OthersStay(c) ==
    /\ \A t \in Slots \ {c} : state'[t] = state[t] \/ state'[t] = "READY"
    /\ Blocked(Consumer) /\ ~Blocked(Consumer)' => pc'[c] = "kick"
    /\ state'[c] \in {"RUNNING", "BLOCKED"} \/ (c = OneShot /\ state'[c] = "STOPPED")
    /\ c # Consumer => at'[Consumer] = at[Consumer]

LEMMA TurnAfterStep ==
    ASSUME TurnInv, NEW c \in Slots \ {Idle}, Acts(c), OthersStay(c)
    PROVE  TurnInv'
  <1>1. RingHasAll'
    BY DEF TurnInv, Acts, RingHasAll, TaskCount, Tasks
  <1>2. ConsumerIsNext'
    <2>1. CASE Blocked(Consumer) /\ ~Blocked(Consumer)'
      BY <2>1 DEF Acts, OthersStay, ConsumerIsNext
    <2>2. CASE ~Blocked(Consumer) /\ c # Consumer
      BY <2>2 DEF TurnInv, Acts, OthersStay, ConsumerIsNext
    <2>3. CASE Blocked(Consumer)' \/ c = Consumer
      BY <2>3 DEF Acts, ConsumerIsNext
    <2> QED  BY <2>1, <2>2, <2>3
  <1>3. \A t \in Slots : state'[t] = "RUNNING" => t = current'
    BY DEF TurnInv, Acts, OthersStay
  <1>4. \A t \in Slots \ {OneShot} : state'[t] # "STOPPED"
    <2> SUFFICES ASSUME NEW t \in Slots \ {OneShot} PROVE state'[t] # "STOPPED"
      OBVIOUS
    <2> QED  BY DEF TurnInv, Acts, OthersStay
  <1>5. firing' => inTick'
    BY DEF TurnInv, Acts
  <1>6. ~AllIsQuiet'
    BY DEF Acts, AllIsQuiet, Idle
  <1> QED  BY <1>1, <1>2, <1>3, <1>4, <1>5, <1>6 DEF TurnInv

(* The step concerns no task but the one that makes it.                         *)
Alone(c) == \A t \in Slots \ {c} : Still(t) /\ state'[t] = state[t]
Quietly(c) ==
    \/ /\ UNCHANGED <<state, delay, waitResult>>
       /\ waitType' \in {waitType, [waitType EXCEPT ![c] = "NONE"]}
       /\ pc' = pc \/ \E point \in PCs : GoTo(point)
    \/ \E type \in WaitTypes, ms \in Nat, point \in PCs : BlockCurrent(type, ms, point)
Rests == UNCHANGED <<ring, basePriority, priority, current, pendsv, firing, inTick>>

LEMMA QuietlyAlone ==
    ASSUME WaitInv, NEW c \in Slots, c = current, Quietly(c), state[c] = "RUNNING"
    PROVE  Alone(c) /\ state'[c] \in {"RUNNING", "BLOCKED"}
  <1>1. KernelTypes
    BY DEF WaitInv, KernelInv
  <1>2. CASE /\ UNCHANGED <<state, delay, waitResult>>
             /\ waitType' \in {waitType, [waitType EXCEPT ![c] = "NONE"]}
             /\ pc' = pc \/ \E point \in PCs : GoTo(point)
    BY <1>1, <1>2 DEF KernelTypes, GoTo, Alone, Still, Blocked
  <1>3. ASSUME NEW type \in WaitTypes, NEW ms \in Nat, NEW point \in PCs,
               BlockCurrent(type, ms, point)
        PROVE  Alone(c) /\ state'[c] \in {"RUNNING", "BLOCKED"}
    BY <1>1, <1>3 DEF KernelTypes, BlockCurrent, Alone, Still, Blocked
  <1> QED  BY <1>2, <1>3 DEF Quietly

LEMMA ActsInCall ==
    ASSUME WaitInv, ~pendsv, pc[current] \in {"app", "resume", "retry"}, current # Idle, Rests
    PROVE  Acts(current) /\ current \in Slots \ {Idle} /\ state[current] = "RUNNING"
  BY CallerFacts DEF WaitInv, Acts, Rests

(* A task that is neither the producer nor the consumer makes a quiet step.     *)
LEMMA AsideStep ==
    ASSUME WaitInv, ProbeInv, NEW c \in Slots \ {Idle, Producer, Consumer}, c = current,
           ~pendsv, pc[current] \in {"app", "resume", "retry"}, Rests,
           Alone(c), state'[c] \in {"RUNNING", "BLOCKED"} \/ (c = OneShot /\ state'[c] = "STOPPED"),
           UNCHANGED <<owner, depth, want, call, count, ahead>>,
           \A t \in Slots \ {c} : at'[t] = at[t]
    PROVE  PairInv' /\ TurnInv'
  <1>1. Producer \in Slots \ {c} /\ Consumer \in Slots \ {c}
    BY DemoFacts
  <1>2. PairStill
    BY <1>1 DEF PairStill, Rests, Alone
  <1>3. Acts(c)
    BY ActsInCall
  <1>4. OthersStay(c)
    BY <1>1 DEF OthersStay, Alone, Still
  <1> QED  BY <1>2, <1>3, <1>4, PairFrame, TurnAfterStep DEF ProbeInv

LEMMA UnlockedUnlessTimeoutTask ==
    ASSUME SchedMatches, current # TimeoutTask
    PROVE  /\ lockCount = 0 /\ ~schedPending
           /\ SchedStill => SchedMatches'
  BY DEF SchedMatches, SchedStill

(* The steps of the other tasks but the timeout task.                           *)
LEMMA AsideKept ==
    ASSUME WaitInv, AsideInv, current # TimeoutTask, SchedStill, Still(TimeoutTask),
           UNCHANGED <<freeList, freeCount, inUse, timeoutCount>>,
           WorkerTold', OneShotCounted'
    PROVE  AsideInv'
  <1>1. SchedMatches'
    BY UnlockedUnlessTimeoutTask DEF AsideInv
  <1>2. PoolStill
    BY DEF PoolStill, SchedStill, Still
  <1> QED  BY <1>1, <1>2, AsideFrames DEF AsideInv

(* ... and of the producer and the consumer, who wake no task but each other.   *)
AsideVars ==
    UNCHANGED <<lockCount, schedPending, freeList, freeCount, inUse, timeoutCount,
                pendingItems, workerAt, notifyPending, exits, reuses, reuseCreated>>
LEMMA PairStepKeepsAside ==
    ASSUME WaitInv, AsideInv, NEW c \in {Producer, Consumer}, c = current, AsideVars,
           \A t \in Slots \ {Producer, Consumer} : Still(t),
           \A t \in Slots \ {c} : at'[t] = at[t]
    PROVE  AsideInv'
  <1>1. /\ {WorkTask, TimeoutTask, OneShot} \subseteq Slots \ {Producer, Consumer}
        /\ TimeoutTask \notin {Producer, Consumer} /\ {TimeoutTask, OneShot} \subseteq Slots \ {c}
    BY DemoFacts DEF WorkTask, Producer, Consumer, TimeoutTask, OneShot
  <1>2. Still(TimeoutTask) /\ Still(WorkTask) /\ SchedStill /\ OneShotStill
    BY <1>1 DEF SchedStill, OneShotStill, AsideVars
  <1>3. WorkerStill
    BY <1>2 DEF WorkerStill, AsideVars, AsideInv, WorkerTold
  <1> QED  BY <1>1, <1>2, <1>3, AsideKept, AsideFrames DEF AsideInv, AsideVars
-------------------------------------------------------------------------------
(* The producer and the consumer: what a step of theirs leaves to be shown.     *)
Wakes(c) ==
    /\ c = Producer /\ pc'[c] = "kick"
    /\ state'[Consumer] = "READY" /\ waitType'[Consumer] = "NONE"
    /\ waitResult'[Consumer] = "OK" /\ delay'[Consumer] = 0
PairMoves(c) ==
    /\ c = current /\ ~pendsv /\ pc[current] \in {"app", "resume", "retry"}
    /\ UNCHANGED <<ring, basePriority, current, pendsv, firing, inTick>>
    /\ \A t \in Slots \ {c} : at'[t] = at[t]
    /\ AsideVars
PairAlone(c) ==
    /\ \A t \in Slots \ {c, Consumer} : Still(t) /\ state'[t] = state[t]
    /\ c # Consumer => (Still(Consumer) /\ state'[Consumer] = state[Consumer]) \/ Wakes(c)
    /\ state'[c] \in {"RUNNING", "BLOCKED"}

LEMMA PairStep ==
    ASSUME WaitInv, ProbeInv, NEW c \in {Producer, Consumer}, PairMoves(c), PairAlone(c),
           PairInv'
    PROVE  ProbeInv'
  <1>1. /\ {Producer, Consumer} \subseteq Slots \ {Idle} /\ Producer # Consumer
    BY DemoFacts DEF Producer, Consumer
  <1>2. AsideInv'
    <2>1. \A t \in Slots \ {Producer, Consumer} : Still(t)
      BY DEF PairAlone
    <2> QED  BY <2>1, PairStepKeepsAside DEF PairMoves, ProbeInv
  <1>3. Acts(c)
    BY CallerFacts DEF WaitInv, Acts, PairMoves
  <1>4. OthersStay(c)
    <2>1. \A t \in Slots \ {c} : state'[t] = state[t] \/ state'[t] = "READY"
      BY <1>1 DEF PairAlone, Wakes
    <2>2. /\ Blocked(Consumer) /\ ~Blocked(Consumer)' => pc'[c] = "kick"
          /\ c # Consumer => at'[Consumer] = at[Consumer]
      BY <1>1, <1>3 DEF PairMoves, PairAlone, Wakes, Still, Acts, Blocked
    <2> QED  BY <2>1, <2>2 DEF OthersStay, PairAlone
  <1>5. TurnInv'
    BY <1>1, <1>3, <1>4, TurnAfterStep DEF ProbeInv
  <1> QED  BY <1>2, <1>5 DEF ProbeInv

(* The consumer waits while the producer runs.                                  *)
LEMMA ProducerRuns ==
    ASSUME WaitInv, ProbeInv, current = Producer, ~pendsv, pc[Producer] = "app"
    PROVE  /\ Blocked(Consumer)
           /\ at[Producer] \in {"start", "lock", "relock", "reunlock", "sleep"} => AwaitsMessage
           /\ at[Producer] \in {"send", "unlock"} => AwaitsMutex
  <1>1. Blocked(Consumer)
    BY DEF ProbeInv, TurnInv, ConsumerIsNext, Producer, Consumer, WorkTask
  <1> QED  BY <1>1 DEF ProbeInv, PairInv, Handover, AwaitsMessage, AwaitsMutex

LEMMA PairFacts ==
    ASSUME WaitInv, ProbeInv
    PROVE  /\ Producer \in Slots /\ Consumer \in Slots /\ Producer # Consumer
           /\ {Producer, Consumer} \cap {Idle, NoOwner} = {} /\ NoOwner # Producer
           /\ at \in [Slots -> Points] /\ want \in [Slots -> {<<>>, LockArgs}]
           /\ call \in [Slots -> {Queue!NoCall, SendArgs, RecvArgs}]
           /\ LockArgs # <<>> /\ RecvArgs # Queue!NoCall /\ QueueLength >= 1
           /\ want[Consumer] # <<>> => call[Consumer] = Queue!NoCall
           /\ MsToTicks(FOREVER) = 0 /\ KernelTypes
  <1>1. CallOf(Consumer)
    BY DemoFacts DEF WaitInv, Placed
  <1> QED
    BY <1>1, DemoFacts, DemoAssumption
    DEF WaitInv, KernelInv, ArgTypes, CallOf, Producer, Consumer, NoOwner, MsToTicks

(* One pass through rtos_mutex_lock_timeout(), with what the mutex is then.     *)
LocksTo(o, d) ==
    owner' = [m \in {AppMutex} |-> o] /\ depth' = [m \in {AppMutex} |-> d]
Returns == UNCHANGED <<state, delay, waitType, waitResult>>
LockPass == Mutex!Acquire(AppMutex) \/ Mutex!Relock(AppMutex) \/ Mutex!StartWait(AppMutex, FOREVER)
LEMMA LockPassEffect ==
    ASSUME WaitInv, ProbeInv, LockPass, NEW c, c = current
    PROVE  \/ /\ owner[AppMutex] = NoOwner /\ LocksTo(c, 1)
              /\ want' = [want EXCEPT ![c] = <<>>]
              /\ Returns /\ priority' = priority /\ GoTo("app")
           \/ /\ owner[AppMutex] = c /\ LocksTo(c, depth[AppMutex] + 1)
              /\ want' = want /\ Returns /\ priority' = priority /\ pc' = pc
           \/ /\ owner[AppMutex] \notin {NoOwner, c}
              /\ LocksTo(owner[AppMutex], depth[AppMutex])
              /\ want' = [want EXCEPT ![c] = LockArgs]
              /\ BlockCurrent("MUTEX", FOREVER, "block")
              /\ priority' = [priority EXCEPT ![owner[AppMutex]] =
                                 IF priority[c] > @ THEN priority[c] ELSE @]
  <1>1. /\ owner = [m \in {AppMutex} |-> owner[AppMutex]]
        /\ depth = [m \in {AppMutex} |-> depth[AppMutex]]
    BY DEF ProbeInv, PairInv, LocksMatch
  <1>2. CASE Mutex!Acquire(AppMutex)
    <2>1. /\ owner' = [owner EXCEPT ![AppMutex] = c] /\ depth' = [depth EXCEPT ![AppMutex] = 1]
          /\ owner[AppMutex] = NoOwner /\ want' = [want EXCEPT ![c] = <<>>]
          /\ Returns /\ priority' = priority /\ GoTo("app")
      BY <1>2, MutexOnKernel DEF Mutex!Acquire, Mutex!tcbVars, Returns, Mutex!NoOwner, NoOwner
    <2> QED  BY <1>1, <2>1 DEF LocksTo
  <1>3. CASE Mutex!Relock(AppMutex)
    <2>1. /\ owner' = owner /\ depth' = [depth EXCEPT ![AppMutex] = @ + 1]
          /\ owner[AppMutex] = c /\ want' = want
          /\ Returns /\ priority' = priority /\ pc' = pc
      BY <1>3, MutexOnKernel DEF Mutex!Relock, Mutex!tcbVars, Returns
    <2> QED  BY <1>1, <2>1 DEF LocksTo
  <1>4. CASE Mutex!StartWait(AppMutex, FOREVER)
    <2>1. /\ owner' = owner /\ depth' = depth
          /\ owner[AppMutex] \notin {NoOwner, c}
          /\ want' = [want EXCEPT ![c] = LockArgs]
          /\ BlockCurrent("MUTEX", FOREVER, "block")
          /\ priority' = [priority EXCEPT ![owner[AppMutex]] =
                             IF priority[c] > @ THEN priority[c] ELSE @]
      BY <1>4, MutexOnKernel
      DEF Mutex!StartWait, Mutex!Higher, LockArgs, Mutex!NoOwner, NoOwner
    <2>2. LocksTo(owner[AppMutex], depth[AppMutex])
      BY <1>1, <2>1 DEF LocksTo
    <2> QED  BY <2>1, <2>2
  <1> QED  BY <1>2, <1>3, <1>4 DEF LockPass

(* Nobody but the consumer ever waits for the mutex or for the queue.           *)
PairPlaces == {"mutex", "recv", "send"}
LEMMA PairWaiter ==
    ASSUME WaitInv, ProbeInv, NEW p \in PairPlaces
    PROVE  /\ lists[p] \in Seq(Tasks)
           /\ IF Blocked(Consumer) /\ Place(Consumer) = p
              THEN ~NobodyWaits(lists[p]) /\ Chosen(lists[p]) = Consumer
              ELSE NobodyWaits(lists[p])
  <1>1. /\ Listed(lists[p], p) /\ Tasks = Slots /\ Consumer \in Slots
        /\ NoArgs(Producer) /\ waitResult[Consumer] = "OK"
    BY DemoFacts, TasksAreSlots
    DEF WaitInv, KernelInv, AllListed, Places, PairPlaces, ProbeInv, PairInv, Handover,
        NeverTimesOut
  <1>2. ASSUME ~NobodyWaits(lists[p])
        PROVE  Chosen(lists[p]) = Consumer /\ Blocked(Consumer) /\ Place(Consumer) = p
    <2>1. PICK t : t = Chosen(lists[p])
      OBVIOUS
    <2>2. t \in Slots /\ StillWaiting(t) /\ Linked(lists[p], t)
      BY <1>1, <1>2, <2>1, ChosenWaits DEF WaitInv, Listed
    <2>3. Place(t) = p /\ CallOf(t)
      BY <1>1, <2>2 DEF Listed, WaitInv, Placed
    <2>4. t = Consumer
      BY <1>1, <2>3 DEF Place, CallOf, NoArgs, PairPlaces
    <2> QED  BY <2>1, <2>2, <2>3, <2>4 DEF StillWaiting, Blocked
  <1>3. ASSUME Blocked(Consumer), Place(Consumer) = p
        PROVE  ~NobodyWaits(lists[p])
    <2>1. StillWaiting(Consumer) /\ Linked(lists[p], Consumer)
      BY <1>1, <1>3 DEF StillWaiting, Blocked, Listed
    <2>2. Popped(WaitPop(lists[p], Waiting), lists[p])
      BY <1>1, PopLinks DEF Listed
    <2> QED  BY <1>1, <2>1, <2>2 DEF Popped
  <1>4. lists[p] \in Seq(Tasks)
    BY <1>1 DEF Listed
  <1> QED  BY <1>2, <1>3, <1>4

LEMMA ConsumerPlace ==
    ASSUME WaitInv, ProbeInv, Blocked(Consumer)
    PROVE  /\ AwaitsMessage \/ AwaitsMutex
           /\ AwaitsMessage => Place(Consumer) = "recv" /\ want[Consumer] = <<>>
           /\ AwaitsMutex => Place(Consumer) = "mutex" /\ call[Consumer] = Queue!NoCall
  <1>1. Placed(Consumer) /\ Producer # Consumer
    BY DemoFacts DEF WaitInv, Producer, Consumer
  <1>2. /\ InWaitCode(Consumer) /\ CallOf(Consumer)
        /\ AwaitsMessage \/ AwaitsMutex
    BY <1>1 DEF Placed, Blocked, Place, ProbeInv, PairInv, Handover
  <1>3. ASSUME AwaitsMessage
        PROVE  Place(Consumer) = "recv" /\ want[Consumer] = <<>>
    BY <1>1, <1>2, <1>3, DemoFacts DEF AwaitsMessage, CallOf, Place
  <1>4. ASSUME AwaitsMutex
        PROVE  Place(Consumer) = "mutex" /\ call[Consumer] = Queue!NoCall
    BY <1>2, <1>4 DEF AwaitsMutex, CallOf, Place
  <1> QED  BY <1>2, <1>3, <1>4

(* The ways in which a pass of the producer or the consumer through a call ends. *)
LEMMA PairReturns ==
    ASSUME WaitInv, NEW c \in {Producer, Consumer}, c = current, state[c] = "RUNNING",
           Returns, pc' = pc \/ \E point \in PCs : GoTo(point)
    PROVE  /\ PairAlone(c) /\ state'[c] = "RUNNING"
           /\ \A t \in Slots \ {c} : Still(t) /\ state'[t] = state[t]
  <1>1. KernelTypes /\ c \in Slots /\ Consumer \in Slots
    BY DemoFacts DEF WaitInv, KernelInv
  <1>2. \A t \in Slots \ {c} : Still(t) /\ state'[t] = state[t]
    BY <1>1 DEF Still, Returns, Blocked, KernelTypes, GoTo
  <1>3. state'[c] = "RUNNING"
    BY DEF Returns
  <1> QED  BY <1>1, <1>2, <1>3 DEF PairAlone

LEMMA PairBlocks ==
    ASSUME WaitInv, NEW c \in {Producer, Consumer}, c = current, state[c] = "RUNNING",
           NEW type, NEW ms, NEW point, BlockCurrent(type, ms, point)
    PROVE  /\ PairAlone(c) /\ state'[c] = "BLOCKED" /\ delay'[c] = MsToTicks(ms)
           /\ waitType'[c] = type /\ waitResult'[c] = "OK"
           /\ \A t \in Slots \ {c} : Still(t) /\ state'[t] = state[t]
  <1>1. KernelTypes /\ c \in Slots /\ Consumer \in Slots
    BY DemoFacts DEF WaitInv, KernelInv
  <1>2. \A t \in Slots \ {c} : Still(t) /\ state'[t] = state[t]
    BY <1>1 DEF Still, BlockCurrent, Blocked, KernelTypes
  <1>3. /\ state'[c] = "BLOCKED" /\ delay'[c] = MsToTicks(ms)
        /\ waitType'[c] = type /\ waitResult'[c] = "OK"
    BY <1>1 DEF BlockCurrent, KernelTypes
  <1> QED  BY <1>1, <1>2, <1>3 DEF PairAlone

LEMMA PairWakes ==
    ASSUME WaitInv, ProbeInv, NEW p \in PairPlaces, NEW c \in {Producer, Consumer},
           c = current, state[c] = "RUNNING",
           WakeFirst(lists[p]), ReturnAfterWake(lists[p])
    PROVE  /\ PairAlone(c) /\ state'[c] = "RUNNING"
           /\ IF Blocked(Consumer) /\ Place(Consumer) = p
              THEN Wakes(c) ELSE Returns /\ GoTo("app")
  <1>1. KernelTypes /\ c \in Slots /\ Consumer \in Slots
    BY DemoFacts DEF WaitInv, KernelInv
  <1>2. CASE Blocked(Consumer) /\ Place(Consumer) = p
    <2>1. WakeTask(Consumer) /\ GoTo("kick") /\ c = Producer /\ c # Consumer
      BY <1>2, PairWaiter DEF WakeFirst, ReturnAfterWake, Chosen, Blocked
    <2>2. Wakes(c)
      BY <1>1, <2>1 DEF Wakes, WakeTask, GoTo, KernelTypes
    <2>3. \A t \in Slots \ {c, Consumer} : Still(t) /\ state'[t] = state[t]
      BY <1>1, <2>1 DEF Still, WakeTask, GoTo, Blocked, KernelTypes
    <2>4. state'[c] = "RUNNING"
      BY <1>1, <2>1 DEF WakeTask, KernelTypes
    <2> QED  BY <1>2, <2>2, <2>3, <2>4 DEF PairAlone
  <1>3. CASE ~(Blocked(Consumer) /\ Place(Consumer) = p)
    <2>1. Returns /\ GoTo("app") /\ "app" \in PCs
      BY <1>3, PairWaiter DEF WakeFirst, ReturnAfterWake, tcbVars, Returns, PCs
    <2> QED  BY <1>3, <2>1, PairReturns
  <1> QED  BY <1>2, <1>3

(* A step of the producer that leaves the consumer alone.                       *)
LEMMA ProducerAlone ==
    ASSUME WaitInv, ProbeInv, NEW to \in Points, at' = [at EXCEPT ![Producer] = to],
           UNCHANGED <<want, call, count, ahead, priority, basePriority>>, Still(Consumer),
           to \in {"lock", "relock", "send", "unlock", "reunlock", "sleep"},
           to \in {"lock", "relock"} => AwaitsMessage,
           IF to \in {"send", "unlock"} THEN AwaitsMutex ELSE ~AwaitsMutex,
           LockDepth(Consumer) = 0, NEW o, NEW d, d = LockDepth(Producer)', LocksTo(o, d),
           (d > 0 /\ o = Producer) \/ (d = 0 /\ o = NoOwner)
    PROVE  PairInv'
  <1>1. /\ at'[Producer] = to /\ at'[Consumer] = at[Consumer]
        /\ AwaitsMessage' <=> AwaitsMessage
        /\ AwaitsMutex' <=> AwaitsMutex
        /\ Blocked(Consumer)' <=> Blocked(Consumer)
    BY PairFacts DEF Still, AwaitsMessage, AwaitsMutex
  <1>2. ConsumerUrgent'
    BY <1>1 DEF ProbeInv, PairInv, ConsumerUrgent
  <1>3. LocksMatch'
    <2>1. LockDepth(Consumer)' = 0
      BY <1>1 DEF LockDepth
    <2>2. d \in {0, 1, 2}
      BY DEF LockDepth
    <2> HIDE DEF LockDepth
    <2>3. (LockDepth(Producer) + LockDepth(Consumer))' = d
      BY <2>1, <2>2
    <2> QED  BY <2>1, <2>2, <2>3 DEF LocksMatch, LocksTo
  <1>4. Handover'
    BY <1>1 DEF ProbeInv, PairInv, Still, Handover, NeverTimesOut, NoArgs
  <1>5. CountsMatch'
    BY <1>1 DEF ProbeInv, PairInv, CountsMatch, HasMessage
  <1> QED  BY <1>2, <1>3, <1>4, <1>5 DEF PairInv

(* ... one that locks the mutex, which the consumer then does not own.          *)
LEMMA ProducerLocks ==
    ASSUME WaitInv, ProbeInv, current = Producer, NEW from, NEW to,
           \/ from \in {"start", "sleep"} /\ to = "lock"
           \/ from = "lock" /\ to = "relock",
           Proceed(Producer, from, to), Lock, UNCHANGED counters
    PROVE  PairInv' /\ PairAlone(Producer)
  <1>1. /\ InApp /\ LockPass /\ state[current] = "RUNNING"
        /\ UNCHANGED <<call, count, ahead, basePriority>>
        /\ at[Producer] = from /\ at' = [at EXCEPT ![Producer] = to] /\ to \in Points
    BY MutexOnKernel, CallerFacts
    DEF Lock, OnMutex, Mutex!Lock, LockPass, queueVars, counters, Mutex!ringVars, Proceed,
        WaitInv, InApp, Points
  <1>2. AwaitsMessage
    BY <1>1, ProducerRuns DEF InApp
  <1>3. /\ at[Consumer] = "recv" /\ LockDepth(Consumer) = 0
        /\ want[Producer] = <<>> /\ ~AwaitsMutex
    BY <1>2, PairFacts
    DEF ProbeInv, PairInv, Handover, AwaitsMessage, AwaitsMutex, LockDepth, NoArgs
  <1>4. /\ LockDepth(Producer) = IF to = "lock" THEN 0 ELSE 1
        /\ LockDepth(Producer)' = LockDepth(Producer) + 1 \/ want'[Producer] # <<>>
    BY <1>1, <1>3, PairFacts DEF LockDepth
  <1>5. /\ owner[AppMutex] = IF to = "lock" THEN NoOwner ELSE Producer
        /\ depth[AppMutex] = LockDepth(Producer)
    BY <1>3, <1>4 DEF ProbeInv, PairInv, LocksMatch
  <1>6. /\ LocksTo(Producer, LockDepth(Producer) + 1) /\ want' = want /\ Returns
        /\ priority' = priority /\ (GoTo("app") \/ pc' = pc)
    <2>1. [want EXCEPT ![Producer] = <<>>] = want
      BY <1>3, PairFacts
    <2>2. to = "lock" \/ to = "relock"
      OBVIOUS
    <2> QED  BY <1>1, <1>4, <1>5, <2>1, <2>2, LockPassEffect, PairFacts
  <1>7. PairAlone(Producer) /\ Still(Consumer)
    BY <1>1, <1>6, PairReturns, PairFacts DEF PCs
  <1>8. LockDepth(Producer)' > 0 /\ LocksTo(Producer, LockDepth(Producer)')
    BY <1>3, <1>4, <1>6
  <1> QED  BY <1>1, <1>2, <1>3, <1>6, <1>7, <1>8, ProducerAlone

LEMMA UnlockEffect ==
    ASSUME WaitInv, ProbeInv, Mutex!Unlock(AppMutex), NEW c, c = current
    PROVE  /\ owner[AppMutex] = c /\ InApp /\ want' = want /\ basePriority' = basePriority
           /\ UNCHANGED <<ring, switched, lockCount, schedPending, current, pendsv>>
           /\ \/ /\ depth[AppMutex] > 1 /\ LocksTo(c, depth[AppMutex] - 1)
                 /\ Returns /\ pc' = pc /\ priority' = priority
              \/ /\ depth[AppMutex] = 1 /\ LocksTo(NoOwner, 0)
                 /\ priority' = [priority EXCEPT ![c] = basePriority[c]]
                 /\ WakeFirst(lists["mutex"]) /\ ReturnAfterWake(lists["mutex"])
  <1>1. /\ owner = [m \in {AppMutex} |-> owner[AppMutex]]
        /\ depth = [m \in {AppMutex} |-> depth[AppMutex]]
    BY DEF ProbeInv, PairInv, LocksMatch
  <1>2. /\ owner[AppMutex] = c /\ InApp /\ want' = want /\ basePriority' = basePriority
        /\ UNCHANGED <<ring, switched, lockCount, schedPending, current, pendsv>>
        /\ Mutex!UnlockInner(AppMutex) \/ Mutex!UnlockOuter(AppMutex)
    BY MutexOnKernel DEF Mutex!Unlock, Mutex!ringVars, Mutex!lockVars
  <1>3. CASE Mutex!UnlockInner(AppMutex)
    <2>1. /\ depth[AppMutex] > 1 /\ depth' = [depth EXCEPT ![AppMutex] = @ - 1]
          /\ owner' = owner /\ Returns /\ pc' = pc /\ priority' = priority
      BY <1>3 DEF Mutex!UnlockInner, Mutex!tcbVars, Returns
    <2>2. LocksTo(c, depth[AppMutex] - 1)
      BY <1>1, <1>2, <2>1 DEF LocksTo
    <2> QED  BY <1>2, <2>1, <2>2
  <1>4. CASE Mutex!UnlockOuter(AppMutex)
    <2>1. /\ depth[AppMutex] = 1 /\ depth' = [depth EXCEPT ![AppMutex] = 0]
          /\ owner' = [owner EXCEPT ![AppMutex] = NoOwner]
          /\ priority' = [priority EXCEPT ![c] = basePriority[c]]
          /\ WakeFirst(mutexWaiters[AppMutex]) /\ ReturnAfterWake(mutexWaiters[AppMutex])
      BY <1>4, MutexOnKernel DEF Mutex!UnlockOuter, Mutex!NoOwner, NoOwner
    <2>2. LocksTo(NoOwner, 0)
      BY <1>1, <2>1 DEF LocksTo
    <2>3. lists["mutex"] = mutexWaiters[AppMutex]
      BY ListsByPlace
    <2> QED  BY <1>2, <2>1, <2>2, <2>3
  <1> QED  BY <1>2, <1>3, <1>4

LEMMA ProducerUnlocksOnce ==
    ASSUME WaitInv, ProbeInv, current = Producer,
           Proceed(Producer, "send", "unlock"), Unlock, UNCHANGED counters
    PROVE  PairInv' /\ PairAlone(Producer)
  <1>1. /\ InApp /\ state[current] = "RUNNING" /\ Mutex!Unlock(AppMutex)
        /\ UNCHANGED <<call, count, ahead>>
        /\ at[Producer] = "send" /\ at' = [at EXCEPT ![Producer] = "unlock"]
    BY UnlockEffect, CallerFacts
    DEF Unlock, OnMutex, queueVars, counters, Proceed, WaitInv, InApp
  <1>2. AwaitsMutex
    BY <1>1, ProducerRuns DEF InApp
  <1>3. LockDepth(Consumer) = 0 /\ want[Producer] = <<>> /\ LockDepth(Producer) = 2
    BY <1>1, <1>2 DEF ProbeInv, PairInv, LocksMatch, LockDepth, AwaitsMutex, Handover, NoArgs
  <1>4. owner[AppMutex] = Producer /\ depth[AppMutex] = 2
    BY <1>3 DEF ProbeInv, PairInv, LocksMatch
  <1>5. /\ LocksTo(Producer, 1) /\ Returns /\ pc' = pc /\ priority' = priority
        /\ UNCHANGED <<want, basePriority>>
    BY <1>1, <1>4, UnlockEffect
  <1>6. PairAlone(Producer) /\ Still(Consumer)
    BY <1>1, <1>5, PairReturns, PairFacts
  <1>7. LockDepth(Producer)' = 1 /\ "unlock" \in Points
    BY <1>1, PairFacts DEF LockDepth, Points
  <1>8. PICK to : to = "unlock" /\ to \in Points
    BY <1>7
  <1>9. /\ at' = [at EXCEPT ![Producer] = to] /\ LockDepth(Consumer) = 0
        /\ UNCHANGED <<want, call, count, ahead, priority, basePriority>>
    BY <1>1, <1>3, <1>5, <1>8
  <1>10. PICK d : d = 1 /\ d = LockDepth(Producer)' /\ LocksTo(Producer, d)
    BY <1>5, <1>7
  <1>11. /\ to \in {"lock", "relock", "send", "unlock", "reunlock", "sleep"}
         /\ to \in {"lock", "relock"} => AwaitsMessage
         /\ IF to \in {"send", "unlock"} THEN AwaitsMutex ELSE ~AwaitsMutex
         /\ d > 0
    BY <1>2, <1>8, <1>10
  <1> QED  BY <1>6, <1>8, <1>9, <1>10, <1>11, ProducerAlone

(* The outer unlock hands the mutex to the consumer, if it waits for it.        *)
LEMMA ProducerUnlocks ==
    ASSUME WaitInv, ProbeInv, current = Producer,
           Proceed(Producer, "unlock", "reunlock"), Unlock, UNCHANGED counters
    PROVE  PairInv' /\ PairAlone(Producer)
  <1>1. /\ InApp /\ state[current] = "RUNNING" /\ Mutex!Unlock(AppMutex)
        /\ UNCHANGED <<call, count, ahead>>
        /\ at[Producer] = "unlock" /\ at' = [at EXCEPT ![Producer] = "reunlock"]
    BY UnlockEffect, CallerFacts
    DEF Unlock, OnMutex, queueVars, counters, Proceed, WaitInv, InApp
  <1>2. AwaitsMutex /\ Blocked(Consumer)
    BY <1>1, ProducerRuns DEF InApp
  <1>3. LockDepth(Consumer) = 0 /\ want[Producer] = <<>> /\ LockDepth(Producer) = 1
    BY <1>1, <1>2 DEF ProbeInv, PairInv, LocksMatch, LockDepth, AwaitsMutex, Handover, NoArgs
  <1>4. owner[AppMutex] = Producer /\ depth[AppMutex] = 1
    BY <1>3 DEF ProbeInv, PairInv, LocksMatch
  <1>5. /\ LocksTo(NoOwner, 0) /\ UNCHANGED <<want, basePriority>>
        /\ priority' = [priority EXCEPT ![Producer] = basePriority[Producer]]
        /\ WakeFirst(lists["mutex"]) /\ ReturnAfterWake(lists["mutex"])
    BY <1>1, <1>4, UnlockEffect
  <1>6. PairAlone(Producer) /\ Wakes(Producer)
    BY <1>1, <1>2, <1>5, PairWakes, ConsumerPlace, PairFacts DEF PairPlaces
  <1>7. /\ at'[Producer] = "reunlock" /\ at'[Consumer] = at[Consumer]
        /\ ~Blocked(Consumer)' /\ ~AwaitsMutex' /\ ~AwaitsMessage'
        /\ waitResult'[Consumer] = "OK" /\ waitType'[Consumer] \notin {"SLEEP", "NOTIFICATION"}
    BY <1>1, <1>6, PairFacts DEF Wakes, Blocked, AwaitsMutex, AwaitsMessage
  <1>8. ConsumerUrgent'
    <2>1. priority' = basePriority
      BY <1>2, <1>5, PairFacts DEF ProbeInv, PairInv, ConsumerUrgent
    <2> QED  BY <1>5, <1>7, <2>1, PairFacts DEF ProbeInv, PairInv, ConsumerUrgent
  <1>9. LocksMatch'
    <2>1. LockDepth(Consumer)' = 0 /\ LockDepth(Producer)' = 0
      BY <1>1, <1>3, <1>5, <1>7 DEF LockDepth
    <2> HIDE DEF LockDepth
    <2> QED  BY <1>5, <2>1 DEF LocksMatch, LocksTo
  <1>10. at[Consumer] = "lock" /\ call[Consumer] = Queue!NoCall
    BY <1>2, ConsumerPlace DEF ProbeInv, PairInv, Handover, AwaitsMutex
  <1>11. Handover'
    BY <1>1, <1>5, <1>7, <1>10
    DEF ProbeInv, PairInv, Handover, NeverTimesOut, NoArgs
  <1>12. CountsMatch'
    BY <1>1, <1>7, <1>10 DEF ProbeInv, PairInv, CountsMatch, HasMessage
  <1> QED  BY <1>6, <1>8, <1>9, <1>11, <1>12 DEF PairInv

LEMMA ProducerSleeps ==
    ASSUME WaitInv, ProbeInv, current = Producer,
           Proceed(Producer, "reunlock", "sleep"), OnKernel(Sleep(SendPeriod)),
           UNCHANGED counters
    PROVE  PairInv' /\ PairAlone(Producer)
  <1>1. /\ InApp /\ state[current] = "RUNNING"
        /\ BlockCurrent("SLEEP", SendPeriod, "kick")
        /\ UNCHANGED <<owner, depth, want, call, count, ahead, priority, basePriority>>
        /\ at[Producer] = "reunlock" /\ at' = [at EXCEPT ![Producer] = "sleep"]
    BY CallerFacts
    DEF OnKernel, OnWork, mutexVars, queueVars, counters, Proceed, Sleep, ringVars,
        WaitInv, InApp
  <1>2. PairAlone(Producer) /\ Still(Consumer)
    BY <1>1, PairBlocks, PairFacts
  <1>3. AwaitsMessage
    BY <1>1, ProducerRuns DEF InApp
  <1>4. ~AwaitsMutex /\ LockDepth(Consumer) = 0 /\ want[Producer] = <<>>
    BY <1>3, PairFacts
    DEF ProbeInv, PairInv, Handover, AwaitsMessage, AwaitsMutex, LockDepth, NoArgs
  <1>5. LockDepth(Producer)' = 0 /\ LockDepth(Producer) = 0 /\ "sleep" \in Points
    BY <1>1, <1>4, PairFacts DEF LockDepth, Points
  <1>6. LocksTo(NoOwner, 0)
    BY <1>1, <1>4, <1>5 DEF ProbeInv, PairInv, LocksMatch, LocksTo
  <1> QED  BY <1>1, <1>2, <1>3, <1>4, <1>5, <1>6, ProducerAlone

(* One pass through a send that finds room, or through a receive.               *)
LEMMA SendEffect ==
    ASSUME Queue!Pass(SendArgs), count < QueueLength, NEW c, c = current
    PROVE  /\ count' = count + 1 /\ call' = [call EXCEPT ![c] = Queue!NoCall]
           /\ WakeFirst(lists["recv"]) /\ ReturnAfterWake(lists["recv"])
  <1>1. Queue!Enqueue(Message) /\ Queue!FinishCall(recvWaiters)
    <2>1. ~(count = QueueLength)
      BY DemoAssumption
    <2> QED  BY <2>1, DemoFacts, QueueOnKernel DEF Queue!Pass, Queue!SendPass
  <1>2. lists["recv"] = recvWaiters
    BY ListsByPlace
  <1> QED  BY <1>1, <1>2, QueueOnKernel DEF Queue!Enqueue, Queue!FinishCall

LEMMA RecvEffect ==
    ASSUME Queue!Pass(RecvArgs), NEW c, c = current
    PROVE  \/ /\ count > 0 /\ count' = count - 1
              /\ call' = [call EXCEPT ![c] = Queue!NoCall]
              /\ WakeFirst(lists["send"]) /\ ReturnAfterWake(lists["send"])
           \/ /\ count = 0 /\ count' = count
              /\ call' = [call EXCEPT ![c] = RecvArgs]
              /\ BlockCurrent("QUEUE", FOREVER, "block")
  <1>1. \/ Queue!Dequeue /\ Queue!FinishCall(sendWaiters)
        \/ count = 0 /\ Queue!StartWait(RecvArgs)
    BY DemoFacts, QueueOnKernel DEF Queue!Pass, Queue!RecvPass
  <1>2. lists["send"] = sendWaiters
    BY ListsByPlace
  <1>3. CASE Queue!Dequeue /\ Queue!FinishCall(sendWaiters)
    BY <1>2, <1>3, QueueOnKernel DEF Queue!Dequeue, Queue!FinishCall
  <1>4. CASE count = 0 /\ Queue!StartWait(RecvArgs)
    BY <1>4, DemoFacts, QueueOnKernel DEF Queue!StartWait
  <1> QED  BY <1>1, <1>3, <1>4

(* The message wakes the consumer, which will find it.                          *)
LEMMA ProducerSends ==
    ASSUME WaitInv, ProbeInv, current = Producer,
           Proceed(Producer, "relock", "send"), OnQueue(Queue!Call(SendArgs)),
           ahead' = ahead + 1
    PROVE  PairInv' /\ PairAlone(Producer)
  <1>1. /\ InApp /\ state[current] = "RUNNING" /\ Queue!Pass(SendArgs)
        /\ UNCHANGED <<owner, depth, want, priority, basePriority>>
        /\ at[Producer] = "relock" /\ at' = [at EXCEPT ![Producer] = "send"]
    BY QueueOnKernel, CallerFacts
    DEF OnQueue, mutexVars, Proceed, Queue!Call, Queue!ringVars, WaitInv, InApp
  <1>2. AwaitsMessage /\ Blocked(Consumer)
    BY <1>1, ProducerRuns DEF InApp
  <1>3. /\ at[Consumer] = "recv" /\ call[Consumer] # Queue!NoCall
        /\ want[Consumer] = <<>> /\ want[Producer] = <<>> /\ call[Producer] = Queue!NoCall
    BY <1>2, PairFacts DEF ProbeInv, PairInv, Handover, AwaitsMessage, NoArgs
  <1>4. count = 0 /\ ahead = 0 /\ count < QueueLength
    <2>1. count = 0
      BY <1>2, <1>3 DEF ProbeInv, PairInv, CountsMatch
    <2>2. ahead = count + 0
      BY <1>1, <1>3 DEF ProbeInv, PairInv, CountsMatch, HasMessage
    <2>3. QueueLength \in Nat \ {0}
      BY DemoAssumption
    <2> QED  BY <2>1, <2>2, <2>3
  <1>5. /\ count' = 1 /\ ahead' = 1 /\ call' = [call EXCEPT ![Producer] = Queue!NoCall]
        /\ WakeFirst(lists["recv"]) /\ ReturnAfterWake(lists["recv"])
    <2>1. /\ count' = count + 1 /\ call' = [call EXCEPT ![Producer] = Queue!NoCall]
          /\ WakeFirst(lists["recv"]) /\ ReturnAfterWake(lists["recv"])
      BY <1>1, <1>4, SendEffect
    <2>2. count' = 1 /\ ahead' = 1
      BY <1>4, <2>1
    <2> QED  BY <2>1, <2>2
  <1>6. PairAlone(Producer) /\ Wakes(Producer)
    BY <1>1, <1>2, <1>5, PairWakes, ConsumerPlace, PairFacts DEF PairPlaces
  <1>7. /\ at'[Producer] = "send" /\ at'[Consumer] = at[Consumer]
        /\ call'[Producer] = Queue!NoCall /\ call'[Consumer] = call[Consumer]
        /\ ~Blocked(Consumer)' /\ ~AwaitsMutex' /\ ~AwaitsMessage'
        /\ waitResult'[Consumer] = "OK" /\ waitType'[Consumer] \notin {"SLEEP", "NOTIFICATION"}
    BY <1>1, <1>5, <1>6, PairFacts DEF Wakes, Blocked, AwaitsMutex, AwaitsMessage
  <1>8. ConsumerUrgent'
    <2>1. priority' = basePriority /\ ~AwaitsMutex
      BY <1>1, <1>3, PairFacts DEF ProbeInv, PairInv, ConsumerUrgent, AwaitsMutex
    <2> QED  BY <1>1, <1>7, <2>1, PairFacts DEF ProbeInv, PairInv, ConsumerUrgent
  <1>9. LocksMatch'
    <2>1. /\ LockDepth(Consumer) = 0 /\ LockDepth(Producer) = 2
          /\ LockDepth(Consumer)' = 0 /\ LockDepth(Producer)' = 2
      BY <1>1, <1>3, <1>7 DEF LockDepth
    <2> HIDE DEF LockDepth
    <2> QED  BY <1>1, <2>1 DEF ProbeInv, PairInv, LocksMatch
  <1>10. Handover'
    BY <1>1, <1>3, <1>7
    DEF ProbeInv, PairInv, Handover, NeverTimesOut, NoArgs
  <1>11. CountsMatch'
    BY <1>3, <1>5, <1>7 DEF CountsMatch, HasMessage
  <1> QED  BY <1>6, <1>8, <1>9, <1>10, <1>11 DEF PairInv

LEMMA ProducerKeepsProbe ==
    ASSUME WaitInv, ProbeInv, Produce, UNCHANGED timerVars
    PROVE  ProbeInv'
  <1>1. PairInv' /\ PairAlone(Producer)
    <2>1. CASE /\ Proceed(Producer, "start", "lock") \/ Proceed(Producer, "sleep", "lock")
               /\ Lock /\ UNCHANGED counters
      BY <2>1, ProducerLocks DEF Proceed
    <2>2. CASE Proceed(Producer, "lock", "relock") /\ Lock /\ UNCHANGED counters
      BY <2>2, ProducerLocks DEF Proceed
    <2>3. CASE /\ Proceed(Producer, "relock", "send")
               /\ OnQueue(Queue!Call([op |-> "send", ms |-> FOREVER, msg |-> Message]))
               /\ ahead' = ahead + 1
      <3>1. OnQueue(Queue!Call(SendArgs))
        BY <2>3 DEF SendArgs
      <3> QED  BY <2>3, <3>1, ProducerSends DEF Proceed
    <2>4. CASE Proceed(Producer, "send", "unlock") /\ Unlock /\ UNCHANGED counters
      BY <2>4, ProducerUnlocksOnce DEF Proceed
    <2>5. CASE Proceed(Producer, "unlock", "reunlock") /\ Unlock /\ UNCHANGED counters
      BY <2>5, ProducerUnlocks DEF Proceed
    <2>6. CASE /\ Proceed(Producer, "reunlock", "sleep") /\ OnKernel(Sleep(SendPeriod))
               /\ UNCHANGED counters
      BY <2>6, ProducerSleeps DEF Proceed
    <2> QED  BY <2>1, <2>2, <2>3, <2>4, <2>5, <2>6 DEF Produce
  <1>2. PairMoves(Producer)
    <2>1. /\ current = Producer /\ \A t \in Slots \ {Producer} : at'[t] = at[t]
          /\ UNCHANGED <<exits, reuses, reuseCreated>>
      BY PairFacts DEF Produce, Proceed, counters
    <2>2. /\ InApp
          /\ UNCHANGED <<ring, basePriority, lockCount, schedPending, current, pendsv>>
          /\ UNCHANGED <<semVars, poolVars, notifyVars, workVars>>
      <3>1. CASE Lock
        BY <3>1, MutexOnKernel
        DEF Lock, OnMutex, Mutex!Lock, Mutex!ringVars, Mutex!lockVars
      <3>2. CASE Unlock
        BY <3>2, UnlockEffect DEF Unlock, OnMutex, Mutex!Unlock, Mutex!ringVars
      <3>3. ASSUME NEW k, OnQueue(Queue!Call(k))
            PROVE  /\ InApp
                   /\ UNCHANGED <<ring, basePriority, lockCount, schedPending, current, pendsv>>
                   /\ UNCHANGED <<semVars, poolVars, notifyVars, workVars>>
        BY <3>3, QueueOnKernel DEF OnQueue, Queue!Call, Queue!ringVars, Queue!lockVars
      <3>4. CASE OnKernel(Sleep(SendPeriod))
        BY <3>4 DEF OnKernel, OnWork, Sleep, ringVars, lockVars
      <3> QED  BY <3>1, <3>2, <3>3, <3>4 DEF Produce
    <2> QED
      BY <2>1, <2>2
      DEF PairMoves, AsideVars, InApp, semVars, poolVars, notifyVars, workVars, timerVars
  <1> QED  BY <1>1, <1>2, PairStep
-------------------------------------------------------------------------------
(* While the consumer runs, the producer sleeps or has been interrupted between *)
(* its send and its outer unlock.                                               *)
LEMMA ConsumerRuns ==
    ASSUME WaitInv, ProbeInv, state[Consumer] = "RUNNING"
    PROVE  /\ ~Blocked(Consumer) /\ priority = basePriority /\ waitResult[Consumer] = "OK"
           /\ at[Producer] \in {"start", "send", "unlock", "reunlock", "sleep"}
           /\ at[Producer] \in {"send", "unlock"} => at[Consumer] = "recv"
           /\ LockDepth(Producer) = IF at[Producer] = "send" THEN 2
                                    ELSE IF at[Producer] = "unlock" THEN 1 ELSE 0
  <1>1. ~Blocked(Consumer) /\ ~AwaitsMutex /\ ~AwaitsMessage /\ waitResult[Consumer] = "OK"
    BY DEF Blocked, AwaitsMutex, AwaitsMessage, ProbeInv, PairInv, Handover, NeverTimesOut
  <1>2. priority = basePriority
    BY <1>1, PairFacts DEF ProbeInv, PairInv, ConsumerUrgent
  <1>3. /\ at[Producer] \in {"start", "send", "unlock", "reunlock", "sleep"}
        /\ at[Producer] \in {"send", "unlock"} => at[Consumer] = "recv"
    BY <1>1 DEF ProbeInv, PairInv, Handover
  <1> QED  BY <1>1, <1>2, <1>3 DEF LockDepth

(* A step of the consumer that goes on with no call.                            *)
LEMMA ConsumerGoesOn ==
    ASSUME WaitInv, ProbeInv, state[Consumer] = "RUNNING", NEW to \in Points,
           SameArgs(Producer), at'[Consumer] = to, NoArgs(Consumer)',
           state'[Consumer] = "RUNNING", Still(Consumer),
           UNCHANGED <<priority, basePriority>>,
           to \in {"recv", "lock", "relock", "unlock", "reunlock"},
           at[Producer] \in {"send", "unlock"} => to = "recv",
           count' = 0, ahead' = IF to \in {"recv", "lock", "relock"} THEN 1 ELSE 0,
           NEW d, d = LockDepth(Consumer)',
           \/ d > 0 /\ LockDepth(Producer) = 0 /\ LocksTo(Consumer, d)
           \/ d = 0 /\ LockDepth(Producer) = 0 /\ LocksTo(NoOwner, d)
           \/ d = 0 /\ LockDepth(Consumer) = 0 /\ UNCHANGED <<owner, depth>>
    PROVE  PairInv'
  <1>1. /\ at'[Producer] = at[Producer] /\ want'[Producer] = want[Producer]
        /\ call'[Producer] = call[Producer]
        /\ want'[Consumer] = <<>> /\ call'[Consumer] = Queue!NoCall
        /\ ~Blocked(Consumer)' /\ ~AwaitsMessage' /\ ~AwaitsMutex'
        /\ waitResult'[Consumer] = waitResult[Consumer]
        /\ waitType'[Consumer] = waitType[Consumer]
    BY DEF SameArgs, NoArgs, Blocked, AwaitsMessage, AwaitsMutex, Still
  <1>2. ConsumerUrgent'
    <2>1. priority' = basePriority'
      BY ConsumerRuns
    <2> QED  BY <1>1, <2>1, PairFacts DEF ProbeInv, PairInv, ConsumerUrgent
  <1>3. LocksMatch'
    <2>1. LockDepth(Producer)' = LockDepth(Producer)
      BY <1>1 DEF LockDepth
    <2>2. LockDepth(Consumer)' \in {0, 1, 2} /\ LockDepth(Producer) \in {0, 1, 2}
      BY DEF LockDepth
    <2> HIDE DEF LockDepth
    <2>3. CASE d > 0 /\ LockDepth(Producer) = 0 /\ LocksTo(Consumer, d)
      <3>1. (LockDepth(Producer) + LockDepth(Consumer))' = d
        BY <2>1, <2>2, <2>3
      <3> QED  BY <2>1, <2>3, <3>1 DEF LocksMatch, LocksTo
    <2>4. CASE d = 0 /\ LockDepth(Producer) = 0 /\ LocksTo(NoOwner, d)
      BY <2>1, <2>4 DEF LocksMatch, LocksTo
    <2>5. CASE d = 0 /\ LockDepth(Consumer) = 0 /\ UNCHANGED <<owner, depth>>
      BY <2>1, <2>5 DEF ProbeInv, PairInv, LocksMatch
    <2> QED  BY <2>3, <2>4, <2>5
  <1>4. Handover'
    <2>1. /\ at[Producer] \in {"start", "send", "unlock", "reunlock", "sleep"}
          /\ waitResult[Consumer] = "OK"
      BY ConsumerRuns
    <2> QED  BY <1>1, <2>1 DEF ProbeInv, PairInv, Handover, NeverTimesOut, NoArgs
  <1>5. CountsMatch'
    BY <1>1 DEF CountsMatch, HasMessage
  <1> QED  BY <1>2, <1>3, <1>4, <1>5 DEF PairInv

(* It takes the mutex, or waits for the producer to release it.                 *)
LEMMA ConsumerLocks ==
    ASSUME WaitInv, ProbeInv, current = Consumer, state[Consumer] = "RUNNING",
           call[Consumer] = Queue!NoCall, LockPass,
           UNCHANGED <<call, count, ahead, basePriority>>,
           NEW to, at'[Producer] = at[Producer], at'[Consumer] = to,
           \/ to = "lock" /\ at[Consumer] = "recv" /\ want[Consumer] = <<>>
           \/ to = "lock" /\ at[Consumer] = "lock" /\ want[Consumer] # <<>>
           \/ to = "relock" /\ at[Consumer] = "lock" /\ want[Consumer] = <<>>
    PROVE  PairInv' /\ PairAlone(Consumer)
  <1>1. /\ ~Blocked(Consumer) /\ priority = basePriority /\ waitResult[Consumer] = "OK"
        /\ at[Producer] \in {"start", "send", "unlock", "reunlock", "sleep"}
        /\ at[Producer] \in {"send", "unlock"} => at[Consumer] = "recv"
        /\ LockDepth(Producer) = IF at[Producer] = "send" THEN 2
                                 ELSE IF at[Producer] = "unlock" THEN 1 ELSE 0
    BY ConsumerRuns
  <1>2. count = 0 /\ ahead = 1 /\ to \in Points
    BY DEF ProbeInv, PairInv, CountsMatch, HasMessage, Points
  <1>3. LockDepth(Consumer) = IF to = "lock" THEN 0 ELSE 1
    BY DEF LockDepth
  <1>4. /\ owner[AppMutex] = IF LockDepth(Producer) > 0 THEN Producer
                             ELSE IF to = "lock" THEN NoOwner ELSE Consumer
        /\ depth[AppMutex] = LockDepth(Producer) + LockDepth(Consumer)
    BY <1>3 DEF ProbeInv, PairInv, LocksMatch
  <1>5. CASE LockDepth(Producer) = 0
    <2>1. /\ LocksTo(Consumer, LockDepth(Consumer) + 1) /\ Returns /\ priority' = priority
          /\ (GoTo("app") \/ pc' = pc)
          /\ want' = [want EXCEPT ![Consumer] = <<>>] \/ (want' = want /\ want[Consumer] = <<>>)
      <3>0. NoOwner # Consumer
        BY DEF NoOwner, Consumer
      <3>1. CASE to = "lock"
        <4>1. owner[AppMutex] = NoOwner /\ LockDepth(Consumer) + 1 = 1
          BY <1>3, <1>4, <1>5, <3>1
        <4> HIDE DEF LockDepth
        <4> QED  BY <3>0, <4>1, LockPassEffect
      <3>2. CASE to = "relock"
        <4>1. /\ owner[AppMutex] = Consumer /\ want[Consumer] = <<>>
              /\ LockDepth(Consumer) = depth[AppMutex]
          BY <1>3, <1>4, <1>5, <3>2
        <4> QED  BY <3>0, <4>1, LockPassEffect
      <3> QED  BY <3>1, <3>2
    <2>2. want'[Consumer] = <<>> /\ want'[Producer] = want[Producer]
      BY <2>1, PairFacts
    <2>3. LockDepth(Consumer)' = LockDepth(Consumer) + 1
      BY <1>3, <2>2 DEF LockDepth
    <2>4. /\ PairAlone(Consumer) /\ state'[Consumer] = "RUNNING" /\ Still(Consumer)
      <3>1. Still(Consumer)
        BY <2>1, PairFacts DEF Still, Returns, Blocked, GoTo, KernelTypes
      <3> QED  BY <2>1, <3>1, PairReturns DEF PCs
    <2>5. SameArgs(Producer) /\ NoArgs(Consumer)'
      BY <2>2 DEF SameArgs, NoArgs
    <2>6. /\ at[Producer] \notin {"send", "unlock"} /\ LockDepth(Consumer)' > 0
          /\ LocksTo(Consumer, LockDepth(Consumer)')
          /\ count' = 0 /\ ahead' = 1 /\ to \in {"lock", "relock"}
      BY <1>1, <1>2, <1>3, <1>5, <2>1, <2>3
    <2> HIDE DEF LockDepth
    <2> QED  BY <1>2, <1>5, <2>1, <2>4, <2>5, <2>6, ConsumerGoesOn
  <1>6. CASE LockDepth(Producer) > 0
    <2>1. at[Producer] \in {"send", "unlock"} /\ at[Consumer] = "recv" /\ to = "lock"
      BY <1>1, <1>6
    <2>2. /\ LocksTo(Producer, depth[AppMutex]) /\ BlockCurrent("MUTEX", FOREVER, "block")
          /\ want' = [want EXCEPT ![Consumer] = LockArgs]
          /\ priority' = [priority EXCEPT ![Producer] =
                             IF priority[Consumer] > @ THEN priority[Consumer] ELSE @]
      BY <1>4, <1>6, LockPassEffect, PairFacts
    <2>3. want'[Consumer] = LockArgs /\ want'[Producer] = want[Producer]
      BY <2>2, PairFacts
    <2>4. /\ PairAlone(Consumer) /\ state'[Consumer] = "BLOCKED" /\ delay'[Consumer] = 0
          /\ waitType'[Consumer] = "MUTEX" /\ waitResult'[Consumer] = "OK"
      BY <2>2, PairBlocks, PairFacts
    <2>5. AwaitsMutex' /\ ~AwaitsMessage' /\ Blocked(Consumer)'
      BY <2>3, <2>4, PairFacts DEF AwaitsMutex, AwaitsMessage, Blocked
    <2>6. ConsumerUrgent'
      <3>1. priority' = [basePriority EXCEPT ![Producer] = basePriority[Consumer]]
        BY <1>1, <2>2, PairFacts DEF ProbeInv, PairInv, ConsumerUrgent
      <3> QED  BY <2>5, <3>1 DEF ProbeInv, PairInv, ConsumerUrgent
    <2>7. LocksMatch'
      <3>1. LockDepth(Producer)' = LockDepth(Producer) /\ LockDepth(Consumer)' = 0
        BY <2>1, <2>3, PairFacts DEF LockDepth
      <3>2. depth[AppMutex] = LockDepth(Producer)
        BY <1>1, <1>3, <1>4, <2>1
      <3>3. (LockDepth(Producer) + LockDepth(Consumer))' = depth[AppMutex]
        BY <1>1, <2>1, <3>1, <3>2
      <3> HIDE DEF LockDepth
      <3> QED  BY <1>6, <2>2, <3>1, <3>3 DEF LocksMatch, LocksTo
    <2>8. Handover'
      BY <2>1, <2>3, <2>4, <2>5, PairFacts
      DEF ProbeInv, PairInv, Handover, NeverTimesOut, NoArgs
    <2>9. CountsMatch'
      BY <1>2, <2>1 DEF CountsMatch, HasMessage
    <2> QED  BY <2>4, <2>6, <2>7, <2>8, <2>9 DEF PairInv
  <1>7. LockDepth(Producer) = 0 \/ LockDepth(Producer) > 0
    BY <1>1
  <1> QED  BY <1>5, <1>6, <1>7

(* It waits for a message, or takes the one that has woken it.                  *)
LEMMA ConsumerReceives ==
    ASSUME WaitInv, ProbeInv, current = Consumer, state[Consumer] = "RUNNING",
           want[Consumer] = <<>>, Queue!Pass(RecvArgs),
           UNCHANGED <<owner, depth, want, ahead, priority, basePriority>>,
           at'[Producer] = at[Producer], at'[Consumer] = "recv",
           \/ at[Consumer] \in {"start", "reunlock"} /\ call[Consumer] = Queue!NoCall
           \/ at[Consumer] = "recv" /\ call[Consumer] # Queue!NoCall
    PROVE  PairInv' /\ PairAlone(Consumer)
  <1>1. /\ ~Blocked(Consumer) /\ priority = basePriority /\ waitResult[Consumer] = "OK"
        /\ at[Producer] \in {"start", "send", "unlock", "reunlock", "sleep"}
        /\ at[Producer] \in {"send", "unlock"} => at[Consumer] = "recv"
        /\ LockDepth(Producer) = IF at[Producer] = "send" THEN 2
                                 ELSE IF at[Producer] = "unlock" THEN 1 ELSE 0
    BY ConsumerRuns
  <1>2. LockDepth(Consumer) = 0 /\ LockDepth(Consumer)' = 0
    BY DEF LockDepth
  <1>3. CASE call[Consumer] # Queue!NoCall
    <2>1. count = 1 /\ ahead = 1
      BY <1>1, <1>3 DEF ProbeInv, PairInv, CountsMatch, HasMessage
    <2>2. /\ count' = count - 1 /\ call' = [call EXCEPT ![Consumer] = Queue!NoCall]
          /\ WakeFirst(lists["send"]) /\ ReturnAfterWake(lists["send"])
      BY <2>1, RecvEffect
    <2>3. /\ PairAlone(Consumer) /\ state'[Consumer] = "RUNNING" /\ Still(Consumer)
      <3>1. /\ PairAlone(Consumer) /\ state'[Consumer] = "RUNNING"
            /\ Returns /\ GoTo("app")
        BY <1>1, <2>2, PairWakes DEF PairPlaces
      <3> QED  BY <3>1, PairFacts DEF Still, Returns, Blocked, GoTo, KernelTypes
    <2>4. SameArgs(Producer) /\ NoArgs(Consumer)'
      BY <2>2, PairFacts DEF SameArgs, NoArgs
    <2>5. count' = 0 /\ ahead' = 1 /\ "recv" \in Points
      BY <2>1, <2>2 DEF Points
    <2> HIDE DEF LockDepth
    <2> QED  BY <1>2, <2>3, <2>4, <2>5, ConsumerGoesOn
  <1>4. CASE call[Consumer] = Queue!NoCall
    <2>1. count = 0 /\ ahead = 0 /\ at[Producer] \notin {"send", "unlock"}
      BY <1>1, <1>4 DEF ProbeInv, PairInv, CountsMatch, HasMessage
    <2>2. /\ count' = count /\ call' = [call EXCEPT ![Consumer] = RecvArgs]
          /\ BlockCurrent("QUEUE", FOREVER, "block")
      BY <2>1, RecvEffect
    <2>3. call'[Consumer] = RecvArgs /\ call'[Producer] = call[Producer]
      BY <2>2, PairFacts
    <2>4. /\ PairAlone(Consumer) /\ state'[Consumer] = "BLOCKED" /\ delay'[Consumer] = 0
          /\ waitType'[Consumer] = "QUEUE" /\ waitResult'[Consumer] = "OK"
      BY <2>2, PairBlocks, PairFacts
    <2>5. AwaitsMessage' /\ ~AwaitsMutex' /\ Blocked(Consumer)'
      BY <2>3, <2>4, PairFacts DEF AwaitsMutex, AwaitsMessage, Blocked
    <2>6. ConsumerUrgent'
      <3>1. priority' = basePriority'
        BY <1>1
      <3> QED  BY <2>5, <3>1, PairFacts DEF ProbeInv, PairInv, ConsumerUrgent
    <2>7. LocksMatch'
      <3>1. LockDepth(Producer)' = LockDepth(Producer)
        BY DEF LockDepth
      <3> HIDE DEF LockDepth
      <3> QED  BY <1>2, <3>1 DEF ProbeInv, PairInv, LocksMatch
    <2>8. Handover'
      BY <1>1, <2>1, <2>3, <2>4, <2>5
      DEF ProbeInv, PairInv, Handover, NeverTimesOut, NoArgs
    <2>9. CountsMatch'
      BY <2>1, <2>2, <2>3, <2>5, PairFacts DEF CountsMatch, HasMessage
    <2> QED  BY <2>4, <2>6, <2>7, <2>8, <2>9 DEF PairInv
  <1> QED  BY <1>3, <1>4

(* It unlocks the mutex twice, when nobody waits for it.                        *)
LEMMA ConsumerUnlocks ==
    ASSUME WaitInv, ProbeInv, current = Consumer, state[Consumer] = "RUNNING",
           NoArgs(Consumer), Mutex!Unlock(AppMutex), UNCHANGED <<call, count>>,
           NEW to, at'[Producer] = at[Producer], at'[Consumer] = to,
           \/ to = "unlock" /\ at[Consumer] = "relock" /\ ahead' = ahead - 1
           \/ to = "reunlock" /\ at[Consumer] = "unlock" /\ ahead' = ahead
    PROVE  PairInv' /\ PairAlone(Consumer)
  <1>1. /\ ~Blocked(Consumer) /\ at[Producer] \notin {"send", "unlock"}
        /\ LockDepth(Producer) = 0
    BY ConsumerRuns
  <1>2. LockDepth(Consumer) = IF to = "unlock" THEN 2 ELSE 1
    BY DEF LockDepth
  <1>3. depth[AppMutex] = LockDepth(Consumer)
    BY <1>1, <1>2 DEF ProbeInv, PairInv, LocksMatch
  <1>4. count' = 0 /\ ahead' = 0 /\ to \in Points
    BY DEF ProbeInv, PairInv, CountsMatch, HasMessage, NoArgs, Points
  <1>5. want' = want /\ basePriority' = basePriority
    BY UnlockEffect
  <1>6. /\ SameArgs(Producer) /\ NoArgs(Consumer)'
        /\ LockDepth(Consumer)' = LockDepth(Consumer) - 1
    BY <1>2, <1>5 DEF SameArgs, NoArgs, LockDepth
  <1>7. CASE to = "unlock"
    <2>1. /\ LocksTo(Consumer, LockDepth(Consumer)') /\ Returns /\ pc' = pc
          /\ priority' = priority
      BY <1>2, <1>3, <1>6, <1>7, UnlockEffect
    <2>2. PairAlone(Consumer) /\ state'[Consumer] = "RUNNING" /\ Still(Consumer)
      BY <2>1, PairReturns DEF Still, Returns, Blocked
    <2>3. LockDepth(Consumer)' > 0 /\ to \in {"unlock", "reunlock"}
      BY <1>2, <1>6, <1>7
    <2> HIDE DEF LockDepth
    <2> QED  BY <1>1, <1>4, <1>5, <1>6, <2>1, <2>2, <2>3, ConsumerGoesOn
  <1>8. CASE to = "reunlock"
    <2>1. /\ LocksTo(NoOwner, 0)
          /\ priority' = [priority EXCEPT ![Consumer] = basePriority[Consumer]]
          /\ WakeFirst(lists["mutex"]) /\ ReturnAfterWake(lists["mutex"])
      BY <1>2, <1>3, <1>8, UnlockEffect
    <2>2. priority' = priority
      BY <2>1, ConsumerRuns, PairFacts DEF ProbeInv, PairInv, ConsumerUrgent
    <2>3. /\ PairAlone(Consumer) /\ state'[Consumer] = "RUNNING" /\ Still(Consumer)
      <3>1. /\ PairAlone(Consumer) /\ state'[Consumer] = "RUNNING"
            /\ Returns /\ GoTo("app")
        BY <1>1, <2>1, PairWakes DEF PairPlaces
      <3> QED  BY <3>1, PairFacts DEF Still, Returns, Blocked, GoTo, KernelTypes
    <2>4. LockDepth(Consumer)' = 0 /\ to \in {"unlock", "reunlock"}
      BY <1>2, <1>6, <1>8
    <2> HIDE DEF LockDepth
    <2> QED  BY <1>1, <1>4, <1>5, <1>6, <2>1, <2>2, <2>3, <2>4, ConsumerGoesOn
  <1> QED  BY <1>7, <1>8

LEMMA ConsumerKeepsProbe ==
    ASSUME WaitInv, ProbeInv, Consume, UNCHANGED timerVars
    PROVE  ProbeInv'
  <1>1. /\ current = Consumer /\ \A t \in Slots \ {Consumer} : at'[t] = at[t]
        /\ at'[Producer] = at[Producer]
        /\ UNCHANGED <<exits, reuses, reuseCreated>>
    BY PairFacts DEF Consume, Proceed, counters
  <1>2. /\ InApp
        /\ UNCHANGED <<ring, basePriority, lockCount, schedPending, current, pendsv>>
        /\ UNCHANGED <<semVars, poolVars, notifyVars, workVars>>
    <2>1. CASE Lock
      BY <2>1, MutexOnKernel DEF Lock, OnMutex, Mutex!Lock, Mutex!ringVars, Mutex!lockVars
    <2>2. CASE Unlock
      BY <2>2, UnlockEffect DEF Unlock, OnMutex, Mutex!Unlock, Mutex!ringVars
    <2>3. ASSUME NEW k, OnQueue(Queue!Call(k))
          PROVE  /\ InApp
                 /\ UNCHANGED <<ring, basePriority, lockCount, schedPending, current, pendsv>>
                 /\ UNCHANGED <<semVars, poolVars, notifyVars, workVars>>
      BY <2>3, QueueOnKernel DEF OnQueue, Queue!Call, Queue!ringVars, Queue!lockVars
    <2> QED  BY <2>1, <2>2, <2>3 DEF Consume
  <1>3. state[Consumer] = "RUNNING" /\ NoArgs(Consumer)
    BY <1>1, <1>2, CallerFacts, DemoFacts
    DEF WaitInv, InApp, Placed, InRetry, InWaitCode
  <1>4. PairInv' /\ PairAlone(Consumer)
    <2>1. ASSUME NEW to, Lock, UNCHANGED counters,
                 \/ Proceed(Consumer, "recv", "lock") /\ to = "lock"
                 \/ Proceed(Consumer, "lock", "relock") /\ to = "relock"
          PROVE  PairInv' /\ PairAlone(Consumer)
      <3>1. LockPass /\ UNCHANGED <<call, count, ahead>>
        BY <2>1 DEF Lock, OnMutex, Mutex!Lock, LockPass, queueVars, counters
      <3>2. at'[Consumer] = to
        BY <2>1, PairFacts DEF Proceed
      <3> QED  BY <1>1, <1>2, <1>3, <2>1, <3>1, <3>2, ConsumerLocks DEF Proceed, NoArgs
    <2>2. ASSUME NEW to, Unlock,
                 \/ /\ Proceed(Consumer, "relock", "unlock") /\ to = "unlock"
                    /\ ahead' = ahead - 1
                 \/ /\ Proceed(Consumer, "unlock", "reunlock") /\ to = "reunlock"
                    /\ UNCHANGED counters
          PROVE  PairInv' /\ PairAlone(Consumer)
      <3>1. Mutex!Unlock(AppMutex) /\ UNCHANGED <<call, count>>
        BY <2>2 DEF Unlock, OnMutex, queueVars
      <3>2. at'[Consumer] = to
        BY <2>2, PairFacts DEF Proceed
      <3> QED  BY <1>1, <1>3, <2>2, <3>1, <3>2, ConsumerUnlocks DEF Proceed, counters
    <2>3. ASSUME Proceed(Consumer, "start", "recv") \/ Proceed(Consumer, "reunlock", "recv"),
                 OnQueue(Queue!Call([op |-> "recv", ms |-> FOREVER])), UNCHANGED counters
          PROVE  PairInv' /\ PairAlone(Consumer)
      <3>1. /\ Queue!Pass(RecvArgs)
            /\ UNCHANGED <<owner, depth, want, ahead, priority, basePriority>>
        BY <2>3, QueueOnKernel
        DEF RecvArgs, OnQueue, Queue!Call, mutexVars, counters, Queue!ringVars
      <3>2. at'[Consumer] = "recv"
        BY <2>3, PairFacts DEF Proceed
      <3> QED  BY <1>1, <1>3, <2>3, <3>1, <3>2, ConsumerReceives DEF Proceed, NoArgs
    <2> QED  BY <2>1, <2>2, <2>3 DEF Consume
  <1>5. PairMoves(Consumer)
    BY <1>1, <1>2
    DEF PairMoves, AsideVars, InApp, semVars, poolVars, notifyVars, workVars, timerVars
  <1> QED  BY <1>4, <1>5, PairStep

(* The rest of a lock, a send or a receive that has waited: the consumer's.     *)
LEMMA PairFinishesCall ==
    ASSUME WaitInv, ProbeInv, UNCHANGED <<at, counters, timerVars>>,
           \/ want[current] # <<>> /\ OnMutex(Mutex!EndWait \/ Mutex!Retry)
           \/ call[current] # Queue!NoCall /\ OnQueue(Queue!EndWait \/ Queue!Retry)
    PROVE  ProbeInv'
  <1>1. current = Consumer /\ CallOf(Consumer)
    <2>1. current \in Slots
      BY PairFacts, TasksAreSlots DEF WaitInv, KernelInv, KernelTypes
    <2> QED
      BY <2>1, PairFacts
      DEF WaitInv, Placed, CallOf, ProbeInv, PairInv, Handover, NoArgs
  <1>2. /\ ~pendsv /\ pc[current] \in {"resume", "retry"}
        /\ UNCHANGED <<ring, basePriority, lockCount, schedPending, current, pendsv>>
        /\ UNCHANGED <<semVars, poolVars, notifyVars, workVars>>
    <2>1. CASE OnMutex(Mutex!EndWait \/ Mutex!Retry)
      BY <2>1, MutexOnKernel
      DEF OnMutex, Mutex!EndWait, Mutex!Retry, Mutex!ringVars, Mutex!lockVars, Resuming
    <2>2. CASE OnQueue(Queue!EndWait \/ Queue!Retry)
      BY <2>2, QueueOnKernel
      DEF OnQueue, Queue!EndWait, Queue!Retry, Queue!ringVars, Queue!lockVars, Resuming
    <2> QED  BY <2>1, <2>2
  <1>3. /\ state[Consumer] = "RUNNING" /\ waitResult[Consumer] = "OK"
        /\ waitResult[Consumer] # "TIMEOUT"
    BY <1>1, <1>2, CallerFacts DEF WaitInv, ProbeInv, PairInv, Handover, NeverTimesOut
  <1>4. PairInv' /\ PairAlone(Consumer)
    <2>1. ASSUME UNCHANGED <<owner, depth, want, call, count, priority>>, Returns,
                 GoTo("retry")
          PROVE  PairInv' /\ PairAlone(Consumer)
      <3>1. PairAlone(Consumer)
        BY <1>1, <1>3, <2>1, PairReturns DEF PCs
      <3>2. PairStill
        BY <1>1, <1>2, <2>1, PairFacts DEF PairStill, Still, Returns, Blocked, counters
      <3> QED  BY <3>1, <3>2, PairFrame DEF ProbeInv
    <2>2. CASE want[current] # <<>> /\ OnMutex(Mutex!EndWait)
      BY <1>3, <1>1, <2>1, <2>2, MutexOnKernel
      DEF OnMutex, Mutex!EndWait, Mutex!TimedOut, Mutex!Woken, queueVars, Returns
    <2>3. CASE call[current] # Queue!NoCall /\ OnQueue(Queue!EndWait)
      BY <1>3, <1>1, <2>1, <2>3, QueueOnKernel
      DEF OnQueue, Queue!EndWait, Queue!TimedOut, Queue!Woken, mutexVars, Returns
    <2>4. CASE want[current] # <<>> /\ OnMutex(Mutex!Retry)
      <3>1. LockPass /\ UNCHANGED <<call, count, ahead>>
        <4>1. want[current] = LockArgs
          BY <1>1, <2>4, PairFacts
        <4> QED
          BY <2>4, <4>1, DemoFacts DEF OnMutex, Mutex!Retry, LockPass, queueVars, counters
      <3>2. at[Consumer] = "lock" /\ call[Consumer] = Queue!NoCall
        BY <1>1, <2>4, PairFacts DEF ProbeInv, PairInv, Handover
      <3>3. at'[Consumer] = "lock" /\ at'[Producer] = at[Producer]
        BY <3>2
      <3> QED  BY <1>1, <1>2, <1>3, <2>4, <3>1, <3>2, <3>3, ConsumerLocks
    <2>5. CASE call[current] # Queue!NoCall /\ OnQueue(Queue!Retry)
      <3>1. call[current] = RecvArgs /\ want[Consumer] = <<>>
        BY <1>1, <2>5, PairFacts DEF CallOf
      <3>2. /\ Queue!Pass(RecvArgs)
            /\ UNCHANGED <<owner, depth, want, ahead, priority, basePriority>>
        BY <2>5, <3>1, QueueOnKernel
        DEF OnQueue, Queue!Retry, mutexVars, counters, Queue!ringVars
      <3>3. at[Consumer] = "recv" /\ at'[Consumer] = "recv" /\ at'[Producer] = at[Producer]
        BY <1>1, <2>5 DEF ProbeInv, PairInv, Handover
      <3> QED  BY <1>1, <1>3, <2>5, <3>1, <3>2, <3>3, ConsumerReceives
    <2>6. OnMutex(Mutex!EndWait \/ Mutex!Retry) => OnMutex(Mutex!EndWait) \/ OnMutex(Mutex!Retry)
      BY DEF OnMutex
    <2>7. OnQueue(Queue!EndWait \/ Queue!Retry) => OnQueue(Queue!EndWait) \/ OnQueue(Queue!Retry)
      BY DEF OnQueue
    <2> QED  BY <2>2, <2>3, <2>4, <2>5, <2>6, <2>7
  <1>5. PairMoves(Consumer)
    BY <1>1, <1>2
    DEF PairMoves, AsideVars, semVars, poolVars, notifyVars, workVars, timerVars, counters
  <1> QED  BY <1>4, <1>5, PairStep
-------------------------------------------------------------------------------
(* The calls of the timeout task, but those of the scheduler.                   *)
LEMMA AsideTasks ==
    /\ {WorkTask, TimeoutTask, OneShot} \subseteq Slots \ {Idle, Producer, Consumer}
    /\ {WorkTask, OneShot} \subseteq Slots \ {TimeoutTask} /\ WorkTask # OneShot
    /\ {WorkTask, TimeoutTask} \subseteq Slots \ {OneShot}
    /\ {TimeoutTask, OneShot} \subseteq Slots \ {WorkTask}
    /\ Work!Worker = WorkTask
  BY DemoFacts DEF WorkTask, Producer, Consumer, TimeoutTask, OneShot, Work!Worker

Unscheduled == {"start", "self", "sem", "events", "alloc", "free", "poll", "notify", "sleep"}
TimeoutMoves ==
    /\ InApp /\ Rests /\ Quietly(TimeoutTask)
    /\ UNCHANGED <<owner, depth, want, call, count, ahead, exits, reuses, reuseCreated,
                   pendingItems, workerAt, timeoutCount>>
    /\ notifyPending' \in [Slots -> BOOLEAN]
    /\ notifyPending'[WorkTask] = notifyPending[WorkTask]
TimeoutStep == TimeoutMoves /\ UNCHANGED <<lockCount, schedPending>>
LEMMA TimeoutTaskMoves ==
    ASSUME WaitInv, ProbeInv, NEW from, NEW to, Proceed(TimeoutTask, from, to), TimeoutMoves,
           PoolMatches', SchedMatches'
    PROVE  ProbeInv'
  <1>1. /\ current = TimeoutTask /\ ~pendsv /\ pc[current] = "app" /\ state[current] = "RUNNING"
        /\ \A t \in Slots \ {TimeoutTask} : at'[t] = at[t]
    BY AsideTasks, CallerFacts, PairFacts DEF TimeoutMoves, Proceed, InApp, WaitInv
  <1>2. Alone(TimeoutTask) /\ state'[TimeoutTask] \in {"RUNNING", "BLOCKED"}
    BY <1>1, AsideTasks, QuietlyAlone DEF TimeoutMoves
  <1>3. PairInv' /\ TurnInv'
    BY <1>1, <1>2, AsideTasks, AsideStep DEF TimeoutMoves
  <1>4. WorkerTold' /\ OneShotCounted'
    <2>1. WorkerStill /\ OneShotStill
      BY <1>1, <1>2, AsideTasks DEF Alone, WorkerStill, OneShotStill, TimeoutMoves
    <2> QED  BY <2>1, AsideFrames DEF ProbeInv, AsideInv
  <1>5. timeoutCount' = 0
    BY DEF ProbeInv, AsideInv, TimeoutMoves
  <1> QED  BY <1>3, <1>4, <1>5 DEF ProbeInv, AsideInv

LEMMA TimeoutTaskStep ==
    ASSUME WaitInv, ProbeInv, NEW from \in Unscheduled, NEW to \in Unscheduled,
           Proceed(TimeoutTask, from, to), TimeoutStep, PoolMatches'
    PROVE  ProbeInv'
  <1>1. at[TimeoutTask] = from /\ at'[TimeoutTask] = to
    BY AsideTasks, PairFacts DEF Proceed
  <1>2. SchedMatches'
    BY <1>1 DEF ProbeInv, AsideInv, SchedMatches, TimeoutStep, Unscheduled
  <1> QED  BY <1>2, TimeoutTaskMoves DEF TimeoutStep

(* The pool has a block for it, and no other task waits for one.                *)
LEMMA NobodyWaitsForBlocks ==
    ASSUME WaitInv, state[TimeoutTask] = "RUNNING"
    PROVE  NobodyWaits(poolWaiters)
  <1>1. lists["alloc"] = poolWaiters /\ "alloc" \in Places /\ Tasks = Slots
    BY ListsByPlace, TasksAreSlots DEF Places, WaitInv, KernelInv
  <1>2. Listed(poolWaiters, "alloc")
    BY <1>1 DEF WaitInv, AllListed
  <1> SUFFICES ASSUME ~NobodyWaits(poolWaiters) PROVE FALSE
    OBVIOUS
  <1>3. PICK t : t = Chosen(poolWaiters)
    OBVIOUS
  <1>4. t \in Slots /\ StillWaiting(t) /\ Linked(poolWaiters, t)
    BY <1>2, <1>3, ChosenWaits DEF WaitInv, Listed
  <1>5. Place(t) = "alloc" /\ CallOf(t)
    BY <1>1, <1>2, <1>4 DEF Listed, WaitInv, Placed
  <1>6. t = TimeoutTask
    <2>1. call[t] # Queue!NoCall => call[t].op # "alloc"
      BY <1>5, DemoFacts DEF CallOf
    <2> QED  BY <1>5, <2>1 DEF Place
  <1> QED  BY <1>4, <1>6 DEF StillWaiting

(* A step of the timeout task that has no block, before and after.              *)
LEMMA BlocklessStep ==
    ASSUME WaitInv, ProbeInv, NEW from \in Unscheduled \ {"alloc"},
           NEW to \in Unscheduled \ {"alloc"},
           Proceed(TimeoutTask, from, to), TimeoutStep, UNCHANGED <<freeList, freeCount, inUse>>
    PROVE  ProbeInv'
  <1>1. at[TimeoutTask] = from /\ at'[TimeoutTask] = to
    BY AsideTasks, PairFacts DEF Proceed
  <1>2. PoolMatches'
    BY <1>1 DEF ProbeInv, AsideInv, PoolMatches
  <1> QED  BY <1>2, TimeoutTaskStep

LEMMA ListEnds ==
    ASSUME NEW S, NEW q \in Seq(S)
    PROVE  /\ q # <<>> => Head(q) \in S /\ Tail(q) \in Seq(S) /\ Len(Tail(q)) = Len(q) - 1
           /\ \A b \in S : <<b>> \o q \in Seq(S) /\ Len(<<b>> \o q) = Len(q) + 1
  OBVIOUS

LEMMA TryObjectsKeepsProbe ==
    ASSUME WaitInv, ProbeInv, TryObjects, UNCHANGED <<counters, timerVars>>
    PROVE  ProbeInv'
  <1> DEFINE c == TimeoutTask
  <1> DEFINE Others == UNCHANGED <<owner, depth, want, call, count, pendingItems, workerAt,
                                   timeoutCount>>
  <1> DEFINE Places2 == Unscheduled \ {"alloc"}
  <1>1. c \in Slots /\ c = current /\ timeoutCount = 0 /\ notifyPending \in [Slots -> BOOLEAN]
        /\ c # WorkTask
    BY AsideTasks DEF TryObjects, Proceed, ProbeInv, AsideInv, WorkerTold
  <1>2. ASSUME InApp, Others, notifyPending' = notifyPending,
               UNCHANGED <<ring, basePriority, priority, current, pendsv, lockCount, schedPending>>,
               UNCHANGED <<state, delay, waitType, waitResult, pc>>
               \/ \E type \in WaitTypes, ms \in Nat, point \in PCs : BlockCurrent(type, ms, point)
        PROVE  TimeoutStep
    BY <1>1, <1>2 DEF TimeoutStep, TimeoutMoves, Rests, Quietly, timerVars, counters
  <1>3. ASSUME NEW from, NEW to, from \in Places2, to \in Places2, Proceed(c, from, to), TimeoutStep,
               UNCHANGED <<freeList, freeCount, inUse>>
        PROVE  ProbeInv'
    BY <1>3, BlocklessStep
  <1>4. ASSUME Proceed(c, "start", "self"), InApp, OnKernel(UNCHANGED kernelVars)
        PROVE  ProbeInv'
    <2>1. TimeoutStep /\ UNCHANGED <<freeList, freeCount, inUse>>
      BY <1>2, <1>4
      DEF OnKernel, OnWork, kernelVars, ringVars, lockVars, tcbVars, mutexVars, queueVars,
          semVars, poolVars, notifyVars, workVars
    <2> QED  BY <1>3, <1>4, <2>1 DEF Unscheduled
  <1>5. ASSUME NEW from, from \in {"self", "sleep"}, Proceed(c, from, "sem"),
               OnTimeoutSem(TimeoutSem!TakeToken \/ TimeoutSem!StartWait(SemTimeout))
        PROVE  ProbeInv'
    <2>1. TimeoutSem!StartWait(SemTimeout)
      BY <1>1, <1>5 DEF OnTimeoutSem, OnSems, TimeoutSem!TakeToken
    <2>2. TimeoutStep /\ UNCHANGED <<freeList, freeCount, inUse>>
      <3>1. BlockCurrent("SEM", SemTimeout, "block") /\ SemTimeout \in Nat
        BY <2>1, TimeoutSemOnKernel, DemoAssumption DEF TimeoutSem!StartWait
      <3> QED
        BY <1>2, <1>5, <2>1, <3>1, TimeoutSemOnKernel
        DEF OnTimeoutSem, OnSems, TimeoutSem!StartWait, TimeoutSem!ringVars, TimeoutSem!lockVars,
            mutexVars, queueVars, poolVars, notifyVars, workVars, WaitTypes, PCs
    <2> QED  BY <1>3, <1>5, <2>2 DEF Unscheduled
  <1>6. ASSUME Proceed(c, "sem", "events"),
               OnEvents(Events!TakeFlags(OneFlag) \/ Events!StartWait(OneFlag, WaitTimeout))
        PROVE  ProbeInv'
    <2>1. /\ InApp
          /\ UNCHANGED <<ring, basePriority, priority, current, pendsv, lockCount, schedPending>>
          /\ UNCHANGED <<state, delay, waitType, waitResult, pc>>
             \/ BlockCurrent("EVENT", WaitTimeout, "block")
      <3>1. CASE Events!TakeFlags(OneFlag)
        BY <3>1, EventsOnKernel
        DEF Events!TakeFlags, Events!kernelVars, Events!ringVars, Events!lockVars, Events!tcbVars
      <3>2. CASE Events!StartWait(OneFlag, WaitTimeout)
        BY <3>2, EventsOnKernel DEF Events!StartWait, Events!ringVars, Events!lockVars
      <3> QED  BY <1>6, <3>1, <3>2 DEF OnEvents
    <2>2. TimeoutStep /\ UNCHANGED <<freeList, freeCount, inUse>>
      <3>1. WaitTimeout \in Nat
        BY DemoAssumption
      <3> QED
        BY <1>2, <1>6, <2>1, <3>1
        DEF OnEvents, mutexVars, queueVars, semVars, poolVars, notifyVars, workVars, WaitTypes, PCs
    <2> QED  BY <1>3, <1>6, <2>2 DEF Unscheduled
  <1>7. ASSUME Proceed(c, "events", "alloc"), OnPool(Pool!Alloc \/ Pool!StartWait(Pause))
        PROVE  ProbeInv'
    <2>1. /\ freeList \in Seq(1 .. BlockCount) /\ freeCount = Len(freeList)
          /\ freeCount = BlockCount /\ inUse = {} /\ at'[c] = "alloc"
      BY <1>1, <1>7, PairFacts DEF ProbeInv, AsideInv, PoolMatches, Proceed
    <2>2. freeList # <<>> /\ BlockCount \in Nat
      BY <2>1, DemoAssumption
    <2>3. Pool!Alloc
      BY <1>7, <2>2 DEF OnPool, Pool!StartWait
    <2>4. TimeoutStep
      BY <1>2, <1>7, <2>3, PoolOnKernel
      DEF OnPool, Pool!Alloc, Pool!kernelVars, Pool!ringVars, Pool!lockVars, Pool!tcbVars,
          mutexVars, queueVars, semVars, notifyVars, workVars
    <2>5. PoolMatches'
      <3>1. /\ freeList' = Tail(freeList) /\ freeCount' = freeCount - 1
            /\ inUse' = {Head(freeList)} /\ UNCHANGED <<state, pc>>
        BY <2>1, <2>3
        DEF Pool!Alloc, Pool!PopFreeBlock, Pool!kernelVars, Pool!tcbVars
      <3>2. Head(freeList) \in 1 .. BlockCount /\ Tail(freeList) \in Seq(1 .. BlockCount)
            /\ Len(Tail(freeList)) = Len(freeList) - 1
        BY <2>1, <2>2, ListEnds
      <3>3. ~Blocked(c)' /\ pc'[c] = "app"
        BY <1>1, <2>4, <3>1, CallerFacts DEF TimeoutStep, TimeoutMoves, InApp, Blocked, WaitInv
      <3> QED  BY <2>1, <3>1, <3>2, <3>3 DEF PoolMatches
    <2>6. "events" \in Unscheduled /\ "alloc" \in Unscheduled
      BY DEF Unscheduled
    <2> QED  BY <1>7, <2>4, <2>5, <2>6, TimeoutTaskStep
  <1>8. ASSUME Proceed(c, "alloc", "free"), NEW b \in inUse, OnPool(Pool!Free(b))
        PROVE  ProbeInv'
    <2>1. /\ freeList \in Seq(1 .. BlockCount) /\ freeCount = Len(freeList)
          /\ freeCount = BlockCount - 1 /\ inUse = {b} /\ b \in 1 .. BlockCount
          /\ at'[c] = "free" /\ BlockCount \in Nat
      BY <1>1, <1>8, PairFacts, DemoAssumption DEF ProbeInv, AsideInv, PoolMatches, Proceed
    <2>2. InApp /\ NobodyWaits(poolWaiters)
      BY <1>1, <1>8, PoolOnKernel, CallerFacts, NobodyWaitsForBlocks
      DEF OnPool, Pool!Free, InApp, WaitInv
    <2>3. /\ freeList' = <<b>> \o freeList /\ freeCount' = freeCount + 1 /\ inUse' = {}
          /\ UNCHANGED <<state, delay, waitType, waitResult>> /\ GoTo("app")
          /\ UNCHANGED <<ring, basePriority, priority, current, pendsv, lockCount, schedPending>>
      BY <1>8, <2>1, <2>2, PoolOnKernel
      DEF OnPool, Pool!Free, Pool!FreeTo, Pool!PushFreeBlock, WakeFirst, ReturnAfterWake, tcbVars,
          Pool!ringVars, Pool!lockVars
    <2>4. TimeoutStep
      BY <1>1, <1>8, <2>2, <2>3
      DEF TimeoutStep, TimeoutMoves, Rests, Quietly, OnPool, mutexVars, queueVars, semVars, notifyVars, workVars,
          timerVars, counters, PCs
    <2>5. PoolMatches'
      <3>1. <<b>> \o freeList \in Seq(1 .. BlockCount) /\ Len(<<b>> \o freeList) = Len(freeList) + 1
        BY <2>1, ListEnds
      <3> QED  BY <2>1, <2>3, <3>1 DEF PoolMatches
    <2>6. "free" \in Unscheduled /\ "alloc" \in Unscheduled
      BY DEF Unscheduled
    <2> QED  BY <1>8, <2>4, <2>5, <2>6, TimeoutTaskStep
  <1>9. ASSUME Proceed(c, "free", "poll") \/ (Proceed(c, "alloc", "poll") /\ inUse = {}),
               OnIsrSem(PollIsrSem)
        PROVE  ProbeInv'
    <2>1. Proceed(c, "free", "poll")
      BY <1>1, <1>9 DEF ProbeInv, AsideInv, PoolMatches, Proceed
    <2>2. InApp /\ UNCHANGED kernelVars
      BY <1>9, IsrSemOnKernel
      DEF OnIsrSem, OnSems, PollIsrSem, IsrSem!TakeToken, IsrSem!kernelVars, kernelVars,
          IsrSem!ringVars, IsrSem!lockVars, IsrSem!tcbVars, ringVars, lockVars, tcbVars
    <2>3. TimeoutStep /\ UNCHANGED <<freeList, freeCount, inUse>>
      BY <1>2, <1>9, <2>2
      DEF OnIsrSem, OnSems, kernelVars, ringVars, lockVars, tcbVars, mutexVars, queueVars,
          semVars, poolVars, notifyVars, workVars
    <2> QED  BY <1>3, <2>1, <2>3 DEF Unscheduled
  <1>10. ASSUME Proceed(c, "poll", "notify"), OnNotify(Work!NotifyWait({}, {Bit}, WaitTimeout))
         PROVE  ProbeInv'
    <2>1. /\ InApp
          /\ UNCHANGED <<ring, basePriority, priority, current, pendsv, lockCount, schedPending>>
          /\ UNCHANGED <<state, delay, waitType, waitResult, pc>>
             \/ BlockCurrent("NOTIFICATION", WaitTimeout, "block")
          /\ \/ notifyPending' = notifyPending
             \/ \E v \in BOOLEAN : notifyPending' = [notifyPending EXCEPT ![current] = v]
      <3>1. WaitTimeout # 0
        BY DemoAssumption
      <3>2. CASE notifyPending[current] /\ Work!TakeValue({}, {Bit})
        BY <1>1, <1>10, <3>2, WorkOnKernel
        DEF OnNotify, OnWork, Work!NotifyWait, Work!TakeValue, Work!ringVars, Work!lockVars, Work!tcbVars
      <3>3. CASE ~notifyPending[current]
        BY <1>10, <3>1, <3>3, WorkOnKernel
        DEF OnNotify, OnWork, Work!NotifyWait, Work!ringVars, Work!lockVars
      <3> QED  BY <1>10, <3>2, <3>3 DEF OnNotify, OnWork, Work!NotifyWait
    <2>2. /\ notifyPending' \in [Slots -> BOOLEAN]
          /\ notifyPending'[WorkTask] = notifyPending[WorkTask]
      BY <1>1, <2>1, AsideTasks
    <2>3. WaitTimeout \in Nat
      BY DemoAssumption
    <2>4. Others /\ UNCHANGED <<freeList, freeCount, inUse>>
      BY <1>10
      DEF OnNotify, OnWork, mutexVars, queueVars, semVars, poolVars, workVars
    <2>5. Quietly(c)
      BY <1>1, <2>1, <2>3 DEF Quietly, WaitTypes, PCs
    <2>6. TimeoutStep
      BY <2>1, <2>2, <2>4, <2>5 DEF TimeoutStep, TimeoutMoves, Rests, timerVars, counters
    <2> QED  BY <1>3, <1>10, <2>4, <2>6 DEF Unscheduled
  <1>11. ASSUME Proceed(c, "self", "sem") \/ Proceed(c, "sleep", "sem"),
                OnTimeoutSem(TimeoutSem!TakeToken \/ TimeoutSem!StartWait(SemTimeout))
         PROVE  ProbeInv'
    BY <1>5, <1>11
  <1> QED  BY <1>4, <1>6, <1>7, <1>8, <1>9, <1>10, <1>11 DEF TryObjects

(* ... and its calls of the scheduler, which it locks while the consumer waits. *)
LEMMA SchedCallsKeepProbe ==
    ASSUME WaitInv, ProbeInv, UNCHANGED <<counters, timerVars>>,
           \/ /\ Proceed(TimeoutTask, "notify", "create")
              /\ InApp /\ OnKernel(UNCHANGED kernelVars)
           \/ Proceed(TimeoutTask, "create", "schedlock") /\ OnKernel(Sched!SchedLock)
           \/ Proceed(TimeoutTask, "schedlock", "yield") /\ OnKernel(YieldCall)
           \/ Proceed(TimeoutTask, "yield", "schedunlock") /\ OnKernel(Sched!SchedUnlock)
           \/ Proceed(TimeoutTask, "schedunlock", "sleep") /\ OnKernel(Sleep(Pause))
    PROVE  ProbeInv'
  <1> DEFINE c == TimeoutTask
  <1>1. /\ c = current /\ notifyPending \in [Slots -> BOOLEAN]
        /\ c \in Slots /\ at \in [Slots -> Points]
        /\ UNCHANGED <<mutexVars, queueVars, semVars, poolVars, notifyVars, workVars>>
    BY AsideTasks, PairFacts DEF Proceed, ProbeInv, AsideInv, WorkerTold, OnKernel, OnWork
  <1>2. PICK from, to : /\ Proceed(c, from, to) /\ at[c] = from /\ at'[c] = to
                        /\ to \in {"create", "schedlock", "yield", "schedunlock", "sleep"}
                        /\ from \in {"notify", "create", "schedlock", "yield", "schedunlock"}
    BY AsideTasks, PairFacts DEF Proceed
  <1>3. /\ InApp /\ UNCHANGED <<ring, basePriority, priority, current, pendsv>>
        /\ \/ UNCHANGED <<state, delay, waitType, waitResult>>
              /\ (pc' = pc \/ GoTo("kick"))
           \/ BlockCurrent("SLEEP", Pause, "kick")
    <2>1. CASE InApp /\ OnKernel(UNCHANGED kernelVars)
      BY <2>1 DEF OnKernel, OnWork, kernelVars, ringVars, tcbVars
    <2>2. CASE OnKernel(Sched!SchedLock)
      BY <2>2, SchedOnKernel DEF OnKernel, OnWork, Sched!SchedLock, Sched!ringVars, Sched!tcbVars
    <2>3. CASE OnKernel(YieldCall)
      BY <2>3 DEF OnKernel, OnWork, YieldCall, ringVars, tcbVars
    <2>4. CASE OnKernel(Sched!SchedUnlock)
      BY <2>4, SchedOnKernel DEF OnKernel, OnWork, Sched!SchedUnlock, Sched!ringVars, Sched!tcbVars
    <2>5. CASE OnKernel(Sleep(Pause))
      BY <2>5 DEF OnKernel, OnWork, Sleep, ringVars
    <2> QED  BY <2>1, <2>2, <2>3, <2>4, <2>5
  <1>4. TimeoutMoves
    <2>1. Quietly(c)
      BY <1>1, <1>3, DemoAssumption DEF Quietly, WaitTypes, PCs
    <2> QED
      BY <1>1, <1>3, <2>1
      DEF TimeoutMoves, Rests, mutexVars, queueVars, semVars, notifyVars, workVars, timerVars, counters
  <1>5. PoolMatches'
    BY <1>1, <1>2 DEF ProbeInv, AsideInv, PoolMatches, poolVars
  <1>6. state[c] = "RUNNING" /\ Blocked(Consumer)
    <2>1. state[c] = "RUNNING" /\ ~pendsv /\ pc[c] = "app"
      BY <1>1, <1>3, CallerFacts DEF InApp, WaitInv
    <2> QED
      BY <1>1, <2>1
      DEF ProbeInv, TurnInv, ConsumerIsNext, TimeoutTask, Consumer, WorkTask
  <1>7. SchedMatches'
    <2>1. CASE Proceed(c, "notify", "create") /\ OnKernel(UNCHANGED kernelVars)
      BY <1>2, <2>1
      DEF Proceed, ProbeInv, AsideInv, SchedMatches, OnKernel, OnWork, kernelVars, lockVars
    <2>2. CASE Proceed(c, "create", "schedlock") /\ OnKernel(Sched!SchedLock)
      <3>1. /\ lockCount = 0 /\ lockCount' = lockCount + 1 /\ schedPending' = schedPending
            /\ state' = state /\ current' = current /\ at'[c] = "schedlock"
        BY <1>1, <2>2
        DEF Proceed, ProbeInv, AsideInv, SchedMatches, OnKernel, OnWork, Sched!SchedLock, Sched!tcbVars
      <3> QED  BY <1>1, <1>6, <3>1 DEF SchedMatches, HoldsProcessor, Blocked
    <2>3. CASE Proceed(c, "schedlock", "yield") /\ OnKernel(YieldCall)
      <3>1. /\ lockCount = 1 /\ lockCount' = lockCount /\ schedPending' = schedPending
            /\ state' = state /\ current' = current /\ at'[c] = "yield"
        BY <1>1, <2>3
        DEF Proceed, ProbeInv, AsideInv, SchedMatches, OnKernel, OnWork, YieldCall, tcbVars, lockVars
      <3> QED  BY <1>1, <1>6, <3>1 DEF SchedMatches, HoldsProcessor, Blocked
    <2>4. CASE Proceed(c, "yield", "schedunlock") /\ OnKernel(Sched!SchedUnlock)
      <3>1. /\ lockCount = 1 /\ lockCount' = lockCount - 1
            /\ IF schedPending THEN schedPending' = FALSE ELSE schedPending' = schedPending
            /\ at'[c] = "schedunlock"
        BY <1>1, <2>4
        DEF Proceed, ProbeInv, AsideInv, SchedMatches, OnKernel, OnWork, Sched!SchedUnlock
      <3> QED  BY <1>1, <3>1 DEF SchedMatches
    <2>5. CASE Proceed(c, "schedunlock", "sleep") /\ OnKernel(Sleep(Pause))
      BY <1>2, <2>5
      DEF Proceed, ProbeInv, AsideInv, SchedMatches, OnKernel, OnWork, Sleep, lockVars
    <2> QED  BY <2>1, <2>2, <2>3, <2>4, <2>5
  <1> QED  BY <1>2, <1>4, <1>5, <1>7, TimeoutTaskMoves

(* The slot it takes for a new task is the one the one-shot task has left.      *)
LEMMA RecreateKeepsProbe ==
    ASSUME WaitInv, ProbeInv, UNCHANGED timerVars, current = TimeoutTask,
           at[TimeoutTask] = "notify", NEW t \in Slots, Recreate(t)
    PROVE  ProbeInv'
  <1> DEFINE c == TimeoutTask
  <1>1. TaskCount = 6 /\ MaxTasks = 6 /\ Sched!TaskCount = TaskCount
    BY DemoFacts, DemoAssumption
    DEF WaitInv, KernelInv, RingIsWhole, TaskCount, Sched!TaskCount
  <1>2. ~Sched!FreshSlot(t) /\ state[t] = "STOPPED"
    BY <1>1 DEF Sched!FreshSlot, Recreate, Sched!Create, Sched!ReusableSlot
  <1>3. t = OneShot
    BY <1>2 DEF ProbeInv, TurnInv
  <1>4. /\ InApp /\ UNCHANGED <<ring, current, pendsv, lockCount, schedPending>>
        /\ WakeTask(OneShot) /\ pc' = [pc EXCEPT ![OneShot] = "app"]
        /\ basePriority' = [basePriority EXCEPT ![OneShot] = 1]
        /\ priority' = [priority EXCEPT ![OneShot] = 1]
        /\ at' = [at EXCEPT ![TimeoutTask] = "create", ![OneShot] = "start"]
        /\ notifyPending' = [notifyPending EXCEPT ![OneShot] = FALSE]
    BY <1>2, <1>3, SchedOnKernel
    DEF Recreate, Sched!Create, Sched!ReusableSlot, Sched!RingAfterCreate, Sched!lockVars
  <1>5. /\ UNCHANGED <<owner, depth, want, call, count, ahead, freeList, freeCount, inUse,
                       pendingItems, workerAt, timeoutCount, exits, reuses>>
        /\ exits # 0 /\ reuseCreated = FALSE /\ reuseCreated' = TRUE
    BY DEF Recreate, WantsReuse, workVars, mutexVars, queueVars, semVars, poolVars, ProbeInv,
           AsideInv, OneShotCounted
  <1>6. /\ KernelTypes /\ at \in [Slots -> Points] /\ c \in Slots \ {Idle}
        /\ {Producer, Consumer, WorkTask} \subseteq Slots \ {c, OneShot, Idle}
        /\ Producer # Consumer /\ OneShot \in Slots \ {c, Idle} /\ Idle \in Slots
    BY PairFacts, AsideTasks, DemoFacts DEF WorkTask, Producer, Consumer, TimeoutTask, OneShot
  <1>7. /\ state' = [state EXCEPT ![OneShot] = "READY"]
        /\ state[c] = "RUNNING" /\ pc[c] = "app"
        /\ at'[c] = "create" /\ at'[OneShot] = "start"
        /\ \A u \in Slots \ {OneShot} : Still(u)
        /\ \A u \in Slots \ {OneShot, c} : at'[u] = at[u]
    BY <1>4, <1>6, CallerFacts DEF WakeTask, Still, Blocked, KernelTypes, InApp, WaitInv
  <1>8. PairInv'
    <2>1. /\ AwaitsMessage' <=> AwaitsMessage
          /\ AwaitsMutex' <=> AwaitsMutex
          /\ Blocked(Consumer)' <=> Blocked(Consumer)
      BY <1>5, <1>6, <1>7 DEF Still, AwaitsMessage, AwaitsMutex
    <2>2. ConsumerUrgent'
      <3>1. ConsumerUrgent
        BY DEF ProbeInv, PairInv
      <3>2. /\ basePriority' \in [Slots -> Nat] /\ basePriority'[Idle] = 0
            /\ \A u \in Slots \ {Idle} : 0 < basePriority'[u]
            /\ \A u \in Slots \ {Consumer} : basePriority'[u] < basePriority'[Consumer]
            /\ 1 < basePriority'[Consumer] /\ basePriority'[Consumer] = basePriority[Consumer]
        BY <1>4, <1>6, <3>1 DEF ConsumerUrgent
      <3>3. priority' = [basePriority' EXCEPT ![Producer] =
                            IF AwaitsMutex THEN basePriority'[Consumer] ELSE @]
        BY <1>4, <1>6, <3>1 DEF ConsumerUrgent
      <3> QED  BY <2>1, <3>2, <3>3 DEF ConsumerUrgent
    <2>3. LocksMatch'
      BY <1>5, <1>6, <1>7 DEF ProbeInv, PairInv, LocksMatch, LockDepth
    <2>4. Handover'
      BY <1>5, <1>6, <1>7, <2>1 DEF ProbeInv, PairInv, Still, Handover, NeverTimesOut, NoArgs
    <2>5. CountsMatch'
      BY <1>5, <1>6, <1>7, <2>1 DEF ProbeInv, PairInv, CountsMatch, HasMessage
    <2> QED  BY <2>2, <2>3, <2>4, <2>5 DEF PairInv
  <1>9. TurnInv'
    <2>1. Acts(c)
      BY <1>4, <1>7 DEF Acts, InApp, timerVars
    <2>2. OthersStay(c)
      BY <1>6, <1>7 DEF OthersStay, Still, KernelTypes
    <2> QED  BY <1>6, <2>1, <2>2, TurnAfterStep DEF ProbeInv
  <1>10. AsideInv'
    <2>1. SchedMatches' /\ timeoutCount' = 0
      BY <1>4, <1>5, <1>7 DEF ProbeInv, AsideInv, SchedMatches
    <2>2. PoolMatches'
      BY <1>5, <1>7 DEF ProbeInv, AsideInv, PoolMatches
    <2>3. WorkerTold'
      <3>1. WorkerStill
        BY <1>4, <1>5, <1>6, <1>7 DEF WorkerStill, ProbeInv, AsideInv, WorkerTold
      <3> QED  BY <3>1, AsideFrames DEF ProbeInv, AsideInv
    <2>4. OneShotCounted'
      BY <1>5, <1>7 DEF ProbeInv, AsideInv, OneShotCounted
    <2> QED  BY <2>1, <2>2, <2>3, <2>4 DEF AsideInv
  <1> QED  BY <1>8, <1>9, <1>10 DEF ProbeInv

LEMMA TrySchedulerKeepsProbe ==
    ASSUME WaitInv, ProbeInv, TryScheduler, UNCHANGED timerVars
    PROVE  ProbeInv'
  BY RecreateKeepsProbe, SchedCallsKeepProbe DEF TryScheduler, timerVars

(* The one-shot task.                                                           *)
LEMMA RunOnceKeepsProbe ==
    ASSUME WaitInv, ProbeInv, RunOnce, UNCHANGED timerVars
    PROVE  ProbeInv'
  <1> DEFINE c == OneShot
  <1>1. /\ c = current /\ c \in Slots \ {Idle, Producer, Consumer} /\ c # TimeoutTask
        /\ TimeoutTask \in Slots \ {c} /\ WorkTask \in Slots \ {c} /\ KernelTypes
        /\ at \in [Slots -> Points]
        /\ UNCHANGED <<mutexVars, queueVars, semVars, poolVars, notifyVars, workVars>>
        /\ ahead' = ahead /\ reuseCreated' = reuseCreated
    BY AsideTasks, PairFacts DEF RunOnce, Proceed, OnKernel, OnWork, counters
  <1>2. /\ InApp /\ Rests /\ UNCHANGED <<lockCount, schedPending>>
        /\ state[c] = "RUNNING" /\ pc[c] = "app"
        /\ \A t \in Slots \ {c} : at'[t] = at[t]
    <2>1. InApp /\ Rests /\ UNCHANGED <<lockCount, schedPending>>
      <3>1. CASE InApp /\ OnKernel(UNCHANGED kernelVars)
        BY <3>1 DEF OnKernel, OnWork, kernelVars, ringVars, lockVars, Rests, timerVars
      <3>2. CASE OnKernel(Sched!Exit)
        BY <3>2, SchedOnKernel
        DEF OnKernel, OnWork, Sched!Exit, Sched!ringVars, Sched!lockVars, Rests, timerVars
      <3> QED  BY <3>1, <3>2 DEF RunOnce
    <2> QED  BY <1>1, <2>1, CallerFacts DEF InApp, WaitInv, RunOnce, Proceed
  <1>3. Alone(c) /\ state'[c] \in {"RUNNING", "BLOCKED", "STOPPED"} /\ OneShotCounted'
    <2>1. CASE Proceed(c, "start", "counted") /\ InApp /\ OnKernel(UNCHANGED kernelVars)
               /\ IF exits = 0
                  THEN exits' = exits + 1 /\ UNCHANGED reuses
                  ELSE reuses' = reuses + 1 /\ UNCHANGED exits
      <3>1. Alone(c) /\ state'[c] = "RUNNING"
        BY <1>2, <2>1 DEF OnKernel, OnWork, kernelVars, tcbVars, Alone, Still, Blocked
      <3>2. OneShotCounted'
        <4>1. at[c] = "start" /\ at'[c] = "counted"
          BY <1>1, <2>1 DEF Proceed
        <4>2. \/ exits = 0 /\ reuses = 0 /\ reuseCreated = FALSE
              \/ exits = 1 /\ reuses = 0 /\ reuseCreated = TRUE
          BY <4>1 DEF ProbeInv, AsideInv, OneShotCounted
        <4>3. \/ exits' = 1 /\ reuses' = 0 /\ reuseCreated' = FALSE
              \/ exits' = 1 /\ reuses' = 1 /\ reuseCreated' = TRUE
          BY <1>1, <2>1, <4>2
        <4> QED  BY <4>1, <4>3 DEF OneShotCounted
      <3> QED  BY <3>1, <3>2
    <2>2. CASE Proceed(c, "counted", "exit") /\ OnKernel(Sched!Exit) /\ UNCHANGED counters
      <3>1. Alone(c) /\ state'[c] = "STOPPED"
        BY <1>1, <2>2, SchedOnKernel
        DEF OnKernel, OnWork, Sched!Exit, Alone, Still, Blocked, GoTo, KernelTypes
      <3>2. at[c] = "counted" /\ at'[c] = "exit"
        BY <1>1, <2>2 DEF Proceed
      <3> QED  BY <2>2, <3>1, <3>2 DEF ProbeInv, AsideInv, OneShotCounted, counters
    <2> QED  BY <2>1, <2>2 DEF RunOnce
  <1>4. UNCHANGED <<owner, depth, want, call, count, ahead>>
    BY <1>1 DEF mutexVars, queueVars
  <1>5. PairInv' /\ TurnInv'
    BY <1>1, <1>2, <1>3, <1>4, AsideStep DEF InApp
  <1>6. AsideInv'
    <2>1. WorkerStill
      BY <1>1, <1>3 DEF WorkerStill, Alone, workVars, notifyVars, ProbeInv, AsideInv, WorkerTold
    <2>2. SchedStill /\ Still(TimeoutTask)
      BY <1>1, <1>2, <1>3 DEF SchedStill, Alone
    <2>3. UNCHANGED <<freeList, freeCount, inUse, timeoutCount>>
      BY <1>1 DEF poolVars, semVars
    <2> QED  BY <1>1, <1>3, <2>1, <2>2, <2>3, AsideKept, AsideFrames DEF ProbeInv, AsideInv
  <1> QED  BY <1>5, <1>6 DEF ProbeInv

(* The rest of a wait that is not for the mutex or the queue.                   *)
LEMMA WaitEnds ==
    ASSUME WaitInv, ProbeInv, Resuming, Rests, GoTo("app"), current # Consumer,
           UNCHANGED <<state, delay, waitResult, lockCount, schedPending>>,
           waitType' \in {waitType, [waitType EXCEPT ![current] = "NONE"]},
           UNCHANGED <<at, owner, depth, want, call, count, counters, freeList, freeCount,
                       inUse, timeoutCount, pendingItems, workerAt>>,
           notifyPending' \in [Slots -> BOOLEAN],
           current # WorkTask => notifyPending'[WorkTask] = notifyPending[WorkTask]
    PROVE  ProbeInv'
  <1>1. PICK c \in Slots \ {Idle} : c = current
    BY CallerFacts DEF Resuming, WaitInv
  <1>2. /\ state[c] = "RUNNING" /\ pc[c] = "resume" /\ ~pendsv /\ KernelTypes
        /\ {TimeoutTask, OneShot, WorkTask, Producer, Consumer} \subseteq Slots
    BY <1>1, CallerFacts, DemoFacts DEF Resuming, WaitInv, KernelInv
  <1>3. Alone(c) /\ state' = state
    <2>1. Quietly(c)
      BY <1>1 DEF Quietly, PCs
    <2> QED  BY <1>1, <1>2, <2>1, QuietlyAlone
  <1>4. PairInv'
    <2>1. PairStill
      BY <1>1, <1>2, <1>3 DEF PairStill, Rests, Alone, counters
    <2> QED  BY <2>1, PairFrame DEF ProbeInv
  <1>5. TurnInv'
    <2>1. Acts(c) /\ OthersStay(c)
      BY <1>1, <1>2, <1>3 DEF Acts, OthersStay, Rests, Blocked
    <2> QED  BY <2>1, TurnAfterStep DEF ProbeInv
  <1>6. SchedMatches'
    BY <1>3
    DEF ProbeInv, AsideInv, SchedMatches, HoldsProcessor, Rests, Blocked
  <1>7. PoolMatches' /\ OneShotCounted' /\ timeoutCount' = 0
    <2>1. PoolStill /\ OneShotStill
      BY <1>1, <1>2, <1>3 DEF PoolStill, OneShotStill, Blocked, GoTo, KernelTypes, counters
    <2> QED  BY <2>1, AsideFrames DEF ProbeInv, AsideInv
  <1>8. WorkerTold'
    <2>1. CASE c = WorkTask
      BY <1>1, <1>2, <1>3, <2>1
      DEF ProbeInv, AsideInv, WorkerTold, NeverTimesOut, Blocked
    <2>2. CASE c # WorkTask
      <3>1. WorkerStill
        BY <1>1, <1>2, <1>3, <2>2 DEF WorkerStill, Alone
      <3> QED  BY <3>1, AsideFrames DEF ProbeInv, AsideInv
    <2> QED  BY <2>1, <2>2
  <1> QED  BY <1>4, <1>5, <1>6, <1>7, <1>8 DEF ProbeInv, AsideInv

LEMMA FinishCallKeepsProbe ==
    ASSUME WaitInv, ProbeInv, FinishCall, UNCHANGED <<at, counters, timerVars>>
    PROVE  ProbeInv'
  <1>1. current \in Slots /\ Placed(current) /\ notifyPending \in [Slots -> BOOLEAN]
        /\ WorkTask \in Slots
    BY AsideTasks, TasksAreSlots
    DEF WaitInv, KernelInv, KernelTypes, ProbeInv, AsideInv, WorkerTold
  <1>2. at[current] \in {"sem", "events", "alloc"} =>
           current # Consumer /\ current = TimeoutTask /\ current # WorkTask
    BY <1>1 DEF Placed, CallOf, Consumer, TimeoutTask, WorkTask
  <1>3. CASE at[current] = "sem" /\ OnTimeoutSem(TimeoutSem!EndWait)
    <2>1. TimeoutSem!EndWait /\ UNCHANGED <<mutexVars, queueVars, poolVars, notifyVars, workVars>>
      BY <1>3 DEF OnTimeoutSem, OnSems
    <2> QED
      BY <1>1, <1>2, <1>3, <2>1, WaitEnds, TimeoutSemOnKernel
      DEF TimeoutSem!EndWait, TimeoutSem!ringVars, TimeoutSem!lockVars, Rests, timerVars,
          mutexVars, queueVars, poolVars, notifyVars, workVars
  <1>4. CASE at[current] = "events" /\ OnEvents(Events!EndWait)
    <2>1. /\ Events!EndWait
          /\ UNCHANGED <<mutexVars, queueVars, semVars, poolVars, notifyVars, workVars>>
      BY <1>4 DEF OnEvents
    <2> QED
      BY <1>1, <1>2, <1>4, <2>1, WaitEnds, EventsOnKernel
      DEF Events!EndWait, Events!ringVars, Events!lockVars, Rests, timerVars,
          mutexVars, queueVars, semVars, poolVars, notifyVars, workVars
  <1>5. ~(at[current] = "alloc" /\ OnPool(Pool!EndWait))
    BY <1>2, PoolOnKernel
    DEF OnPool, Pool!EndWait, Resuming, ProbeInv, AsideInv, PoolMatches
  <1>6. CASE OnNotify(Work!EndNotifyWait)
    <2>1. /\ Resuming /\ waitType[current] = "NOTIFICATION"
          /\ waitType' = [waitType EXCEPT ![current] = "NONE"] /\ GoTo("app")
          /\ UNCHANGED <<ring, basePriority, priority, current, pendsv, state, delay, waitResult,
                         lockCount, schedPending>>
      BY <1>6, WorkOnKernel
      DEF OnNotify, OnWork, Work!EndNotifyWait, Work!ringVars, Work!lockVars
    <2>2. \/ notifyPending' = notifyPending
          \/ \E v \in BOOLEAN : notifyPending' = [notifyPending EXCEPT ![current] = v]
      <3>1. CASE waitResult[current] = "TIMEOUT"
        BY <1>6, <3>1 DEF OnNotify, OnWork, Work!EndNotifyWait
      <3>2. CASE waitResult[current] # "TIMEOUT"
        BY <1>1, <1>6, <3>2 DEF OnNotify, OnWork, Work!EndNotifyWait, Work!TakeValue
      <3> QED  BY <3>1, <3>2
    <2>3. /\ notifyPending' \in [Slots -> BOOLEAN]
          /\ current # WorkTask => notifyPending'[WorkTask] = notifyPending[WorkTask]
      BY <1>1, <2>2
    <2>4. current # Consumer
      BY <2>1 DEF ProbeInv, PairInv, Handover
    <2>5. Rests /\ UNCHANGED <<mutexVars, queueVars, semVars, poolVars, workVars>>
      BY <1>6, <2>1 DEF OnNotify, OnWork, Rests, timerVars
    <2> QED
      BY <2>1, <2>3, <2>4, <2>5, WaitEnds
      DEF mutexVars, queueVars, semVars, poolVars, workVars
  <1>7. CASE \/ want[current] # <<>> /\ OnMutex(Mutex!EndWait \/ Mutex!Retry)
             \/ call[current] # Queue!NoCall /\ OnQueue(Queue!EndWait \/ Queue!Retry)
    BY <1>7, PairFinishesCall
  <1> QED  BY <1>3, <1>4, <1>5, <1>6, <1>7 DEF FinishCall

(* The worker goes to sleep when nothing has been submitted since it found the  *)
(* queue empty.                                                                 *)
LEMMA WorkerStepKeepsProbe ==
    ASSUME WaitInv, ProbeInv, OnWork(Work!WorkerStep), UNCHANGED <<at, counters, timerVars>>
    PROVE  ProbeInv'
  <1> DEFINE c == WorkTask
  <1>1. /\ c = current /\ c \in Slots \ {Idle, Producer, Consumer} /\ c # TimeoutTask
        /\ TimeoutTask \in Slots \ {c} /\ KernelTypes
        /\ UNCHANGED <<mutexVars, queueVars, semVars, poolVars>>
    BY AsideTasks, PairFacts
    DEF OnWork, Work!WorkerStep, Work!WorkerAwaits, Work!WorkerPops, Work!HandlerReturns
  <1>2. /\ pendingItems \in Nat /\ notifyPending \in [Slots -> BOOLEAN] /\ NeverTimesOut(c)
        /\ workerAt = "await" => pendingItems = 0 \/ notifyPending[c]
    BY DEF ProbeInv, AsideInv, WorkerTold
  <1>3. ASSUME InApp, UNCHANGED kernelVars
        PROVE  /\ Rests /\ UNCHANGED <<lockCount, schedPending>> /\ Quietly(c)
               /\ Still(c) /\ pc'[c] = "app" /\ ~Blocked(c)'
    BY <1>1, <1>3, CallerFacts
    DEF kernelVars, ringVars, lockVars, tcbVars, Rests, Quietly, Still, Blocked, timerVars, InApp,
        WaitInv
  <1>4. /\ InApp /\ Rests /\ UNCHANGED <<lockCount, schedPending>> /\ Quietly(c) /\ WorkerTold'
    <2>1. CASE Work!WorkerAwaits
      <3>1. /\ workerAt = "await" /\ workerAt' = "drain" /\ pendingItems' = pendingItems
            /\ InApp /\ UNCHANGED <<ring, basePriority, priority, current, pendsv>>
            /\ UNCHANGED <<lockCount, schedPending>>
        BY <2>1, WorkOnKernel
        DEF Work!WorkerAwaits, Work!NotifyWait, Work!ringVars, Work!lockVars
      <3>2. CASE notifyPending[c]
        <4>1. /\ UNCHANGED <<state, delay, waitType, waitResult, pc>>
              /\ \E v \in BOOLEAN : notifyPending' = [notifyPending EXCEPT ![c] = v]
          BY <1>1, <1>2, <2>1, <3>2
          DEF Work!WorkerAwaits, Work!NotifyWait, Work!TakeValue, Work!tcbVars
        <4>2. notifyPending' \in [Slots -> BOOLEAN] /\ ~Blocked(c)' /\ NeverTimesOut(c)'
          BY <1>1, <1>2, <3>1, <4>1, CallerFacts DEF InApp, WaitInv, Blocked, NeverTimesOut
        <4> QED
          BY <1>1, <1>2, <3>1, <4>1, <4>2 DEF WorkerTold, Rests, Quietly, timerVars
      <3>3. CASE ~notifyPending[c]
        <4>1. Work!FOREVER = FOREVER /\ FOREVER # 0 /\ FOREVER \in Nat /\ MsToTicks(FOREVER) = 0
          BY PairFacts, WordAssumption DEF Work!FOREVER, FOREVER
        <4>2. BlockCurrent("NOTIFICATION", FOREVER, "block") /\ notifyPending' = notifyPending
          BY <1>1, <2>1, <3>3, <4>1, WorkOnKernel DEF Work!WorkerAwaits, Work!NotifyWait
        <4>3. /\ NeverTimesOut(c)' /\ waitType'[c] = "NOTIFICATION" /\ pendingItems' = 0
          BY <1>1, <1>2, <3>1, <3>3, <4>1, <4>2
          DEF BlockCurrent, NeverTimesOut, Blocked, KernelTypes
        <4>4. Quietly(c)
          BY <1>1, <4>1, <4>2 DEF Quietly, WaitTypes, PCs
        <4> QED
          BY <1>2, <3>1, <4>2, <4>3, <4>4 DEF WorkerTold, Rests, timerVars
      <3> QED  BY <3>2, <3>3
    <2>2. CASE Work!WorkerPops
      <3>1. /\ InApp /\ UNCHANGED kernelVars /\ notifyPending' = notifyPending
            /\ IF pendingItems = 0 THEN pendingItems' = 0
               ELSE pendingItems' = pendingItems - 1 /\ workerAt' = "handle"
        BY <2>2, WorkOnKernel
        DEF Work!WorkerPops, Work!kernelVars, kernelVars, Work!ringVars, Work!lockVars,
            Work!tcbVars, ringVars, lockVars, tcbVars, Work!notifyVars
      <3> QED  BY <1>2, <1>3, <3>1 DEF WorkerTold, Still, NeverTimesOut
    <2>3. CASE Work!HandlerReturns
      <3>1. /\ InApp /\ UNCHANGED kernelVars /\ notifyPending' = notifyPending
            /\ pendingItems' = pendingItems /\ workerAt' = "drain"
        BY <2>3, WorkOnKernel
        DEF Work!HandlerReturns, Work!kernelVars, kernelVars, Work!ringVars, Work!lockVars,
            Work!tcbVars, ringVars, lockVars, tcbVars, Work!notifyVars
      <3> QED  BY <1>2, <1>3, <3>1 DEF WorkerTold, Still, NeverTimesOut
    <2> QED  BY <2>1, <2>2, <2>3 DEF OnWork, Work!WorkerStep
  <1>5. Alone(c) /\ state'[c] \in {"RUNNING", "BLOCKED"}
    BY <1>1, <1>4, QuietlyAlone, CallerFacts DEF InApp, WaitInv
  <1>6. PairInv' /\ TurnInv'
    BY <1>1, <1>4, <1>5, AsideStep DEF InApp, mutexVars, queueVars, counters
  <1>7. AsideInv'
    <2>1. SchedStill /\ Still(TimeoutTask) /\ OneShotStill
      BY <1>1, <1>4, <1>5 DEF SchedStill, OneShotStill, Alone, counters
    <2>2. UNCHANGED <<freeList, freeCount, inUse, timeoutCount>>
      BY <1>1 DEF poolVars, semVars
    <2> QED  BY <1>1, <1>4, <2>1, <2>2, AsideKept, AsideFrames DEF ProbeInv, AsideInv
  <1> QED  BY <1>6, <1>7 DEF ProbeInv

LEMMA TaskStepKeepsProbe ==
    ASSUME WaitInv, ProbeInv, TaskStep, UNCHANGED timerVars
    PROVE  ProbeInv'
  BY ProducerKeepsProbe, ConsumerKeepsProbe, RunOnceKeepsProbe, TrySchedulerKeepsProbe,
     TryObjectsKeepsProbe, FinishCallKeepsProbe, WorkerStepKeepsProbe DEF TaskStep

-------------------------------------------------------------------------------
(* The handler of SysTick wakes tasks, neither the consumer nor the worker by a *)
(* timeout, and never changes who has the processor.                            *)
Interrupts ==
    /\ UNCHANGED <<ring, basePriority, priority, current, pc, lockCount, schedPending>>
    /\ UNCHANGED <<at, counters, owner, depth, want, call, count, freeList, freeCount, inUse,
                   timeoutCount, workerAt>>
    /\ pendsv' \in {pendsv, TRUE} /\ (firing' => inTick') /\ (inTick' \/ pendsv' = TRUE)
    /\ Still(Consumer)
    /\ \A t \in Slots : state'[t] = state[t] \/ (Blocked(t) /\ state'[t] = "READY")
LEMMA InterruptStep ==
    ASSUME WaitInv, ProbeInv, Interrupts, WorkerTold'
    PROVE  ProbeInv'
  <1>1. {TimeoutTask, OneShot, Producer, Consumer} \subseteq Slots
    BY DemoFacts
  <1>2. PairInv'
    <2>1. PairStill
      BY DEF PairStill, Interrupts, counters
    <2> QED  BY <2>1, PairFrame DEF ProbeInv
  <1>3. TurnInv'
    <2>1. RingHasAll'
      BY DEF ProbeInv, TurnInv, Interrupts, RingHasAll, TaskCount, Tasks
    <2>2. ConsumerIsNext'
      <3>1. /\ Blocked(Consumer)' <=> Blocked(Consumer)
            /\ current' = current /\ pc' = pc /\ at' = at
        BY DEF Interrupts, Still
      <3>2. ConsumerIsNext /\ (pendsv' = pendsv \/ pendsv' = TRUE)
        BY DEF ProbeInv, TurnInv, Interrupts
      <3>3. CASE pendsv' = pendsv
        BY <3>1, <3>2, <3>3 DEF ConsumerIsNext
      <3>4. CASE pendsv' = TRUE
        BY <3>4 DEF ConsumerIsNext
      <3> QED  BY <3>2, <3>3, <3>4
    <2>3. /\ \A t \in Slots : state'[t] = "RUNNING" => t = current'
          /\ \A t \in Slots \ {OneShot} : state'[t] # "STOPPED"
      <3>1. ASSUME NEW t \in Slots
            PROVE  /\ state'[t] = "RUNNING" => state[t] = "RUNNING"
                   /\ state'[t] = "STOPPED" => state[t] = "STOPPED"
        BY DEF Interrupts
      <3> QED  BY <3>1 DEF ProbeInv, TurnInv, Interrupts
    <2>4. (firing' => inTick') /\ ~AllIsQuiet'
      BY DEF Interrupts, AllIsQuiet
    <2> QED  BY <2>1, <2>2, <2>3, <2>4 DEF TurnInv
  <1>4. SchedMatches'
    <2>1. state[current] = "RUNNING" => state'[current] = "RUNNING"
      <3>1. current \in Slots
        BY TasksAreSlots DEF WaitInv, KernelInv, KernelTypes
      <3> QED  BY <3>1 DEF Interrupts, Blocked
    <2> QED
      BY <2>1 DEF ProbeInv, AsideInv, SchedMatches, HoldsProcessor, Interrupts, Still
  <1>5. PoolMatches' /\ OneShotCounted' /\ timeoutCount' = 0
    <2>1. PoolStill /\ OneShotStill
      BY <1>1 DEF PoolStill, OneShotStill, Interrupts, Blocked, counters
    <2> QED  BY <2>1, AsideFrames DEF ProbeInv, AsideInv, Interrupts
  <1> QED  BY <1>2, <1>3, <1>4, <1>5 DEF ProbeInv, AsideInv

LEMMA TickBeginsKeepsProbe ==
    ASSUME WaitInv, ProbeInv, TickBegins, UNCHANGED <<at, counters>>
    PROVE  ProbeInv'
  <1>1. /\ TaskTick /\ inTick' = TRUE /\ waitType' = waitType /\ pendsv' = pendsv
        /\ UNCHANGED <<ring, basePriority, priority, current, pc, lockCount, schedPending>>
        /\ UNCHANGED <<mutexVars, queueVars, semVars, poolVars, notifyVars, workVars>>
    BY DEF TickBegins, OnKernel, OnWork, Timer!BeginWalk, ringVars, lockVars
  <1>2. ASSUME NEW t \in Slots
        PROVE  /\ state'[t] = state[t] \/ (Blocked(t) /\ state'[t] = "READY")
               /\ NeverTimesOut(t) => Still(t)
    BY <1>1 DEF TaskTick, Counting, Expiring, Blocked, NeverTimesOut, Still
  <1>3. Still(Consumer) /\ Still(WorkTask)
    BY <1>2, AsideTasks, PairFacts
    DEF ProbeInv, PairInv, Handover, AsideInv, WorkerTold
  <1>4. Interrupts
    BY <1>1, <1>2, <1>3 DEF Interrupts, mutexVars, queueVars, semVars, poolVars, workVars
  <1>5. WorkerTold'
    <2>1. WorkerStill
      BY <1>1, <1>3 DEF WorkerStill, workVars, notifyVars, ProbeInv, AsideInv, WorkerTold
    <2> QED  BY <2>1, AsideFrames DEF ProbeInv, AsideInv
  <1> QED  BY <1>4, <1>5, InterruptStep

(* It walks the timer list, and asks for a switch at its end.                   *)
LEMMA WalkKeepsProbe ==
    ASSUME WaitInv, ProbeInv, Walks \/ TickEnds, UNCHANGED <<at, counters>>
    PROVE  ProbeInv'
  <1>1. /\ UNCHANGED <<ring, basePriority, priority, current, pc, lockCount, schedPending>>
        /\ UNCHANGED <<state, delay, waitType, waitResult>>
        /\ UNCHANGED <<mutexVars, queueVars, semVars, poolVars, notifyVars, workVars>>
        /\ pendsv' \in {pendsv, TRUE} /\ (firing' => inTick') /\ (inTick' \/ pendsv' = TRUE)
    <2>1. CASE Walks
      <3>1. inTick /\ inTick' = inTick
        BY <2>1
        DEF Walks, Timer!PassOver, Timer!CountDown, Timer!CallbackReturns, ProbeInv, TurnInv
      <3> QED
        BY <2>1, <3>1
        DEF Walks, OnKernel, OnWork, kernelVars, ringVars, lockVars, tcbVars
    <2>2. CASE TickEnds
      BY <2>2
      DEF TickEnds, Timer!EndWalk, OnKernel, OnWork, ringVars, lockVars, tcbVars
    <2> QED  BY <2>1, <2>2
  <1>2. \A t \in Slots : Still(t) /\ state'[t] = state[t]
    BY <1>1 DEF Still, Blocked
  <1>3. Interrupts
    BY <1>1, <1>2, PairFacts DEF Interrupts, mutexVars, queueVars, semVars, poolVars, workVars
  <1>4. WorkerTold'
    <2>1. WorkerStill
      BY <1>1, <1>2, AsideTasks
      DEF WorkerStill, workVars, notifyVars, ProbeInv, AsideInv, WorkerTold
    <2> QED  BY <2>1, AsideFrames DEF ProbeInv, AsideInv
  <1> QED  BY <1>3, <1>4, InterruptStep

(* timer_callback() wakes none but the timeout task and the worker.             *)
LEMMA SignalKeepsProbe ==
    ASSUME WaitInv, ProbeInv, firing, UNCHANGED <<at, counters, timerVars>>,
           UNCHANGED <<ring, basePriority, priority, current, pc, lockCount, schedPending>>,
           UNCHANGED <<owner, depth, want, call, count, freeList, freeCount, inUse,
                       timeoutCount, workerAt>>,
           pendsv' \in {pendsv, TRUE},
           NEW t \in Slots \ {Consumer}, \A u \in Slots \ {t} : Still(u) /\ state'[u] = state[u],
           state'[t] = state[t] \/ (Blocked(t) /\ state'[t] = "READY"), WorkerTold'
    PROVE  ProbeInv'
  <1>1. inTick' /\ Still(Consumer)
    BY PairFacts DEF timerVars, ProbeInv, TurnInv
  <1>2. \A u \in Slots : state'[u] = state[u] \/ (Blocked(u) /\ state'[u] = "READY")
    OBVIOUS
  <1>3. Interrupts
    BY <1>1, <1>2 DEF Interrupts
  <1> QED  BY <1>3, InterruptStep

LEMMA NotifyIsrServes ==
    ASSUME WaitInv, NEW t \in {TimeoutTask, WorkTask}, NEW bits, Work!NotifyIsr(t, bits)
    PROVE  /\ UNCHANGED <<ring, basePriority, priority, current, pc, lockCount, schedPending>>
           /\ UNCHANGED <<waitType, waitResult>> /\ pendsv' \in {pendsv, TRUE}
           /\ notifyPending' = [notifyPending EXCEPT ![t] = TRUE]
           /\ \A u \in Slots \ {t} : Still(u) /\ state'[u] = state[u]
           /\ state'[t] = state[t] \/ (Blocked(t) /\ state'[t] = "READY")
           /\ waitType[t] = "NOTIFICATION" /\ waitResult[t] = "OK" => ~Blocked(t)'
  <1>1. /\ KernelTypes /\ t \in Slots
    BY DemoFacts DEF WaitInv, KernelInv
  <1>2. /\ UNCHANGED <<ring, basePriority, priority, current, pc, lockCount, schedPending>>
        /\ UNCHANGED <<waitType, waitResult>>
        /\ notifyPending' = [notifyPending EXCEPT ![t] = TRUE]
    BY DEF Work!NotifyIsr, Work!NotifyCommon, Work!ringVars, Work!lockVars
  <1>3. \/ /\ StillWaiting(t) /\ waitType[t] = "NOTIFICATION" /\ pendsv' = TRUE
           /\ state' = [state EXCEPT ![t] = "READY"]
           /\ delay' = [delay EXCEPT ![t] = 0]
        \/ /\ ~(StillWaiting(t) /\ waitType[t] = "NOTIFICATION")
           /\ pendsv' = pendsv /\ UNCHANGED <<state, delay>>
    <2>1. pendsv \in BOOLEAN
      BY <1>1 DEF KernelTypes
    <2> QED
      BY <2>1, WorkOnKernel
      DEF Work!NotifyIsr, Work!NotifyCommon, Work!WokenBy, Work!AwaitsNotification
  <1>4. /\ pendsv' \in {pendsv, TRUE}
        /\ state'[t] = state[t] \/ (Blocked(t) /\ state'[t] = "READY")
        /\ waitType[t] = "NOTIFICATION" /\ waitResult[t] = "OK" => ~Blocked(t)'
    BY <1>1, <1>3 DEF KernelTypes, StillWaiting, Blocked
  <1>5. \A u \in Slots \ {t} : Still(u) /\ state'[u] = state[u]
    <2> SUFFICES ASSUME NEW u \in Slots \ {t} PROVE Still(u) /\ state'[u] = state[u]
      OBVIOUS
    <2>1. state'[u] = state[u] /\ delay'[u] = delay[u]
      BY <1>1, <1>3 DEF KernelTypes
    <2> QED  BY <1>2, <2>1 DEF Still, Blocked
  <1> QED  BY <1>2, <1>4, <1>5

(* No task ever waits for the semaphore that the callback posts.                *)
LEMMA NobodyWaitsForIsrSem ==
    ASSUME WaitInv
    PROVE  NobodyWaits(isrWaiters)
  <1>1. lists["isr"] = isrWaiters /\ "isr" \in Places /\ Tasks = Slots
    BY ListsByPlace, TasksAreSlots DEF Places, WaitInv, KernelInv
  <1>2. Listed(isrWaiters, "isr")
    BY <1>1 DEF WaitInv, AllListed
  <1> SUFFICES ASSUME ~NobodyWaits(isrWaiters) PROVE FALSE
    OBVIOUS
  <1>3. PICK t : t = Chosen(isrWaiters)
    OBVIOUS
  <1>4. t \in Slots /\ StillWaiting(t) /\ Linked(isrWaiters, t)
    BY <1>2, <1>3, ChosenWaits DEF WaitInv, Listed
  <1>5. Place(t) = "isr" /\ CallOf(t)
    BY <1>1, <1>2, <1>4 DEF Listed, WaitInv, Placed
  <1>6. call[t] # Queue!NoCall => call[t].op # "isr"
    BY <1>5, DemoFacts DEF CallOf
  <1> QED  BY <1>5, <1>6 DEF Place

LEMMA CallbackKeepsProbe ==
    ASSUME WaitInv, ProbeInv, CallbackStep, UNCHANGED <<at, counters>>
    PROVE  ProbeInv'
  <1>1. firing /\ UNCHANGED timerVars
    BY DEF CallbackStep
  <1>2. TimeoutTask \in Slots \ {Consumer} /\ WorkTask \in Slots \ {Consumer}
        /\ WorkTask # TimeoutTask
    BY AsideTasks
  <1>3. WorkerTold /\ KernelTypes
    BY DEF ProbeInv, AsideInv, WaitInv, KernelInv
  <1>4. ASSUME UNCHANGED <<ring, basePriority, priority, current, pc, lockCount, schedPending>>,
               pendsv' = pendsv, UNCHANGED tcbVars, UNCHANGED <<mutexVars, queueVars, poolVars>>,
               timeoutCount' = timeoutCount, UNCHANGED <<notifyVars, workVars>>
        PROVE  ProbeInv'
    <2>1. \A u \in Slots : Still(u) /\ state'[u] = state[u]
      BY <1>4 DEF tcbVars, Still, Blocked
    <2>2. WorkerTold'
      <3>1. WorkerStill
        BY <1>2, <1>3, <1>4, <2>1 DEF WorkerStill, WorkerTold, notifyVars, workVars
      <3> QED  BY <1>3, <3>1, AsideFrames
    <2> QED
      BY <1>1, <1>2, <1>4, <2>1, <2>2, SignalKeepsProbe
      DEF mutexVars, queueVars, poolVars, workVars
  <1>5. CASE OnEvents(Events!SetIsr({Flag}))
    <2>0. PICK raised : raised = {Flag}
      OBVIOUS
    <2>1. PICK s : s = Events!Scanned(raised)
      OBVIOUS
    <2>2. /\ Events!SetIsr(raised)
          /\ UNCHANGED <<mutexVars, queueVars, semVars, poolVars, notifyVars, workVars>>
      BY <1>5, <2>0 DEF OnEvents
    <2>3. /\ UNCHANGED <<ring, basePriority, lockCount, schedPending, current, priority, pc>>
          /\ pendsv' = (pendsv \/ s.woken # {})
          /\ state' = [t \in Slots |-> IF t \in s.woken THEN "READY" ELSE state[t]]
          /\ delay' = [t \in Slots |-> IF t \in s.woken THEN 0 ELSE delay[t]]
          /\ waitType' = [t \in Slots |-> IF t \in s.woken THEN "NONE" ELSE waitType[t]]
          /\ waitResult' = [t \in Slots |-> IF t \in s.woken THEN "OK" ELSE waitResult[t]]
          /\ s.woken = {} \/ (s.woken = {TimeoutTask} /\ StillWaiting(TimeoutTask))
      <3>1. Events!SetIsr(raised) /\ s = Events!Scanned(raised)
        BY <2>1, <2>2
      <3> QED  BY <3>1, SetIsrServes
    <2>4. pendsv' \in {pendsv, TRUE}
      BY <1>3, <2>3 DEF KernelTypes
    <2>5. \A u \in Slots \ {TimeoutTask} : Still(u) /\ state'[u] = state[u]
      BY <2>3 DEF Still, Blocked
    <2>6. state'[TimeoutTask] = state[TimeoutTask]
          \/ (Blocked(TimeoutTask) /\ state'[TimeoutTask] = "READY")
      BY <1>2, <2>3 DEF Blocked, StillWaiting
    <2>7. WorkerTold'
      <3>1. WorkerStill
        BY <1>2, <1>3, <2>2, <2>5 DEF WorkerStill, WorkerTold, notifyVars, workVars
      <3> QED  BY <1>3, <3>1, AsideFrames
    <2> QED
      BY <1>1, <1>2, <2>2, <2>3, <2>4, <2>5, <2>6, <2>7, SignalKeepsProbe
      DEF mutexVars, queueVars, semVars, poolVars, workVars
  <1>6. CASE OnIsrSem(IsrSem!PostIsr)
    <2>1. NobodyWaits(isrWaiters)
      BY NobodyWaitsForIsrSem
    <2>2. UNCHANGED tcbVars /\ pendsv' = pendsv
      BY <1>3, <1>6, <2>1, IsrSemOnKernel
      DEF OnIsrSem, OnSems, IsrSem!PostIsr, IsrSem!PostCommon, WakeFirst, KernelTypes
    <2> QED
      BY <1>4, <1>6, <2>2
      DEF OnIsrSem, OnSems, IsrSem!PostIsr, IsrSem!PostCommon, IsrSem!ringVars, IsrSem!lockVars
  <1>7. CASE OnNotify(Work!NotifyIsr(TimeoutTask, {Bit}))
    <2>1. /\ Work!NotifyIsr(TimeoutTask, {Bit})
          /\ UNCHANGED <<mutexVars, queueVars, semVars, poolVars, workVars>>
      BY <1>7 DEF OnNotify, OnWork
    <2>2. \A u \in Slots \ {TimeoutTask} : Still(u) /\ state'[u] = state[u]
      BY <2>1, NotifyIsrServes
    <2>3. WorkerTold'
      <3>1. notifyPending' = [notifyPending EXCEPT ![TimeoutTask] = TRUE]
        BY <2>1, NotifyIsrServes
      <3>2. WorkerStill
        BY <1>2, <1>3, <2>1, <2>2, <3>1 DEF WorkerStill, WorkerTold, workVars
      <3> QED  BY <1>3, <3>2, AsideFrames
    <2> QED
      BY <1>1, <1>2, <2>1, <2>2, <2>3, NotifyIsrServes, SignalKeepsProbe
      DEF mutexVars, queueVars, semVars, poolVars, workVars
  <1>8. CASE OnWork(Work!SubmitIsr(Item))
    <2>1. /\ \E bits : Work!NotifyIsr(WorkTask, bits)
          /\ UNCHANGED <<mutexVars, queueVars, semVars, poolVars, workerAt>>
          /\ pendingItems' = pendingItems + 1
      BY <1>8, AsideTasks DEF OnWork, Work!SubmitIsr, Work!EnqueueWork
    <2>2. PICK bits : Work!NotifyIsr(WorkTask, bits)
      BY <2>1
    <2>3. /\ UNCHANGED <<waitType, waitResult, pc>>
          /\ notifyPending' = [notifyPending EXCEPT ![WorkTask] = TRUE]
          /\ state'[WorkTask] = state[WorkTask]
             \/ (Blocked(WorkTask) /\ state'[WorkTask] = "READY")
          /\ waitType[WorkTask] = "NOTIFICATION" /\ waitResult[WorkTask] = "OK" =>
                ~Blocked(WorkTask)'
      BY <2>2, NotifyIsrServes
    <2>4. ~Blocked(WorkTask)'
      BY <1>3, <2>3 DEF WorkerTold, NeverTimesOut, Blocked
    <2>5. WorkerTold'
      BY <1>2, <1>3, <2>1, <2>3, <2>4 DEF WorkerTold, NeverTimesOut
    <2> QED
      BY <1>1, <1>2, <2>1, <2>2, <2>5, NotifyIsrServes, SignalKeepsProbe
      DEF mutexVars, queueVars, semVars, poolVars
  <1>9. CASE OnKernel(UNCHANGED kernelVars)
    BY <1>4, <1>9 DEF OnKernel, OnWork, kernelVars, ringVars, lockVars, semVars
  <1> QED  BY <1>5, <1>6, <1>7, <1>8, <1>9 DEF CallbackStep
-------------------------------------------------------------------------------
(* A yield asks for the switch that the consumer waits for.                     *)
LEMMA YieldKeepsProbe ==
    ASSUME WaitInv, ProbeInv, OnKernel(Yield), UNCHANGED <<at, counters>>, UNCHANGED timerVars,
           ~inTick
    PROVE  ProbeInv'
  <1>1. /\ ~pendsv /\ pc[current] \in {"kick", "block", "exit"} /\ pendsv' = TRUE
        /\ UNCHANGED <<ring, basePriority, priority, current, lockCount, schedPending, tcbVars>>
        /\ UNCHANGED <<mutexVars, queueVars, semVars, poolVars, notifyVars, workVars>>
        /\ pc' = [pc EXCEPT ![current] = AfterYield[pc[current]]]
    BY DEF OnKernel, OnWork, Yield, ringVars, lockVars
  <1>2. KernelTypes /\ current \in Slots
    BY TasksAreSlots DEF WaitInv, KernelInv, KernelTypes
  <1>3. \A t \in Slots : Still(t) /\ state'[t] = state[t]
    <2> SUFFICES ASSUME NEW t \in Slots PROVE Still(t) /\ state'[t] = state[t]
      OBVIOUS
    <2>1. pc[t] = "app" => pc'[t] = "app"
      BY <1>1, <1>2 DEF KernelTypes
    <2> QED  BY <1>1, <2>1 DEF tcbVars, Still, Blocked
  <1>4. PairInv'
    <2>1. PairStill
      BY <1>1, <1>3, PairFacts DEF PairStill, mutexVars, queueVars, counters
    <2> QED  BY <2>1, PairFrame DEF ProbeInv
  <1>5. TurnInv'
    <2>1. RingHasAll' /\ ConsumerIsNext'
      BY <1>1 DEF ProbeInv, TurnInv, RingHasAll, TaskCount, Tasks, ConsumerIsNext
    <2>2. /\ \A t \in Slots : state'[t] = "RUNNING" => t = current'
          /\ \A t \in Slots \ {OneShot} : state'[t] # "STOPPED"
      BY <1>1 DEF ProbeInv, TurnInv, tcbVars
    <2>3. (firing' => inTick') /\ ~AllIsQuiet'
      BY <1>1 DEF ProbeInv, TurnInv, AllIsQuiet, timerVars
    <2> QED  BY <2>1, <2>2, <2>3 DEF TurnInv
  <1>6. SchedMatches'
    BY <1>1, <1>3, PairFacts
    DEF ProbeInv, AsideInv, SchedMatches, HoldsProcessor, Still, tcbVars
  <1>7. PoolMatches' /\ WorkerTold' /\ OneShotCounted' /\ timeoutCount' = 0
    <2>1. PoolStill /\ OneShotStill
      BY <1>1, <1>3, AsideTasks DEF PoolStill, OneShotStill, Still, poolVars, counters
    <2>2. WorkerStill
      BY <1>1, <1>3, AsideTasks
      DEF WorkerStill, workVars, notifyVars, ProbeInv, AsideInv, WorkerTold
    <2> QED  BY <1>1, <2>1, <2>2, AsideFrames DEF ProbeInv, AsideInv, semVars
  <1> QED  BY <1>4, <1>5, <1>6, <1>7 DEF ProbeInv, AsideInv

(* The processor goes to the consumer if it can run, and to the idle task only  *)
(* if no other task can.                                                        *)
Elected(best) ==
    /\ state' = [Released EXCEPT ![best] = "RUNNING"] /\ Released[best] = "READY"
    /\ Blocked(Consumer) \/ best = Consumer
    /\ best = Idle => \A t \in Slots \ {Idle} : state[t] \in {"BLOCKED", "STOPPED"}
LEMMA DispatchElects ==
    ASSUME WaitInv, ProbeInv, NEW best \in Tasks, ScanKeeps(best),
           state' = [Released EXCEPT ![best] = "RUNNING"]
    PROVE  Elected(best)
  <1>1. /\ KernelTypes /\ Tasks = Slots /\ current \in Slots /\ best \in Slots
        /\ TaskCount \in Nat
    BY TasksAreSlots, TaskFacts, ConstantsLemma
    DEF WaitInv, KernelInv, KernelTypes, RingIsWhole, Idle
  <1>2. /\ basePriority \in [Slots -> Nat] /\ basePriority[Idle] = 0
        /\ \A t \in Slots \ {Idle} : 0 < basePriority[t]
        /\ \A t \in Slots \ {Consumer} : basePriority[t] < basePriority[Consumer]
        /\ priority = [basePriority EXCEPT ![Producer] =
                          IF AwaitsMutex THEN basePriority[Consumer] ELSE @]
    BY DEF ProbeInv, PairInv, ConsumerUrgent
  <1>3. /\ {Producer, Consumer} \subseteq Slots \ {Idle} /\ Producer # Consumer /\ Idle \in Slots
        /\ Consumer # OneShot
    BY DemoFacts DEF Producer, Consumer, OneShot
  <1>4. priority \in [Slots -> Nat]
    BY <1>2, <1>3
  <1>5. /\ Released[best] = "READY"
        /\ \A t \in Slots : Released[t] = "READY" => priority[t] <= priority[best]
    BY <1>1, <1>4, ScanKeepsMostUrgent DEF ProbeInv, TurnInv
  <1>6. \A t \in Slots : Released[t] = IF state[t] = "RUNNING" THEN "READY" ELSE state[t]
    BY <1>1 DEF Released, ProbeInv, TurnInv, KernelTypes
  <1>7. ASSUME ~Blocked(Consumer) PROVE best = Consumer
    <2>1. state[Consumer] \in {"READY", "RUNNING"}
      BY <1>1, <1>3, <1>7 DEF KernelTypes, States, Blocked, ProbeInv, TurnInv
    <2>2. priority[Consumer] <= priority[best]
      BY <1>3, <1>5, <1>6, <2>1
    <2>3. priority = basePriority
      BY <1>2, <1>7 DEF AwaitsMutex
    <2>4. basePriority[best] \in Nat /\ basePriority[Consumer] \in Nat
      BY <1>1, <1>2, <1>3
    <2> QED  BY <1>1, <1>2, <2>2, <2>3, <2>4
  <1>8. ASSUME best = Idle, NEW t \in Slots \ {Idle} PROVE state[t] \in {"BLOCKED", "STOPPED"}
    <2>1. priority[Idle] = 0 /\ 0 < basePriority[t] /\ 0 < basePriority[Consumer]
      BY <1>2, <1>3
    <2>2. 0 < priority[t]
      BY <1>2, <1>3, <2>1
    <2>3. ~(priority[t] <= priority[best])
      BY <1>4, <1>8, <2>1, <2>2
    <2>4. Released[t] # "READY"
      BY <1>5, <2>3
    <2> QED  BY <1>1, <1>6, <2>4 DEF KernelTypes, States
  <1> QED  BY <1>5, <1>7, <1>8 DEF Elected

LEMMA PendSVKeepsProbe ==
    ASSUME WaitInv, ProbeInv, OnKernel(PendSV), UNCHANGED <<at, counters>>, UNCHANGED timerVars
    PROVE  ProbeInv'
  <1>1. /\ UNCHANGED <<ring, basePriority, priority, delay, waitType, waitResult, pc>>
        /\ pendsv' = FALSE /\ (Deferred \/ Dispatched) /\ lockCount' = lockCount
        /\ UNCHANGED <<mutexVars, queueVars, semVars, poolVars, notifyVars, workVars>>
    BY DEF OnKernel, OnWork, PendSV, Deferred, Dispatched, lockVars
  <1>2. /\ KernelTypes /\ current \in Slots /\ Tasks = Slots
        /\ {TimeoutTask, OneShot, Producer, Consumer, WorkTask, Idle} \subseteq Slots
        /\ TimeoutTask # Idle
    BY TasksAreSlots, DemoFacts DEF WaitInv, KernelInv, KernelTypes, TimeoutTask
  <1>3. \/ /\ HoldsProcessor /\ schedPending' = TRUE /\ UNCHANGED <<current, state>>
        \/ /\ ~HoldsProcessor /\ schedPending' = FALSE
           /\ \E best \in Slots : current' = best /\ Elected(best)
    <2>1. CASE Deferred
      BY <2>1 DEF Deferred
    <2>2. CASE Dispatched
      <3>1. PICK best \in Tasks : /\ ScanKeeps(best) /\ current' = best
                                  /\ state' = [Released EXCEPT ![best] = "RUNNING"]
        BY <2>2 DEF Dispatched
      <3>2. Elected(best)
        BY <3>1, DispatchElects
      <3> QED  BY <1>2, <2>2, <3>1, <3>2 DEF Dispatched
    <2> QED  BY <1>1, <2>1, <2>2
  <1>4. \A t \in Slots : Released[t] = IF state[t] = "RUNNING" THEN "READY" ELSE state[t]
    BY <1>2 DEF Released, ProbeInv, TurnInv, KernelTypes
  <1>5. ASSUME NEW t \in Slots
        PROVE  /\ state'[t] = "BLOCKED" <=> state[t] = "BLOCKED"
               /\ state'[t] = "STOPPED" <=> state[t] = "STOPPED"
               /\ state'[t] = "RUNNING" => t = current'
    <2>1. CASE UNCHANGED <<current, state>>
      BY <2>1 DEF ProbeInv, TurnInv
    <2>2. ASSUME NEW best \in Slots, current' = best, Elected(best)
          PROVE  /\ state'[t] = "BLOCKED" <=> state[t] = "BLOCKED"
                 /\ state'[t] = "STOPPED" <=> state[t] = "STOPPED"
                 /\ state'[t] = "RUNNING" => t = current'
      <3>1. Released \in [Slots -> States]
        BY <1>2 DEF Released, KernelTypes, States
      <3> QED  BY <1>4, <2>2, <3>1 DEF Elected
    <2> QED  BY <1>3, <2>1, <2>2
  <1>6. \A t \in Slots : Still(t)
    BY <1>1, <1>5 DEF Still, Blocked
  <1>7. PairInv'
    <2>1. PairStill
      BY <1>1, <1>2, <1>6 DEF PairStill, mutexVars, queueVars, counters
    <2> QED  BY <2>1, PairFrame DEF ProbeInv
  <1>8. ASSUME HoldsProcessor /\ schedPending' = TRUE /\ UNCHANGED <<current, state>>
        PROVE  SchedMatches' /\ ConsumerIsNext' /\ ~AllIsQuiet'
    <2>1. current = TimeoutTask /\ Blocked(Consumer) /\ lockCount # 0
      BY <1>8 DEF HoldsProcessor, ProbeInv, AsideInv, SchedMatches
    <2>2. SchedMatches'
      BY <1>1, <1>8, <2>1
      DEF ProbeInv, AsideInv, SchedMatches, HoldsProcessor, Blocked
    <2>3. ConsumerIsNext' /\ ~AllIsQuiet'
      BY <1>2, <1>8, <2>1 DEF ConsumerIsNext, AllIsQuiet, Blocked
    <2> QED  BY <2>2, <2>3
  <1>9. ASSUME ~HoldsProcessor, schedPending' = FALSE, NEW best \in Slots, current' = best,
               Elected(best)
        PROVE  /\ SchedMatches' /\ ConsumerIsNext'
               /\ AllIsQuiet' => \A t \in Slots \ {Idle} : state'[t] \in {"BLOCKED", "STOPPED"}
    <2>1. SchedMatches'
      BY <1>1, <1>9 DEF ProbeInv, AsideInv, SchedMatches
    <2>2. ConsumerIsNext'
      BY <1>2, <1>5, <1>9 DEF ConsumerIsNext, Blocked, Elected
    <2>3. ASSUME AllIsQuiet', NEW t \in Slots \ {Idle}
          PROVE  state'[t] \in {"BLOCKED", "STOPPED"}
      <3>1. best = Idle
        BY <1>9, <2>3 DEF AllIsQuiet
      <3> QED  BY <1>5, <1>9, <3>1 DEF Elected
    <2> QED  BY <2>1, <2>2, <2>3
  <1>10. /\ SchedMatches' /\ ConsumerIsNext'
         /\ AllIsQuiet' => \A t \in Slots \ {Idle} : state'[t] \in {"BLOCKED", "STOPPED"}
    BY <1>3, <1>8, <1>9
  <1>11. TurnInv'
    <2>1. RingHasAll' /\ (firing' => inTick')
      BY <1>1 DEF ProbeInv, TurnInv, RingHasAll, TaskCount, Tasks, timerVars
    <2>2. \A t \in Slots : state'[t] = "RUNNING" => t = current'
      BY <1>5
    <2>3. \A t \in Slots \ {OneShot} : state'[t] # "STOPPED"
      BY <1>5 DEF ProbeInv, TurnInv
    <2> QED  BY <1>10, <2>1, <2>2, <2>3 DEF TurnInv
  <1>12. PoolMatches' /\ WorkerTold' /\ OneShotCounted' /\ timeoutCount' = 0
    <2>1. PoolStill /\ OneShotStill
      BY <1>1, <1>2, <1>6 DEF PoolStill, OneShotStill, Still, poolVars, counters
    <2>2. WorkerStill
      BY <1>1, <1>2, <1>6
      DEF WorkerStill, workVars, notifyVars, ProbeInv, AsideInv, WorkerTold
    <2> QED  BY <1>1, <2>1, <2>2, AsideFrames DEF ProbeInv, AsideInv, semVars
  <1> QED  BY <1>7, <1>10, <1>11, <1>12 DEF ProbeInv, AsideInv

-------------------------------------------------------------------------------
LEMMA InitProbeInv ==
    ASSUME Init
    PROVE  ProbeInv
  <1>1. KernelInit
    BY DEF Init, Mutex!Init, Mutex!KernelInit, KernelInit, Mutex!Slots, Slots, Mutex!Idle, Idle
  <1>2. /\ {WorkTask, TimeoutTask, OneShot} \subseteq Slots \ {Idle, Producer, Consumer}
        /\ {Producer, Consumer} \subseteq Slots \ {Idle} /\ Producer # Consumer
        /\ Idle \in Slots /\ Slots \ {Idle} = 1 .. AppTasks
    BY DemoFacts, AsideTasks, DemoAssumption DEF Producer, Consumer, Idle, Slots
  <1>3. /\ at = [t \in Slots |-> "start"] /\ want = [t \in Slots |-> <<>>]
        /\ call = [t \in Slots |-> Queue!NoCall]
        /\ owner = [m \in {AppMutex} |-> NoOwner] /\ depth = [m \in {AppMutex} |-> 0]
        /\ count = 0 /\ ahead = 0 /\ timeoutCount = 0
        /\ freeCount = BlockCount /\ inUse = {} /\ pendingItems = 0 /\ workerAt = "await"
        /\ notifyPending = [t \in Slots |-> FALSE]
        /\ exits = 0 /\ reuses = 0 /\ reuseCreated = FALSE /\ firing = FALSE
        /\ freeList = [i \in 1 .. BlockCount |-> BlockCount + 1 - i]
    BY DEF Init, Mutex!Init, Queue!Init, TimeoutSem!SemInit, Pool!Init, Pool!Blocks, Work!Init,
           Work!NotifyInit, Work!WorkInit, Mutex!Slots, Queue!Slots, Work!Slots, Slots,
           Mutex!NoOwner, NoOwner
  <1>4. /\ state = [t \in Slots |-> IF t = 1 THEN "RUNNING" ELSE "READY"]
        /\ delay = [t \in Slots |-> 0] /\ waitType = [t \in Slots |-> "NONE"]
        /\ waitResult = [t \in Slots |-> "OK"] /\ pc = [t \in Slots |-> "app"]
        /\ current = 1 /\ pendsv = FALSE /\ lockCount = 0 /\ schedPending = FALSE
        /\ basePriority = [t \in Slots |-> IF t <= AppTasks THEN BasePriority[t] ELSE 0]
        /\ priority = basePriority
    BY <1>1 DEF KernelInit
  <1>5. ConsumerUrgent
    <2>1. /\ \A t \in 1 .. AppTasks : BasePriority[t] \in Nat /\ 0 < BasePriority[t]
          /\ \A t \in (1 .. AppTasks) \ {Consumer} : BasePriority[t] < BasePriority[Consumer]
      BY PriorityAssumption, DemoAssumption
    <2>2. /\ \A t \in Slots \ {Idle} : basePriority[t] = BasePriority[t]
          /\ basePriority[Idle] = 0
      BY <1>2, <1>4, DemoAssumption, DemoFacts DEF Idle
    <2>3. basePriority \in [Slots -> Nat]
      BY <1>2, <1>4, <2>1, <2>2
    <2>4. /\ \A t \in Slots \ {Idle} : 0 < basePriority[t]
          /\ \A t \in Slots \ {Consumer} : basePriority[t] < basePriority[Consumer]
      BY <1>2, <2>1, <2>2
    <2>5. 1 < basePriority[Consumer]
      <3>1. basePriority[Producer] \in Nat /\ basePriority[Consumer] \in Nat
        BY <1>2, <2>3
      <3>2. 0 < basePriority[Producer] /\ basePriority[Producer] < basePriority[Consumer]
        BY <1>2, <2>4
      <3> QED  BY <3>1, <3>2
    <2>6. ~AwaitsMutex
      BY <1>2, <1>3 DEF AwaitsMutex
    <2> QED  BY <1>2, <1>4, <2>2, <2>3, <2>4, <2>5, <2>6 DEF ConsumerUrgent
  <1>6. LocksMatch /\ Handover /\ CountsMatch
    <2>1. LockDepth(Producer) = 0 /\ LockDepth(Consumer) = 0
      BY <1>2, <1>3 DEF LockDepth
    <2>2. LocksMatch
      BY <1>3, <2>1 DEF LocksMatch
    <2>3. ~Blocked(Consumer)
      BY <1>2, <1>4 DEF Blocked
    <2>4. Handover
      BY <1>2, <1>3, <1>4, <2>3
      DEF Handover, NoArgs, NeverTimesOut, AwaitsMutex, AwaitsMessage
    <2>5. CountsMatch
      BY <1>2, <1>3 DEF CountsMatch, HasMessage
    <2> QED  BY <2>2, <2>4, <2>5
  <1>7. TurnInv
    <2>1. RingHasAll
      BY <1>1, InitialRingHasAll
    <2>2. ConsumerIsNext /\ ~AllIsQuiet
      BY <1>2, <1>3, <1>4 DEF ConsumerIsNext, AllIsQuiet, WorkTask
    <2>3. /\ \A t \in Slots : state[t] = "RUNNING" => t = current
          /\ \A t \in Slots : state[t] # "STOPPED"
      BY <1>4
    <2> QED  BY <1>3, <2>1, <2>2, <2>3 DEF TurnInv
  <1>8. AsideInv
    <2>1. BlockCount \in Nat
      BY DemoAssumption
    <2>2. freeList \in Seq(1 .. BlockCount) /\ Len(freeList) = BlockCount
      <3>1. \A i \in 1 .. BlockCount : BlockCount + 1 - i \in 1 .. BlockCount
        BY <2>1
      <3>2. freeList \in [1 .. BlockCount -> 1 .. BlockCount]
        BY <1>3, <3>1
      <3>3. freeList \in Seq(1 .. BlockCount)
        BY <2>1, <3>2, SeqDef
      <3> QED  BY <2>1, <3>2, <3>3, LenProperties
    <2>3. SchedMatches /\ OneShotCounted
      BY <1>2, <1>3, <1>4 DEF SchedMatches, OneShotCounted
    <2>4. PoolMatches
      BY <1>2, <1>3, <2>2 DEF PoolMatches
    <2>5. WorkerTold
      BY <1>2, <1>3, <1>4 DEF WorkerTold, NeverTimesOut, Blocked
    <2> QED  BY <1>3, <2>3, <2>4, <2>5 DEF AsideInv
  <1> QED  BY <1>5, <1>6, <1>7, <1>8 DEF ProbeInv, PairInv

LEMMA NothingMovesProbe ==
    ASSUME WaitInv, ProbeInv, UNCHANGED vars
    PROVE  ProbeInv'
  <1>1. /\ UNCHANGED <<ring, basePriority, priority, current, pc, lockCount, schedPending>>
        /\ UNCHANGED tcbVars /\ pendsv' = pendsv
        /\ UNCHANGED <<mutexVars, queueVars, semVars, poolVars, notifyVars, workVars>>
        /\ UNCHANGED <<at, counters>> /\ UNCHANGED timerVars
    BY DEF vars, kernelVars, ringVars, lockVars
  <1>2. \A t \in Slots : Still(t) /\ state'[t] = state[t]
    BY <1>1 DEF tcbVars, Still, Blocked
  <1>3. PairInv'
    <2>1. PairStill
      BY <1>1, <1>2, PairFacts DEF PairStill, mutexVars, queueVars, counters
    <2> QED  BY <2>1, PairFrame DEF ProbeInv
  <1>4. TurnInv'
    <2>1. RingHasAll' /\ ConsumerIsNext'
      BY <1>1
      DEF ProbeInv, TurnInv, RingHasAll, TaskCount, Tasks, ConsumerIsNext, Blocked, tcbVars
    <2>2. /\ \A t \in Slots : state'[t] = "RUNNING" => t = current'
          /\ \A t \in Slots \ {OneShot} : state'[t] # "STOPPED"
      BY <1>1 DEF ProbeInv, TurnInv, tcbVars
    <2>3. /\ firing' => inTick'
          /\ AllIsQuiet' => \A t \in Slots \ {Idle} : state'[t] \in {"BLOCKED", "STOPPED"}
      BY <1>1 DEF ProbeInv, TurnInv, AllIsQuiet, timerVars, tcbVars
    <2> QED  BY <2>1, <2>2, <2>3 DEF TurnInv
  <1>5. SchedMatches'
    BY <1>1
    DEF ProbeInv, AsideInv, SchedMatches, HoldsProcessor, Blocked, tcbVars
  <1>6. PoolMatches' /\ WorkerTold' /\ OneShotCounted' /\ timeoutCount' = 0
    <2>1. PoolStill /\ OneShotStill
      BY <1>1, <1>2, AsideTasks DEF PoolStill, OneShotStill, Still, poolVars, counters
    <2>2. WorkerStill
      BY <1>1, <1>2, AsideTasks
      DEF WorkerStill, workVars, notifyVars, ProbeInv, AsideInv, WorkerTold
    <2> QED  BY <1>1, <2>1, <2>2, AsideFrames DEF ProbeInv, AsideInv, semVars
  <1> QED  BY <1>3, <1>4, <1>5, <1>6 DEF ProbeInv, AsideInv

LEMMA NextKeepsProbeInv ==
    ASSUME WaitInv, ProbeInv, [Next]_vars
    PROVE  ProbeInv'
  <1>1. CASE TickStep /\ UNCHANGED <<at, counters>>
    BY <1>1, TickBeginsKeepsProbe, CallbackKeepsProbe, WalkKeepsProbe DEF TickStep
  <1>2. CASE ~inTick /\ TaskStep /\ UNCHANGED timerVars
    BY <1>2, TaskStepKeepsProbe
  <1>3. CASE ~inTick /\ OnKernel(PendSV \/ Yield) /\ UNCHANGED <<at, counters>>
             /\ UNCHANGED timerVars
    <2>1. OnKernel(PendSV) \/ OnKernel(Yield)
      BY <1>3 DEF OnKernel, OnWork
    <2> QED  BY <1>3, <2>1, PendSVKeepsProbe, YieldKeepsProbe
  <1>4. CASE UNCHANGED vars
    BY <1>4, NothingMovesProbe
  <1> QED  BY <1>1, <1>2, <1>3, <1>4 DEF Next

(* In the demo, whatever the periods, the sizes and the length of the ticks:    *)
(* what check_probe.py asks of a halted target holds at every instant.          *)
THEOREM ProbeAlwaysHolds == Spec => []ProbeHolds
  <1> DEFINE Inv == WaitInv /\ ProbeInv
  <1>1. Init => Inv
    BY InitWaitInv, InitProbeInv
  <1>2. Inv /\ [Next]_vars => Inv'
    BY NextKeepsWaitInv, NextKeepsProbeInv
  <1>3. Inv => ProbeHolds
    BY ProbeInvMeansProbeHolds
  <1> QED  BY <1>1, <1>2, <1>3, PTL DEF Spec
===============================================================================
