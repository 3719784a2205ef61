------------------------------ MODULE CoreProofs ------------------------------
(* The safety properties of Scheduler, for every number of tasks and slots,     *)
(* every choice of priorities and every timeout; and those of Timers, for every *)
(* set of timers and every choice of periods: the two modules, which share no   *)
(* variable, are what rtos_tick_handler() works on.  Then those of Semaphore,   *)
(* whose waits that handler ends, and its refinement of the abstract semaphore, *)
(* for every number of tasks, all priorities and every count.                   *)
EXTENDS Scheduler, Timers, Semaphore, KernelProofs

(* What holds between two steps: where each task's code can stand in each       *)
(* state, who can be marked RUNNING, and the idle task never giving up.         *)
CodeMatchesState ==
    /\ \A t \in Slots : pc[t] \in {"app", "kick", "exit", "dead"}
    /\ \A t \in Slots : state[t] = "STOPPED" <=> pc[t] \in {"exit", "dead"}

OneRuns == \A t \in Slots : state[t] = "RUNNING" => t = current

IdleIsReady == Idle \in Tasks /\ state[Idle] \in {"READY", "RUNNING"}

(* The inductive invariant.                                                     *)
IInv ==
    /\ TypeOK
    /\ RingIsComplete
    /\ current \in Tasks
    /\ CodeMatchesState
    /\ OneRuns
    /\ IdleIsReady
    /\ BlockedNeverExecutes
    /\ NoMissedPreemption
-------------------------------------------------------------------------------
LEMMA RingFacts ==
    ASSUME TypeOK, RingIsComplete
    PROVE  TaskCount \in Nat /\ Tasks \subseteq Slots /\ RingHasAll
  BY ConstantsLemma, LenProperties
  DEF Tasks, Slots, RingIsComplete, RingHasAll, TaskCount, TypeOK
-------------------------------------------------------------------------------
LEMMA InitImpliesIInv == KernelInit => IInv
  <1> SUFFICES ASSUME KernelInit PROVE IInv
    OBVIOUS
  <1> USE ConstantsLemma
  <1>1. /\ ring \in Seq(Slots) /\ Len(ring) = Idle
        /\ \A i \in 1 .. Idle : ring[i] = IF i = 1 THEN 1 ELSE Idle + 2 - i
    BY InitialRing
  <1>2. TypeOK
    <2>1. basePriority \in [Slots -> Nat]
      BY PriorityAssumption DEF KernelInit, Slots
    <2> QED
      BY <1>1, <2>1 DEF KernelInit, TypeOK, States, WaitTypes, Results, PCs
  <1>3. RingIsComplete
    <2>1. RingHasAll
      BY InitialRingHasAll
    <2>2. \A i, j \in 1 .. Idle : ring[i] = ring[j] => i = j
      BY <1>1 DEF Idle
    <2>3. Idle <= MaxTasks
      BY DEF Idle
    <2>4. \A i \in 1 .. Idle : ring[i] \in 1 .. Idle
      BY <1>1 DEF Idle
    <2>5. TaskCount = Idle /\ Tasks = 1 .. Idle
      BY <1>1 DEF Tasks, TaskCount
    <2> HIDE ConstantsLemma
    <2> QED  BY <2>1, <2>2, <2>3, <2>4, <2>5 DEF RingIsComplete, RingHasAll
  <1>4. current \in Tasks /\ IdleIsReady
    BY <1>1 DEF KernelInit, IdleIsReady, Tasks, TaskCount, Idle, Slots
  <1>5. CodeMatchesState /\ OneRuns /\ BlockedNeverExecutes
    BY DEF KernelInit, CodeMatchesState, OneRuns, BlockedNeverExecutes
  <1>6. NoMissedPreemption
    <2>1. \A t \in Tasks : t \in Slots
      BY <1>1 DEF Tasks, TaskCount, Slots
    <2>2. \A t \in Tasks : state[t] = "READY" => ~switched[t]
      BY <2>1 DEF KernelInit
    <2> QED  BY <2>2 DEF NoMissedPreemption
  <1> QED  BY <1>2, <1>3, <1>4, <1>5, <1>6 DEF IInv
-------------------------------------------------------------------------------
(* Facts every step starts from.                                                *)
LEMMA ReleasedType ==
    ASSUME IInv
    PROVE  /\ Released \in [Slots -> States]
           /\ \A t \in Slots : Released[t] # "RUNNING"
           /\ \A t \in Slots : Released[t] = "STOPPED" <=> state[t] = "STOPPED"
           /\ \A t \in Slots : Released[t] = "READY" <=> state[t] \in {"READY", "RUNNING"}
  BY RingFacts DEF IInv, TypeOK, OneRuns, Released, States

(* RTOS_ASSERT(best_task != 0): the idle task at least is ready.                *)
LEMMA SomeTaskIsReady == ASSUME IInv PROVE NoAssertFailure
  <1>1. Released[Idle] = "READY"
    BY ReleasedType, RingFacts DEF IInv, IdleIsReady
  <1> QED  BY <1>1 DEF IInv, IdleIsReady, NoAssertFailure

LEMMA DeferredStep ==
    ASSUME IInv, PendSV, Deferred PROVE IInv'
  <1> USE DEF IInv, PendSV, Deferred
  <1>1. TypeOK'
    BY DEF TypeOK
  <1>2. RingIsComplete' /\ (current \in Tasks)' /\ IdleIsReady'
    BY DEF RingIsComplete, Tasks, TaskCount, IdleIsReady
  <1>3. CodeMatchesState' /\ OneRuns'
    BY DEF CodeMatchesState, OneRuns
  <1>4. BlockedNeverExecutes'
    <2>1. current \in Slots /\ state[current] = "RUNNING"
      BY DEF TypeOK, HoldsProcessor
    <2>2. pc[current] # "dead"
      BY <2>1 DEF CodeMatchesState
    <2> QED  BY <2>1, <2>2 DEF BlockedNeverExecutes
  <1>5. NoMissedPreemption'
    BY DEF NoMissedPreemption, HoldsProcessor
  <1> QED  BY <1>1, <1>2, <1>3, <1>4, <1>5

LEMMA DispatchedStep ==
    ASSUME IInv, PendSV, Dispatched PROVE IInv'
  <1>1. PICK best \in Tasks :
           /\ ScanKeeps(best)
           /\ current' = best
           /\ state' = [Released EXCEPT ![best] = "RUNNING"]
           /\ switched' = [switched EXCEPT ![best] = TRUE]
    BY DEF Dispatched
  <1>2. /\ best \in Slots /\ Tasks \subseteq Slots
        /\ Released[best] = "READY"
        /\ \A t \in Tasks : Released[t] = "READY" => priority[t] <= priority[best]
    BY RingFacts, ScanKeepsMostUrgent, <1>1 DEF IInv, TypeOK
  <1>3. UNCHANGED <<ring, basePriority, priority, delay, waitType, waitResult, pc, lockCount>>
        /\ pendsv' = FALSE /\ schedPending' = FALSE
    BY DEF PendSV, Dispatched
  <1>4. /\ state' \in [Slots -> States]
        /\ state'[best] = "RUNNING"
        /\ \A t \in Slots : t # best => state'[t] = Released[t]
    BY <1>1, <1>2, ReleasedType DEF States
  <1>5. TypeOK'
    BY <1>1, <1>2, <1>3, <1>4 DEF IInv, TypeOK
  <1>6. RingIsComplete' /\ (current \in Tasks)'
    BY <1>1, <1>3 DEF IInv, RingIsComplete, Tasks, TaskCount
  <1>7. OneRuns'
    BY <1>1, <1>4, ReleasedType DEF OneRuns
  <1>8. IdleIsReady'
    BY <1>2, <1>3, <1>4, ReleasedType DEF IInv, IdleIsReady, Tasks, TaskCount
  <1>9. CodeMatchesState'
    <2>1. ASSUME NEW t \in Slots PROVE state'[t] = "STOPPED" <=> state[t] = "STOPPED"
      BY <1>2, <1>4, ReleasedType
    <2> QED  BY <2>1, <1>3 DEF IInv, CodeMatchesState
  <1>10. BlockedNeverExecutes'
    <2>1. pc[best] # "dead"
      BY <1>2, ReleasedType DEF IInv, CodeMatchesState
    <2> QED  BY <2>1, <1>1, <1>3, <1>4 DEF BlockedNeverExecutes
  <1>11. NoMissedPreemption'
    <2> SUFFICES ASSUME NEW t \in Tasks, state'[t] = "READY", priority[t] > priority[best]
                 PROVE  FALSE
      BY <1>1, <1>3 DEF NoMissedPreemption, Tasks, TaskCount
    <2>1. Released[t] = "READY"
      BY <1>2, <1>4
    <2>2. priority[t] \in Nat /\ priority[best] \in Nat
      BY <1>2 DEF IInv, TypeOK
    <2> QED  BY <2>1, <2>2, <1>2
  <1> QED  BY <1>5, <1>6, <1>7, <1>8, <1>9, <1>10, <1>11 DEF IInv

LEMMA TickStep ==
    ASSUME IInv, Tick PROVE IInv'
  <1> USE DEF IInv, Tick, TaskTick, ringVars, lockVars
  <1>1. /\ delay' \in [Slots -> Nat]
        /\ state' \in [Slots -> States]
        /\ waitResult' \in [Slots -> Results]
    BY DEF TypeOK, Counting, Expiring, States, Results
  <1>2. \A t \in Slots :
           /\ state'[t] = state[t] \/ (state[t] = "BLOCKED" /\ state'[t] = "READY")
    BY DEF Counting, Expiring
  <1>3. TypeOK'
    BY <1>1 DEF TypeOK
  <1>4. RingIsComplete' /\ (current \in Tasks)'
    BY DEF RingIsComplete, Tasks, TaskCount
  <1>5. CodeMatchesState' /\ OneRuns' /\ IdleIsReady'
    BY <1>2, RingFacts DEF CodeMatchesState, OneRuns, IdleIsReady, Tasks, TaskCount
  <1>6. BlockedNeverExecutes' /\ NoMissedPreemption'
    BY DEF BlockedNeverExecutes, NoMissedPreemption
  <1> QED  BY <1>3, <1>4, <1>5, <1>6

LEMMA YieldStep ==
    ASSUME IInv, Yield PROVE IInv'
  <1> USE DEF IInv, Yield, ringVars, lockVars, tcbVars
  <1>1. current \in Slots /\ pc[current] \in {"kick", "exit"}
    BY DEF TypeOK, CodeMatchesState
  <1>2. /\ AfterYield[pc[current]] \in {"app", "dead"}
        /\ AfterYield[pc[current]] = "dead" <=> pc[current] = "exit"
    BY <1>1 DEF AfterYield
  <1>3. TypeOK'
    BY <1>1, <1>2 DEF TypeOK, PCs
  <1>4. RingIsComplete' /\ (current \in Tasks)' /\ OneRuns' /\ IdleIsReady'
    BY DEF RingIsComplete, Tasks, TaskCount, OneRuns, IdleIsReady
  <1>5. CodeMatchesState'
    BY <1>1, <1>2 DEF CodeMatchesState, TypeOK
  <1>6. BlockedNeverExecutes' /\ NoMissedPreemption'
    BY DEF BlockedNeverExecutes, NoMissedPreemption
  <1> QED  BY <1>3, <1>4, <1>5, <1>6
-------------------------------------------------------------------------------
(* A task that makes a kernel call is an application task that is RUNNING.      *)
LEMMA CallerRuns ==
    ASSUME IInv, InApp
    PROVE  /\ current \in Slots /\ current # Idle
           /\ pc[current] = "app" /\ ~pendsv /\ state[current] = "RUNNING"
           /\ \A t \in Tasks : state[t] = "READY" /\ switched[t]
                  /\ priority[t] > priority[current] => lockCount # 0 /\ schedPending
  BY DEF IInv, InApp, TypeOK, BlockedNeverExecutes, NoMissedPreemption

LEMMA YieldCallStep ==
    ASSUME IInv, YieldCall PROVE IInv'
  <1>0. /\ current \in Slots /\ current # Idle
        /\ pc[current] = "app" /\ ~pendsv /\ state[current] = "RUNNING"
        /\ \A t \in Tasks : state[t] = "READY" /\ switched[t]
               /\ priority[t] > priority[current] => lockCount # 0 /\ schedPending
    BY CallerRuns DEF YieldCall
  <1> USE <1>0 DEF IInv, YieldCall, GoTo, ringVars, lockVars, tcbVars
  <1>1. TypeOK'
    BY DEF TypeOK, PCs
  <1>2. RingIsComplete' /\ (current \in Tasks)' /\ OneRuns' /\ IdleIsReady'
    BY DEF RingIsComplete, Tasks, TaskCount, OneRuns, IdleIsReady
  <1>3. CodeMatchesState'
    BY DEF CodeMatchesState, TypeOK
  <1>4. BlockedNeverExecutes' /\ NoMissedPreemption'
    BY DEF BlockedNeverExecutes, NoMissedPreemption, TypeOK
  <1> QED  BY <1>1, <1>2, <1>3, <1>4

LEMMA SleepStep ==
    ASSUME IInv, NEW ms \in SleepTimes, Sleep(ms) PROVE IInv'
  <1>0. /\ current \in Slots /\ current # Idle
        /\ pc[current] = "app" /\ ~pendsv /\ state[current] = "RUNNING"
        /\ \A t \in Tasks : state[t] = "READY" /\ switched[t]
               /\ priority[t] > priority[current] => lockCount # 0 /\ schedPending
    BY CallerRuns DEF Sleep
  <1> USE <1>0 DEF IInv, Sleep, BlockCurrent, ringVars, lockVars
  <1>1. MsToTicks(ms) \in Nat
    BY MsToTicksType, SchedulerAssumption
  <1>2. TypeOK'
    BY <1>1 DEF TypeOK, PCs, States, WaitTypes, Results
  <1>3. RingIsComplete' /\ (current \in Tasks)'
    BY DEF RingIsComplete, Tasks, TaskCount
  <1>4. OneRuns' /\ IdleIsReady'
    BY DEF OneRuns, IdleIsReady, TypeOK, Tasks, TaskCount
  <1>5. CodeMatchesState'
    BY DEF CodeMatchesState, TypeOK
  <1>6. BlockedNeverExecutes' /\ NoMissedPreemption'
    BY DEF BlockedNeverExecutes, NoMissedPreemption, TypeOK
  <1> QED  BY <1>2, <1>3, <1>4, <1>5, <1>6

LEMMA ExitStep ==
    ASSUME IInv, Exit PROVE IInv'
  <1>0. /\ current \in Slots /\ current # Idle
        /\ pc[current] = "app" /\ ~pendsv /\ state[current] = "RUNNING"
        /\ \A t \in Tasks : state[t] = "READY" /\ switched[t]
               /\ priority[t] > priority[current] => lockCount # 0 /\ schedPending
    BY CallerRuns DEF Exit
  <1> USE <1>0 DEF IInv, Exit, GoTo, ringVars, lockVars
  <1>1. TypeOK'
    BY DEF TypeOK, PCs, States, WaitTypes, Results
  <1>2. RingIsComplete' /\ (current \in Tasks)'
    BY DEF RingIsComplete, Tasks, TaskCount
  <1>3. OneRuns' /\ IdleIsReady'
    BY DEF OneRuns, IdleIsReady, TypeOK, Tasks, TaskCount
  <1>4. CodeMatchesState'
    BY DEF CodeMatchesState, TypeOK
  <1>5. BlockedNeverExecutes' /\ NoMissedPreemption'
    BY DEF BlockedNeverExecutes, NoMissedPreemption, TypeOK
  <1> QED  BY <1>1, <1>2, <1>3, <1>4, <1>5

LEMMA SchedLockStep ==
    ASSUME IInv, SchedLock PROVE IInv'
  <1>0. /\ current \in Slots /\ current # Idle
        /\ pc[current] = "app" /\ ~pendsv /\ state[current] = "RUNNING"
        /\ \A t \in Tasks : state[t] = "READY" /\ switched[t]
               /\ priority[t] > priority[current] => lockCount # 0 /\ schedPending
    BY CallerRuns DEF SchedLock
  <1> USE <1>0 DEF IInv, SchedLock, ringVars, tcbVars
  <1>1. TypeOK'
    BY DEF TypeOK
  <1>2. RingIsComplete' /\ (current \in Tasks)' /\ OneRuns' /\ IdleIsReady'
    BY DEF RingIsComplete, Tasks, TaskCount, OneRuns, IdleIsReady
  <1>3. CodeMatchesState' /\ BlockedNeverExecutes'
    BY DEF CodeMatchesState, BlockedNeverExecutes
  <1>4. NoMissedPreemption'
    BY DEF NoMissedPreemption, TypeOK, Tasks, TaskCount
  <1> QED  BY <1>1, <1>2, <1>3, <1>4

LEMMA SchedUnlockStep ==
    ASSUME IInv, SchedUnlock PROVE IInv'
  <1>0. /\ current \in Slots /\ current # Idle
        /\ pc[current] = "app" /\ ~pendsv /\ state[current] = "RUNNING"
        /\ \A t \in Tasks : state[t] = "READY" /\ switched[t]
               /\ priority[t] > priority[current] => lockCount # 0 /\ schedPending
    BY CallerRuns DEF SchedUnlock
  <1> USE <1>0 DEF IInv, SchedUnlock, GoTo, ringVars, tcbVars
  <1>1. TypeOK'
    <2>1. lockCount' \in Nat
      BY DEF TypeOK
    <2>2. pc' \in [Slots -> PCs]
      <3>1. CASE lockCount = 1 /\ schedPending
        BY <3>1 DEF TypeOK, PCs
      <3>2. CASE ~(lockCount = 1 /\ schedPending)
        BY <3>2 DEF TypeOK
      <3> QED  BY <3>1, <3>2
    <2>3. schedPending' \in BOOLEAN
      BY DEF TypeOK
    <2> QED  BY <2>1, <2>2, <2>3 DEF TypeOK
  <1>2. RingIsComplete' /\ (current \in Tasks)' /\ OneRuns' /\ IdleIsReady'
    BY DEF RingIsComplete, Tasks, TaskCount, OneRuns, IdleIsReady
  <1>3. CodeMatchesState' /\ BlockedNeverExecutes'
    BY DEF CodeMatchesState, BlockedNeverExecutes, TypeOK
  <1>4. NoMissedPreemption'
    <2>1. CASE lockCount = 1 /\ schedPending
      BY <2>1 DEF NoMissedPreemption, TypeOK
    <2>2. CASE ~(lockCount = 1 /\ schedPending)
      <3>1. UNCHANGED <<pc, schedPending>>
        BY <2>2
      <3>2. lockCount' # 0 \/ ~schedPending
        BY <2>2 DEF TypeOK
      <3> QED  BY <3>1, <3>2 DEF NoMissedPreemption, Tasks, TaskCount
    <2> QED  BY <2>1, <2>2
  <1> QED  BY <1>1, <1>2, <1>3, <1>4

(* Creation keeps the list a single cycle through every task.                   *)
LEMMA CreateKeepsRing ==
    ASSUME IInv, InApp, NEW t \in Slots, FreshSlot(t) \/ ReusableSlot(t),
           ring' = RingAfterCreate(t)
    PROVE  /\ ring' \in Seq(Slots) /\ RingIsComplete'
           /\ t # current /\ t # Idle
           /\ Tasks \subseteq Tasks' /\ t \in Tasks'
           /\ \A u \in Tasks' : u = t \/ u \in Tasks
  <1> DEFINE n == Len(ring)
             k == RingPosition(current) + 1
  <1>1. /\ n \in Nat /\ n <= MaxTasks /\ MaxTasks \in Nat
        /\ current \in 1 .. n /\ Idle \in 1 .. n
        /\ state[current] = "RUNNING" /\ state[Idle] # "STOPPED"
        /\ \A j \in 1 .. n : ring[j] \in 1 .. n
        /\ \A u \in 1 .. n : \E j \in 1 .. n : ring[j] = u
        /\ \A i, j \in 1 .. n : ring[i] = ring[j] => i = j
    BY CallerRuns, RingFacts, ConstantsLemma
       DEF IInv, RingIsComplete, Tasks, TaskCount, IdleIsReady
  <1>2. k \in 2 .. n + 1
    <2>1. RingPosition(current) \in 1 .. n
      BY <1>1 DEF RingPosition, TaskCount
    <2>2. n \in Nat
      BY <1>1
    <2> HIDE DEF n
    <2> QED  BY <2>1, <2>2
  <1>3. ring \in Seq(Slots) /\ TaskCount = n /\ Tasks = 1 .. n
    BY DEF IInv, TypeOK, TaskCount, Tasks
  <1>4. CASE FreshSlot(t)
    <2>1. t = n + 1
      BY <1>4, <1>3 DEF FreshSlot
    <2>2. ring' = InsertAt(ring, k, t)
      BY <1>4 DEF RingAfterCreate
    <2> HIDE DEF n, k
    <2>3. n = Len(ring) /\ k \in 1 .. n + 1
      BY <1>1, <1>2 DEF n
    <2>4. /\ ~Linked(ring, t) /\ NoRepeats(ring)
          /\ \A u : Linked(ring, u) <=> u \in 1 .. n
      <3>1. \A j \in 1 .. Len(ring) : ring[j] # t
        BY <1>1, <2>1, <2>3
      <3>2. ~Linked(ring, t)
        BY <3>1 DEF Linked
      <3>3. NoRepeats(ring)
        BY <1>1, <2>3 DEF NoRepeats
      <3>4. ASSUME NEW u PROVE Linked(ring, u) <=> u \in 1 .. n
        <4>1. ASSUME Linked(ring, u) PROVE u \in 1 .. n
          <5>1. PICK j \in 1 .. n : ring[j] = u
            BY <4>1, <2>3 DEF Linked
          <5>2. ring[j] \in 1 .. n
            BY <1>1
          <5> QED  BY <5>1, <5>2
        <4>2. ASSUME u \in 1 .. n PROVE Linked(ring, u)
          <5>1. \E j \in 1 .. n : ring[j] = u
            BY <4>2, <1>1
          <5> QED  BY <5>1, <2>3 DEF Linked
        <4> QED  BY <4>1, <4>2
      <3> QED  BY <3>2, <3>3, <3>4
    <2>5. /\ ring' \in Seq(Slots) /\ Len(ring') = n + 1
          /\ \A u : Linked(ring', u) <=> u = t \/ Linked(ring, u)
          /\ NoRepeats(ring')
      <3>1. k \in 1 .. Len(ring) + 1
        BY <2>3
      <3>2. /\ InsertAt(ring, k, t) \in Seq(Slots)
            /\ Len(InsertAt(ring, k, t)) = Len(ring) + 1
            /\ \A u : Linked(InsertAt(ring, k, t), u) <=> u = t \/ Linked(ring, u)
            /\ NoRepeats(ring) /\ ~Linked(ring, t)
                  => NoRepeats(InsertAt(ring, k, t))
        BY <3>1, <1>3, InsertAtLinks
      <3> QED  BY <3>2, <2>2, <2>3, <2>4
    <2>6. RingIsComplete' /\ Tasks' = 1 .. n + 1
      <3>1. TaskCount' = n + 1 /\ Tasks' = 1 .. n + 1
        BY <2>5 DEF Tasks, TaskCount
      <3>2. \A u : Linked(ring', u) <=> u \in 1 .. n + 1
        <4>1. 1 .. n + 1 = (1 .. n) \cup {t}
          BY <2>1, <1>1
        <4> QED  BY <4>1, <2>4, <2>5
      <3>3. \A j \in 1 .. n + 1 : ring'[j] \in 1 .. n + 1
        BY <3>2, <2>5 DEF Linked
      <3>4. \A u \in 1 .. n + 1 : \E j \in 1 .. n + 1 : ring'[j] = u
        BY <3>2, <2>5 DEF Linked
      <3>5. \A i, j \in 1 .. n + 1 : ring'[i] = ring'[j] => i = j
        BY <2>5 DEF NoRepeats
      <3>6. n + 1 <= MaxTasks
        BY <1>4, <1>1, <1>3 DEF FreshSlot
      <3> QED  BY <3>1, <3>3, <3>4, <3>5, <3>6 DEF RingIsComplete
    <2>7. t # current /\ t # Idle
      BY <2>1, <1>1
    <2>8. /\ 1 .. n \subseteq 1 .. n + 1 /\ t \in 1 .. n + 1
          /\ \A u \in 1 .. n + 1 : u = t \/ u \in 1 .. n
      BY <2>1, <1>1
    <2> QED  BY <2>5, <2>6, <2>7, <2>8, <1>3
  <1>5. CASE ~FreshSlot(t)
    <2>1. ring' = ring /\ TaskCount = MaxTasks /\ state[t] = "STOPPED"
      BY <1>5 DEF RingAfterCreate, ReusableSlot
    <2>2. t # current /\ t # Idle
      BY <2>1, <1>1
    <2>3. Tasks' = Tasks /\ TaskCount' = TaskCount
      BY <2>1 DEF Tasks, TaskCount
    <2>4. RingIsComplete'
      BY <2>1, <2>3 DEF IInv, RingIsComplete
    <2>5. t \in Tasks
      BY <2>1 DEF Tasks, Slots
    <2> QED  BY <2>1, <2>2, <2>3, <2>4, <2>5, <1>3
  <1> QED  BY <1>4, <1>5

LEMMA CreateStep ==
    ASSUME IInv, NEW t \in Slots, NEW p \in CreatePriorities, Create(t, p)
    PROVE  IInv'
  <1>0. /\ current \in Slots /\ current # Idle
        /\ pc[current] = "app" /\ ~pendsv /\ state[current] = "RUNNING"
        /\ \A u \in Tasks : state[u] = "READY" /\ switched[u]
               /\ priority[u] > priority[current] => lockCount # 0 /\ schedPending
    BY CallerRuns DEF Create
  <1>1. /\ ring' \in Seq(Slots) /\ RingIsComplete'
        /\ t # current /\ t # Idle
        /\ Tasks \subseteq Tasks' /\ t \in Tasks'
        /\ \A u \in Tasks' : u = t \/ u \in Tasks
    BY CreateKeepsRing DEF Create
  <1> USE <1>0, <1>1 DEF IInv, Create, WakeTask, lockVars
  <1>2. p \in Nat
    BY SchedulerAssumption
  <1>3. TypeOK'
    BY <1>2 DEF TypeOK, States, WaitTypes, Results, PCs
  <1>4. (current \in Tasks)'
    OBVIOUS
  <1>5. Tasks \subseteq Slots
    BY RingFacts
  <1>6. OneRuns' /\ IdleIsReady'
    BY <1>5 DEF OneRuns, IdleIsReady, TypeOK
  <1>7. CodeMatchesState'
    BY DEF CodeMatchesState, TypeOK
  <1>8. BlockedNeverExecutes'
    BY DEF BlockedNeverExecutes, TypeOK
  <1>9. NoMissedPreemption'
    <2> SUFFICES ASSUME NEW u \in Tasks', state'[u] = "READY", switched'[u],
                        priority'[u] > priority'[current]
                 PROVE  lockCount # 0 /\ schedPending
      BY DEF NoMissedPreemption
    <2>1. u # t
      BY DEF TypeOK
    <2>2. u \in Tasks /\ u \in Slots
      BY <2>1, <1>5
    <2>3. /\ state[u] = "READY" /\ switched[u]
          /\ priority'[u] = priority[u] /\ priority'[current] = priority[current]
      BY <2>1, <2>2 DEF TypeOK
    <2> QED  BY <2>2, <2>3, <1>0
  <1> QED  BY <1>1, <1>3, <1>4, <1>6, <1>7, <1>8, <1>9

LEMMA StutterStep == ASSUME IInv, UNCHANGED kernelVars PROVE IInv'
  BY DEF IInv, kernelVars, ringVars, lockVars, tcbVars, TypeOK, RingIsComplete, Tasks,
         TaskCount, CodeMatchesState, OneRuns, IdleIsReady, BlockedNeverExecutes,
         NoMissedPreemption
-------------------------------------------------------------------------------
(* The invariant that carries every safety property below.                      *)
THEOREM SchedulerInvariant == Spec => []IInv
  <1>1. KernelInit => IInv
    BY InitImpliesIInv
  <1>2. IInv /\ [Next]_kernelVars => IInv'
    <2> SUFFICES ASSUME IInv, [Next]_kernelVars PROVE IInv'
      OBVIOUS
    <2>1. CASE Tick
      BY <2>1, TickStep
    <2>2. CASE PendSV
      BY <2>2, DeferredStep, DispatchedStep DEF PendSV
    <2>3. CASE Yield
      BY <2>3, YieldStep
    <2>4. CASE YieldCall
      BY <2>4, YieldCallStep
    <2>5. CASE SchedLock
      BY <2>5, SchedLockStep
    <2>6. CASE SchedUnlock
      BY <2>6, SchedUnlockStep
    <2>7. CASE Exit
      BY <2>7, ExitStep
    <2>8. CASE \E ms \in SleepTimes : Sleep(ms)
      BY <2>8, SleepStep
    <2>9. CASE \E t \in Slots, p \in CreatePriorities : Create(t, p)
      BY <2>9, CreateStep
    <2>10. CASE UNCHANGED kernelVars
      BY <2>10, StutterStep
    <2> QED
      BY <2>1, <2>2, <2>3, <2>4, <2>5, <2>6, <2>7, <2>8, <2>9, <2>10
         DEF Next, KernelStep
  <1> QED  BY <1>1, <1>2, PTL DEF Spec

(* The variables keep the types of their C declarations.                        *)
THEOREM SchedulerTypeCorrect == Spec => []TypeOK
  <1>1. IInv => TypeOK
    BY DEF IInv
  <1> QED  BY <1>1, SchedulerInvariant, PTL

(* The circular list stays a cycle through every task exactly once.             *)
THEOREM RingStaysComplete == Spec => []RingIsComplete
  <1>1. IInv => RingIsComplete
    BY DEF IInv
  <1> QED  BY <1>1, SchedulerInvariant, PTL

(* Only rtos_current_task is ever marked RUNNING.                               *)
THEOREM OnlyCurrentRuns == Spec => []RunningIsCurrent
  <1>1. IInv => RunningIsCurrent
    BY RingFacts DEF IInv, OneRuns, RunningIsCurrent
  <1> QED  BY <1>1, SchedulerInvariant, PTL

(* A task that is not RUNNING does not execute application code.                *)
THEOREM BlockedTasksStop == Spec => []BlockedNeverExecutes
  <1>1. IInv => BlockedNeverExecutes
    BY DEF IInv
  <1> QED  BY <1>1, SchedulerInvariant, PTL

(* The assertion in rtos_schedule_next() never fails.                           *)
THEOREM AssertionHolds == Spec => []NoAssertFailure
  <1>1. IInv => NoAssertFailure
    BY SomeTaskIsReady
  <1> QED  BY <1>1, SchedulerInvariant, PTL

(* A ready task of a greater priority always has a switch on its way.           *)
THEOREM NoPreemptionIsMissed == Spec => []NoMissedPreemption
  <1>1. IInv => NoMissedPreemption
    BY DEF IInv
  <1> QED  BY <1>1, SchedulerInvariant, PTL

(* Creation takes over a slot only when its stopped task has left for good.     *)
THEOREM SlotReuseIsSafe == Spec => ReuseIsSafe
  <1>1. ASSUME IInv, [Next]_kernelVars, NEW t \in Tasks,
               state[t] = "STOPPED", state'[t] # "STOPPED"
        PROVE  t # current /\ pc[t] \in {"exit", "dead"}
    <2>1. /\ t \in Slots /\ pc[t] \in {"dead", "exit"}
          /\ state \in [Slots -> States] /\ current \in Slots
      BY <1>1, RingFacts DEF IInv, CodeMatchesState, TypeOK
    <2>2. ~Tick /\ ~Deferred /\ ~Yield /\ ~YieldCall /\ ~SchedLock /\ ~SchedUnlock
          /\ ~UNCHANGED kernelVars
      BY <1>1, <2>1 DEF Tick, TaskTick, Expiring, Counting, Deferred, Yield, YieldCall,
            SchedLock, SchedUnlock, kernelVars, tcbVars
    <2>3. ~Dispatched
      <3> SUFFICES ASSUME Dispatched PROVE FALSE
        OBVIOUS
      <3>1. PICK best \in Tasks : ScanKeeps(best)
                                  /\ state' = [Released EXCEPT ![best] = "RUNNING"]
        BY DEF Dispatched
      <3>2. Released[t] = "STOPPED"
        BY <1>1, <2>1 DEF Released
      <3>3. best # t
        BY <3>1, <3>2 DEF ScanKeeps
      <3>4. Released \in [Slots -> States]
        BY <2>1 DEF Released, States
      <3> QED  BY <1>1, <2>1, <3>1, <3>2, <3>3, <3>4
    <2>4. InApp /\ t # current
      <3>1. CASE Exit
        BY <1>1, <2>1, <3>1 DEF Exit
      <3>2. CASE \E ms \in SleepTimes : Sleep(ms)
        BY <1>1, <2>1, <3>2, CallerRuns DEF Sleep
      <3>3. CASE \E u \in Slots, p \in CreatePriorities : Create(u, p)
        BY <1>1, <2>1, <3>3, CallerRuns DEF Create
      <3> QED  BY <1>1, <2>2, <2>3, <3>1, <3>2, <3>3 DEF Next, KernelStep, PendSV
    <2> QED  BY <2>1, <2>4
  <1>2. IInv /\ [Next]_kernelVars => [TakesOverLeftSlots]_kernelVars
    BY <1>1 DEF TakesOverLeftSlots
  <1> QED  BY <1>2, SchedulerInvariant, PTL DEF Spec, ReuseIsSafe
-------------------------------------------------------------------------------
(* The timers: the walk of a tick, and when it meets whom.                      *)
InWalk(r) == \E i \in 1 .. Len(walk) : walk[i] = r

(* Timer r is in its callback.                                                  *)
InCallback(r) == firing /\ r = Head(walk)

(* The present tick has not come to timer r yet.                                *)
ToCome(r) == inTick /\ InWalk(r) /\ ~InCallback(r)

(* The tick, counted from its start, in which timer r will have counted down.   *)
Expected(r) ==
    remaining[r] + promise[r].age + IF inTick /\ ~ToCome(r) THEN 1 ELSE 0

FiringInWalk == firing => inTick /\ walk # <<>>

(* Exactly the active timers have a promise, except that the callback of a      *)
(* one-shot timer may have a new one, which its end takes back.                 *)
ActiveIsPromised(r) ==
    ~(InCallback(r) /\ ~reload[r]) => (active[r] <=> promise[r].by # "none")

(* The count of a timer and the age of its promise stay in step.                *)
CountInStep(r) ==
    promise[r].by # "none" =>
        /\ active[r] /\ period[r] # 0
        /\ ~InCallback(r) => remaining[r] >= 1
        /\ promise[r].by = "task" => Expected(r) = period[r]
        /\ promise[r].by = "reload" => Expected(r) = period[r] + 1
        /\ promise[r].by = "callback" => Expected(r) \in {period[r], period[r] + 1}

(* The inductive invariant.                                                     *)
TimersIInv ==
    /\ TimersTypeOK
    /\ WalkCoversList
    /\ FiringInWalk
    /\ \A r \in Timers : ActiveIsPromised(r) /\ CountInStep(r)
-------------------------------------------------------------------------------
(* The rest of a walk, and who is still to come in it.                          *)
LEMMA TailOfWalk ==
    ASSUME NEW q \in Seq(Timers), q # <<>>
    PROVE  /\ Head(q) \in Timers /\ Head(q) = q[1]
           /\ Tail(q) \in Seq(Timers)
           /\ Len(q) \in Nat \ {0} /\ Len(Tail(q)) = Len(q) - 1
           /\ \A i \in 1 .. Len(Tail(q)) : Tail(q)[i] = q[i + 1]
  OBVIOUS

LEMMA WalkHasNoRepeats ==
    ASSUME TimersTypeOK, WalkCoversList
    PROVE  \A i, j \in 1 .. Len(walk) : walk[i] = walk[j] => i = j
  <1> SUFFICES ASSUME NEW i \in 1 .. Len(walk), NEW j \in 1 .. Len(walk),
                      walk[i] = walk[j]
               PROVE  i = j
    OBVIOUS
  <1> DEFINE gap == Len(timerList) - Len(walk)
  <1>0. Len(walk) \in Nat /\ Len(timerList) \in Nat
    BY DEF TimersTypeOK
  <1>1. gap \in Nat /\ Len(walk) \in Nat /\ Len(timerList) \in Nat
    BY <1>0 DEF WalkCoversList
  <1>2. gap + i \in 1 .. Len(timerList) /\ gap + j \in 1 .. Len(timerList)
    BY <1>1
  <1>3. walk[i] = timerList[gap + i] /\ walk[j] = timerList[gap + j]
    BY DEF WalkCoversList
  <1>4. gap + i = gap + j
    BY <1>2, <1>3 DEF WalkCoversList
  <1> QED  BY <1>1, <1>4

LEMMA HeadLeavesWalk ==
    ASSUME TimersTypeOK, WalkCoversList, walk # <<>>, walk' = Tail(walk), NEW r \in Timers
    PROVE  InWalk(r)' <=> (InWalk(r) /\ r # Head(walk))
  <1>1. walk \in Seq(Timers)
    BY DEF TimersTypeOK
  <1>2. /\ Head(walk) = walk[1] /\ Len(walk) \in Nat \ {0}
        /\ Len(walk') = Len(walk) - 1
        /\ \A i \in 1 .. Len(walk') : walk'[i] = walk[i + 1]
    BY <1>1, TailOfWalk
  <1>3. ASSUME InWalk(r)'  PROVE InWalk(r) /\ r # Head(walk)
    <2>1. PICK i \in 1 .. Len(walk') : walk'[i] = r
      BY <1>3 DEF InWalk
    <2>2. i + 1 \in 1 .. Len(walk) /\ walk[i + 1] = r /\ 1 \in 1 .. Len(walk)
      BY <1>2, <2>1
    <2>3. r # walk[1]
      BY <1>2, <2>1, <2>2, WalkHasNoRepeats
    <2> QED  BY <1>2, <2>2, <2>3 DEF InWalk
  <1>4. ASSUME InWalk(r), r # Head(walk)  PROVE InWalk(r)'
    <2>1. PICK i \in 1 .. Len(walk) : walk[i] = r
      BY <1>4 DEF InWalk
    <2>2. i - 1 \in 1 .. Len(walk') /\ i = (i - 1) + 1
      BY <1>2, <1>4, <2>1
    <2>3. walk'[i - 1] = r
      BY <1>2, <2>1, <2>2
    <2> QED  BY <2>2, <2>3 DEF InWalk
  <1> QED  BY <1>3, <1>4

(* At the start of a tick every active timer is still to come.                  *)
LEMMA WalkStartsFull ==
    ASSUME WalkCoversList, walk' = timerList, NEW r \in Timers, period[r] # 0
    PROVE  InWalk(r)'
  BY DEF WalkCoversList, InWalk, InList

(* Stepping on keeps the walk the end of the list.                              *)
LEMMA TailKeepsCover ==
    ASSUME TimersTypeOK, WalkCoversList, walk # <<>>, walk' = Tail(walk),
           UNCHANGED <<timerList, period>>
    PROVE  WalkCoversList'
  <1>1. walk \in Seq(Timers) /\ timerList \in Seq(Timers)
    BY DEF TimersTypeOK
  <1>2. /\ Len(walk) \in Nat \ {0} /\ Len(walk') = Len(walk) - 1
        /\ \A i \in 1 .. Len(walk') : walk'[i] = walk[i + 1]
    BY <1>1, TailOfWalk
  <1>3. Len(walk') <= Len(timerList)
    BY <1>1, <1>2 DEF WalkCoversList
  <1>4. ASSUME NEW i \in 1 .. Len(walk')
        PROVE  walk'[i] = timerList[Len(timerList) - Len(walk') + i]
    <2>1. i + 1 \in 1 .. Len(walk) /\ walk'[i] = walk[i + 1]
      BY <1>2
    <2>2. walk[i + 1] = timerList[Len(timerList) - Len(walk) + (i + 1)]
      BY <2>1 DEF WalkCoversList
    <2>3. Len(timerList) - Len(walk) + (i + 1) = Len(timerList) - Len(walk') + i
      BY <1>1, <1>2
    <2> QED  BY <2>1, <2>2, <2>3
  <1> QED  BY <1>3, <1>4 DEF WalkCoversList, InList

(* A timer that is linked in front of the list leaves the walk its end.         *)
LEMMA LinkKeepsCover ==
    ASSUME TimersTypeOK, WalkCoversList, NEW r \in Timers, LinkTimer(r), UNCHANGED walk,
           NEW p \in Nat \ {0}, period' = [period EXCEPT ![r] = p]
    PROVE  WalkCoversList'
  <1>1. walk \in Seq(Timers) /\ timerList \in Seq(Timers) /\ period \in [Timers -> Nat]
    BY DEF TimersTypeOK
  <1>2. CASE InList(r)
    <2>1. timerList' = timerList
      BY <1>2 DEF LinkTimer
    <2>2. \A s \in Timers : period'[s] # 0 <=> period[s] # 0
      BY <1>1, <1>2 DEF WalkCoversList
    <2> QED  BY <2>1, <2>2 DEF WalkCoversList, InList
  <1>3. CASE ~InList(r)
    <2>1. timerList' = <<r>> \o timerList
      BY <1>3 DEF LinkTimer
    <2>2. /\ Len(timerList) \in Nat /\ Len(walk) \in Nat
          /\ Len(timerList') = Len(timerList) + 1
          /\ timerList'[1] = r
          /\ \A i \in 1 .. Len(timerList) : timerList'[i + 1] = timerList[i]
      BY <1>1, <2>1
    <2>3. \A i \in 2 .. Len(timerList') :
             i - 1 \in 1 .. Len(timerList) /\ timerList'[i] = timerList[i - 1]
      <3> TAKE i \in 2 .. Len(timerList')
      <3>1. i - 1 \in 1 .. Len(timerList) /\ i = (i - 1) + 1
        BY <2>2
      <3> QED  BY <2>2, <3>1
    <2>4. ASSUME NEW s \in Timers
          PROVE  period'[s] # 0 <=> InList(s)'
      <3>1. CASE s = r
        <4>1. InList(s)'
          BY <2>2, <3>1 DEF InList
        <4> QED  BY <1>1, <3>1, <4>1
      <3>2. CASE s # r
        <4>1. InList(s)' => InList(s)
          <5> SUFFICES ASSUME NEW i \in 1 .. Len(timerList'), timerList'[i] = s
                       PROVE  InList(s)
            BY DEF InList
          <5>1. i # 1
            BY <2>2, <3>2
          <5>2. i \in 2 .. Len(timerList')
            BY <2>2, <5>1
          <5> QED  BY <2>3, <5>2 DEF InList
        <4>2. InList(s) => InList(s)'
          <5> SUFFICES ASSUME NEW i \in 1 .. Len(timerList), timerList[i] = s
                       PROVE  InList(s)'
            BY DEF InList
          <5>1. i + 1 \in 1 .. Len(timerList') /\ timerList'[i + 1] = s
            BY <2>2
          <5> QED  BY <5>1 DEF InList
        <4>3. period'[s] = period[s]
          BY <1>1, <3>2
        <4> QED  BY <4>1, <4>2, <4>3 DEF WalkCoversList
      <3> QED  BY <3>1, <3>2
    <2>5. ASSUME NEW i \in 1 .. Len(timerList'), NEW j \in 1 .. Len(timerList'),
                 timerList'[i] = timerList'[j]
          PROVE  i = j
      <3>1. CASE i = 1 /\ j # 1
        <4>1. j \in 2 .. Len(timerList')
          BY <2>2, <3>1
        <4> QED  BY <1>3, <2>2, <2>3, <2>5, <3>1, <4>1 DEF InList
      <3>2. CASE j = 1 /\ i # 1
        <4>1. i \in 2 .. Len(timerList')
          BY <2>2, <3>2
        <4> QED  BY <1>3, <2>2, <2>3, <2>5, <3>2, <4>1 DEF InList
      <3>3. CASE i # 1 /\ j # 1
        <4>1. i \in 2 .. Len(timerList') /\ j \in 2 .. Len(timerList')
          BY <2>2, <3>3
        <4> DEFINE a == i - 1
                   b == j - 1
        <4>2. /\ a \in 1 .. Len(timerList) /\ b \in 1 .. Len(timerList)
              /\ timerList[a] = timerList[b]
          BY <2>3, <2>5, <4>1
        <4> HIDE DEF a, b
        <4>3. a = b
          BY <4>2 DEF WalkCoversList
        <4> QED  BY <4>1, <4>3 DEF a, b
      <3> QED  BY <3>1, <3>2, <3>3
    <2>6. ASSUME NEW i \in 1 .. Len(walk)
          PROVE  walk[i] = timerList'[Len(timerList') - Len(walk) + i]
      <3> DEFINE k == Len(timerList) - Len(walk) + i
      <3>1. k \in 1 .. Len(timerList) /\ Len(timerList') - Len(walk) + i = k + 1
        BY <2>2 DEF WalkCoversList
      <3>2. walk[i] = timerList[k]
        BY DEF WalkCoversList
      <3> HIDE DEF k
      <3> QED  BY <2>2, <3>1, <3>2
    <2> QED  BY <2>2, <2>4, <2>5, <2>6 DEF WalkCoversList
  <1> QED  BY <1>2, <1>3
-------------------------------------------------------------------------------
LEMMA TypesHold ==
    ASSUME TimersTypeOK, FiringInWalk, WalkCoversList, [TimersNext]_timerVars
    PROVE  TimersTypeOK'
  <1> USE DEF TimersTypeOK, Nowhere, ArmedBy
  <1>1. ASSUME NEW r \in Timers, NEW ticks \in Periods, NEW again \in BOOLEAN,
               TimerInit(r, ticks, again)
        PROVE  TimersTypeOK'
    <2>1. ticks \in Nat
      BY TimersAssumption
    <2> QED  BY <1>1, <2>1 DEF TimerInit, LinkTimer
  <1>2. ASSUME NEW r \in Timers, TimerStart(r)  PROVE TimersTypeOK'
    BY <1>2 DEF TimerStart, LinkTimer
  <1>3. ASSUME NEW r \in Timers, TimerStop(r)  PROVE TimersTypeOK'
    BY <1>3 DEF TimerStop
  <1>4. CASE BeginWalk
    BY <1>4 DEF BeginWalk
  <1>5. CASE PassOver
    BY <1>5, TailOfWalk DEF PassOver
  <1>6. CASE CountDown
    <2> DEFINE r == Head(walk)
    <2>1. r \in Timers /\ Tail(walk) \in Seq(Timers) /\ remaining[r] - 1 \in Nat
      BY <1>6, TailOfWalk DEF CountDown, Counted
    <2>2. remaining' \in [Timers -> Nat] /\ period' = period
      BY <1>6, <2>1 DEF CountDown
    <2>3. \A s \in Timers : remaining'[s] <= period'[s]
      BY <1>6, <2>1, <2>2 DEF CountDown
    <2>4. walk' \in Seq(Timers) /\ firing' \in BOOLEAN
      BY <1>6, <2>1 DEF CountDown
    <2>5. promise' \in [Timers -> [by : ArmedBy, age : Nat]]
      BY <1>6, <2>1 DEF CountDown
    <2> QED  BY <1>6, <2>2, <2>3, <2>4, <2>5 DEF CountDown
  <1>7. CASE CallbackReturns
    <2>1. Head(walk) \in Timers /\ Tail(walk) \in Seq(Timers)
      BY <1>7, TailOfWalk DEF CallbackReturns, FiringInWalk
    <2>2. remaining' \in [Timers -> Nat] /\ active' \in [Timers -> BOOLEAN]
      BY <1>7, <2>1 DEF CallbackReturns
    <2>3. \A s \in Timers : remaining'[s] <= period'[s]
      <3>1. period' = period
        BY <1>7 DEF CallbackReturns
      <3>2. CASE reload[Head(walk)]
        <4>1. remaining' = [remaining EXCEPT ![Head(walk)] = period[Head(walk)]]
          BY <1>7, <3>2 DEF CallbackReturns
        <4> QED  BY <2>1, <3>1, <4>1
      <3>3. CASE ~reload[Head(walk)]
        BY <1>7, <3>1, <3>3 DEF CallbackReturns
      <3> QED  BY <3>2, <3>3
    <2>4. promise' \in [Timers -> [by : ArmedBy, age : Nat]]
      BY <1>7, <2>1 DEF CallbackReturns
    <2> QED  BY <1>7, <2>1, <2>2, <2>3, <2>4 DEF CallbackReturns
  <1>8. CASE EndWalk
    <2>1. promise' \in [Timers -> [by : ArmedBy, age : Nat]]
      <3> SUFFICES ASSUME NEW r \in Timers
                   PROVE  promise'[r] \in [by : ArmedBy, age : Nat]
        BY <1>8 DEF EndWalk
      <3>1. promise[r] \in [by : ArmedBy, age : Nat]
        OBVIOUS
      <3>2. CASE promise[r].by = "none"
        BY <1>8, <3>2 DEF EndWalk
      <3>3. CASE promise[r].by # "none"
        <4>1. promise'[r] = [promise[r] EXCEPT !.age = promise[r].age + 1]
          BY <1>8, <3>3 DEF EndWalk
        <4>2. promise'[r] = [by |-> promise[r].by, age |-> promise[r].age + 1]
          BY <3>1, <4>1
        <4>3. promise[r].by \in ArmedBy /\ promise[r].age + 1 \in Nat
          BY <3>1
        <4> QED  BY <4>2, <4>3
      <3> QED  BY <3>2, <3>3
    <2> QED  BY <1>8, <2>1 DEF EndWalk
  <1>9. CASE UNCHANGED timerVars
    BY <1>9 DEF timerVars
  <1> QED
    BY <1>1, <1>2, <1>3, <1>4, <1>5, <1>6, <1>7, <1>8, <1>9
    DEF TimersNext, UserCalls, WalkStep

LEMMA CoverHolds ==
    ASSUME TimersTypeOK, FiringInWalk, WalkCoversList, [TimersNext]_timerVars
    PROVE  WalkCoversList'
  <1>1. ASSUME NEW r \in Timers, NEW ticks \in Periods, NEW again \in BOOLEAN,
               TimerInit(r, ticks, again)
        PROVE  WalkCoversList'
    <2>1. ticks \in Nat \ {0}
      BY TimersAssumption
    <2> QED  BY <1>1, <2>1, LinkKeepsCover DEF TimerInit
  <1>2. ASSUME NEW r \in Timers, TimerStart(r)  PROVE WalkCoversList'
    <2>1. timerList' = timerList
      BY <1>2 DEF TimerStart, LinkTimer, WalkCoversList
    <2> QED  BY <1>2, <2>1 DEF TimerStart, WalkCoversList, InList
  <1>3. ASSUME NEW r \in Timers, TimerStop(r)  PROVE WalkCoversList'
    BY <1>3 DEF TimerStop, WalkCoversList, InList
  <1>4. CASE BeginWalk
    <2>1. Len(timerList) \in Nat
      BY DEF TimersTypeOK
    <2> QED  BY <1>4, <2>1 DEF BeginWalk, WalkCoversList, InList
  <1>5. CASE PassOver
    BY <1>5, TailKeepsCover DEF PassOver
  <1>6. CASE CountDown
    <2>1. CASE walk' = walk
      BY <1>6, <2>1 DEF CountDown, WalkCoversList, InList
    <2>2. CASE walk' = Tail(walk)
      BY <1>6, <2>2, TailKeepsCover DEF CountDown
    <2> QED  BY <1>6, <2>1, <2>2 DEF CountDown
  <1>7. CASE CallbackReturns
    BY <1>7, TailKeepsCover DEF CallbackReturns, FiringInWalk
  <1>8. CASE EndWalk
    BY <1>8 DEF EndWalk, WalkCoversList, InList
  <1>9. CASE UNCHANGED timerVars
    BY <1>9 DEF timerVars, WalkCoversList, InList
  <1> QED
    BY <1>1, <1>2, <1>3, <1>4, <1>5, <1>6, <1>7, <1>8, <1>9
    DEF TimersNext, UserCalls, WalkStep

LEMMA FiringHolds ==
    ASSUME FiringInWalk, [TimersNext]_timerVars
    PROVE  FiringInWalk'
  BY DEF FiringInWalk, TimersNext, timerVars, UserCalls, WalkStep, TimerInit, TimerStart,
         TimerStop, BeginWalk, PassOver, CountDown, CallbackReturns, EndWalk
-------------------------------------------------------------------------------
(* How an action changes the two facts about timer s, one lemma for each.       *)
InStep(s) == ActiveIsPromised(s) /\ CountInStep(s)

(* Timer s and its place in the walk are left alone.                            *)
Untouched(s) ==
    /\ remaining'[s] = remaining[s] /\ period'[s] = period[s]
    /\ reload'[s] = reload[s] /\ active'[s] = active[s]
    /\ promise'[s] = promise[s]

LEMMA UntouchedStaysInStep ==
    ASSUME NEW s \in Timers, InStep(s), Untouched(s), inTick' = inTick,
           InCallback(s)' <=> InCallback(s), ToCome(s)' <=> ToCome(s)
    PROVE  InStep(s)'
  <1>1. Expected(s)' = Expected(s)
    BY DEF Expected, Untouched
  <1> QED  BY <1>1 DEF InStep, ActiveIsPromised, CountInStep, Untouched

LEMMA CallsKeepStep ==
    ASSUME TimersIInv, NEW s \in Timers, InStep(s), UserCalls
    PROVE  InStep(s)'
  <1> USE DEF TimersIInv, TimersTypeOK
  <1>1. ASSUME UNCHANGED <<inTick, walk, firing>>
        PROVE  /\ inTick' = inTick /\ (InCallback(s)' <=> InCallback(s))
               /\ ToCome(s)' <=> ToCome(s)
    BY <1>1 DEF InCallback, ToCome, InWalk
  <1>2. ASSUME NEW r \in Timers, NEW ticks \in Periods, NEW again \in BOOLEAN,
               TimerInit(r, ticks, again)
        PROVE  InStep(s)'
    <2>1. CASE s = r
      <3>1. active'[s] = FALSE /\ promise'[s].by = "none"
        BY <1>2, <2>1 DEF TimerInit, Nowhere
      <3> QED  BY <3>1 DEF InStep, ActiveIsPromised, CountInStep
    <2>2. CASE s # r
      <3>1. Untouched(s)
        BY <1>2, <2>2 DEF TimerInit, Untouched
      <3> QED  BY <1>1, <1>2, <3>1, UntouchedStaysInStep DEF TimerInit
    <2> QED  BY <2>1, <2>2
  <1>3. ASSUME NEW r \in Timers, TimerStart(r)  PROVE InStep(s)'
    <2>1. CASE s = r
      <3>1. /\ active'[s] /\ period'[s] = period[s] /\ period[s] \in Nat \ {0}
            /\ remaining'[s] = period[s] /\ promise'[s].age = 0 /\ inTick' = inTick
            /\ promise'[s].by = IF inTick THEN "callback" ELSE "task"
        BY <1>3, <2>1 DEF TimerStart
      <3>2. Expected(s)' = period[s] \/ (inTick /\ Expected(s)' = period[s] + 1)
        BY <3>1 DEF Expected
      <3> QED  BY <3>1, <3>2 DEF InStep, ActiveIsPromised, CountInStep
    <2>2. CASE s # r
      <3>1. Untouched(s)
        BY <1>3, <2>2 DEF TimerStart, Untouched
      <3> QED  BY <1>1, <1>3, <3>1, UntouchedStaysInStep DEF TimerStart
    <2> QED  BY <2>1, <2>2
  <1>4. ASSUME NEW r \in Timers, TimerStop(r)  PROVE InStep(s)'
    <2>1. CASE s = r
      <3>1. active'[s] = FALSE /\ promise'[s].by = "none"
        BY <1>4, <2>1 DEF TimerStop, Nowhere
      <3> QED  BY <3>1 DEF InStep, ActiveIsPromised, CountInStep
    <2>2. CASE s # r
      <3>1. Untouched(s)
        BY <1>4, <2>2 DEF TimerStop, Untouched
      <3> QED  BY <1>1, <1>4, <3>1, UntouchedStaysInStep DEF TimerStop
    <2> QED  BY <2>1, <2>2
  <1> QED  BY <1>2, <1>3, <1>4 DEF UserCalls

LEMMA BeginKeepsStep ==
    ASSUME TimersIInv, NEW s \in Timers, InStep(s), BeginWalk
    PROVE  InStep(s)'
  <1>1. ~InCallback(s) /\ ~InCallback(s)' /\ ~inTick /\ inTick' /\ Untouched(s)
    BY DEF BeginWalk, InCallback, TimersIInv, FiringInWalk, Untouched
  <1>2. ASSUME promise[s].by # "none"  PROVE Expected(s)' = Expected(s)
    <2>1. InWalk(s)'
      BY <1>2, WalkStartsFull DEF BeginWalk, TimersIInv, InStep, CountInStep
    <2>2. ToCome(s)' /\ ~ToCome(s)
      BY <1>1, <2>1 DEF ToCome
    <2> QED  BY <1>1, <2>2 DEF Expected, Untouched
  <1> QED  BY <1>1, <1>2 DEF InStep, ActiveIsPromised, CountInStep, Untouched

LEMMA PassKeepsStep ==
    ASSUME TimersIInv, NEW s \in Timers, InStep(s), PassOver
    PROVE  InStep(s)'
  <1>1. /\ ~InCallback(s) /\ ~InCallback(s)' /\ inTick /\ inTick' = inTick
        /\ Untouched(s)
    BY DEF PassOver, InCallback, Untouched
  <1>2. InWalk(s)' <=> (InWalk(s) /\ s # Head(walk))
    BY HeadLeavesWalk DEF PassOver, TimersIInv
  <1>3. CASE s # Head(walk)
    <2>1. ToCome(s)' <=> ToCome(s)
      BY <1>1, <1>2, <1>3 DEF ToCome
    <2> QED  BY <1>1, <2>1, UntouchedStaysInStep
  <1>4. CASE s = Head(walk)
    <2>1. ~Counted(s) /\ remaining[s] \in Nat
      BY <1>4 DEF PassOver, TimersIInv, TimersTypeOK
    <2>2. promise[s].by = "none" /\ ~active[s]
      BY <1>1, <2>1 DEF InStep, ActiveIsPromised, CountInStep, Counted
    <2> QED  BY <1>1, <2>2 DEF InStep, ActiveIsPromised, CountInStep, Untouched
  <1> QED  BY <1>3, <1>4

LEMMA CountDownKeepsStep ==
    ASSUME TimersIInv, NEW s \in Timers, InStep(s), CountDown
    PROVE  InStep(s)'
  <1>1. /\ ~InCallback(s) /\ inTick /\ inTick' = inTick
        /\ walk # <<>> /\ walk \in Seq(Timers) /\ Head(walk) \in Timers
    BY TailOfWalk DEF CountDown, InCallback, TimersIInv, TimersTypeOK
  <1>2. CASE s # Head(walk)
    <2>1. Untouched(s)
      BY <1>1, <1>2 DEF CountDown, Untouched, TimersIInv, TimersTypeOK
    <2>2. ~InCallback(s)'
      BY <1>2 DEF CountDown, InCallback
    <2>3. InWalk(s)' <=> InWalk(s)
      <3>1. CASE walk' = walk
        BY <3>1 DEF InWalk
      <3>2. CASE walk' = Tail(walk)
        BY <1>1, <1>2, <3>2, HeadLeavesWalk DEF TimersIInv
      <3> QED  BY <3>1, <3>2 DEF CountDown
    <2>4. ToCome(s)' <=> ToCome(s)
      BY <1>1, <2>2, <2>3 DEF ToCome
    <2> QED  BY <1>1, <2>1, <2>2, <2>4, UntouchedStaysInStep
  <1>3. CASE s = Head(walk)
    <2>1. ToCome(s)
      <3>1. Head(walk) = walk[1] /\ 1 \in 1 .. Len(walk)
        BY <1>1, TailOfWalk
      <3> QED  BY <1>1, <1>3, <3>1 DEF ToCome, InWalk
    <2>2. ~ToCome(s)'
      <3>1. CASE firing'
        BY <1>3, <3>1 DEF CountDown, ToCome, InCallback
      <3>2. CASE ~firing'
        <4>1. walk' = Tail(walk)
          BY <3>2 DEF CountDown
        <4> QED  BY <1>1, <1>3, <4>1, HeadLeavesWalk DEF TimersIInv, ToCome
      <3> QED  BY <3>1, <3>2
    <2>3. /\ remaining[s] \in Nat \ {0} /\ remaining'[s] = remaining[s] - 1
          /\ active[s] /\ active' = active /\ period' = period /\ reload' = reload
          /\ promise[s].by # "none" /\ promise[s].age \in Nat /\ period[s] \in Nat
      BY <1>1, <1>3 DEF CountDown, Counted, TimersIInv, TimersTypeOK, InStep, ActiveIsPromised
    <2>4. CASE firing' /\ ~reload[s]
      <3>1. promise'[s].by = "none" /\ InCallback(s)'
        BY <1>3, <2>4 DEF CountDown, Nowhere, InCallback, TimersIInv, TimersTypeOK
      <3> QED  BY <2>3, <2>4, <3>1 DEF InStep, ActiveIsPromised, CountInStep
    <2>5. CASE ~(firing' /\ ~reload[s])
      <3>1. promise' = promise
        BY <1>3, <2>5 DEF CountDown
      <3>2. Expected(s)' = Expected(s)
        <4>1. Expected(s) = remaining[s] + promise[s].age
          BY <1>1, <2>1, <2>3 DEF Expected
        <4>2. Expected(s)' = (remaining[s] - 1) + promise[s].age + 1
          BY <1>1, <2>2, <2>3, <3>1 DEF Expected
        <4>3. \A m \in Nat \ {0}, n \in Nat : (m - 1) + n + 1 = m + n
          OBVIOUS
        <4> QED  BY <2>3, <4>1, <4>2, <4>3
      <3>3. ~InCallback(s)' => remaining'[s] >= 1
        <4>1. CASE firing'
          BY <1>3, <4>1 DEF CountDown, InCallback
        <4>2. CASE ~firing'
          <5>1. remaining[s] # 1
            BY <1>3, <4>2 DEF CountDown
          <5> QED  BY <2>3, <5>1
        <4> QED  BY <4>1, <4>2
      <3> QED  BY <2>3, <3>1, <3>2, <3>3 DEF InStep, ActiveIsPromised, CountInStep
    <2> QED  BY <2>4, <2>5
  <1> QED  BY <1>2, <1>3

LEMMA ReturnKeepsStep ==
    ASSUME TimersIInv, NEW s \in Timers, InStep(s), CallbackReturns
    PROVE  InStep(s)'
  <1>1. /\ firing /\ inTick /\ inTick' = inTick /\ ~InCallback(s)'
        /\ walk # <<>> /\ walk' = Tail(walk) /\ Head(walk) \in Timers
    BY TailOfWalk DEF CallbackReturns, InCallback, TimersIInv, TimersTypeOK, FiringInWalk
  <1>2. InWalk(s)' <=> (InWalk(s) /\ s # Head(walk))
    BY <1>1, HeadLeavesWalk DEF TimersIInv
  <1>3. CASE s # Head(walk)
    <2>1. Untouched(s)
      BY <1>1, <1>3 DEF CallbackReturns, Untouched, TimersIInv, TimersTypeOK
    <2>2. (InCallback(s)' <=> InCallback(s)) /\ (ToCome(s)' <=> ToCome(s))
      BY <1>1, <1>2, <1>3 DEF ToCome, InCallback
    <2> QED  BY <1>1, <2>1, <2>2, UntouchedStaysInStep
  <1>4. CASE s = Head(walk)
    <2>1. period' = period /\ reload' = reload /\ period[s] \in Nat
      BY DEF CallbackReturns, TimersIInv, TimersTypeOK
    <2>2. CASE reload[s] /\ promise[s].by # "none"
      <3>1. /\ remaining'[s] = period[s] /\ active'[s] = active[s]
            /\ promise'[s] = [by |-> "reload", age |-> 0]
        BY <1>1, <1>4, <2>2 DEF CallbackReturns, TimersIInv, TimersTypeOK
      <3>2. active[s] /\ period[s] # 0
        BY <2>2 DEF InStep, CountInStep
      <3>3. ~ToCome(s)'
        BY <1>2, <1>4 DEF ToCome
      <3>4. Expected(s)' = period[s] + 1
        BY <1>1, <2>1, <3>1, <3>3 DEF Expected
      <3> QED
        BY <2>1, <3>1, <3>2, <3>4 DEF InStep, ActiveIsPromised, CountInStep
    <2>3. CASE ~(reload[s] /\ promise[s].by # "none")
      <3>1. promise'[s].by = "none"
        BY <1>1, <1>4, <2>3 DEF CallbackReturns, TimersIInv, TimersTypeOK, Nowhere
      <3>2. ~active'[s]
        <4>1. CASE reload[s]
          BY <1>1, <1>4, <2>3, <4>1
          DEF CallbackReturns, InStep, ActiveIsPromised, TimersIInv, TimersTypeOK
        <4>2. CASE ~reload[s]
          BY <1>1, <1>4, <4>2 DEF CallbackReturns, TimersIInv, TimersTypeOK
        <4> QED  BY <4>1, <4>2
      <3> QED  BY <3>1, <3>2 DEF InStep, ActiveIsPromised, CountInStep
    <2> QED  BY <2>2, <2>3
  <1> QED  BY <1>3, <1>4

LEMMA EndKeepsStep ==
    ASSUME TimersIInv, NEW s \in Timers, InStep(s), EndWalk
    PROVE  InStep(s)'
  <1>1. /\ ~InCallback(s) /\ ~InCallback(s)' /\ inTick /\ ~inTick' /\ walk = <<>>
        /\ remaining' = remaining /\ period' = period /\ reload' = reload
        /\ active' = active /\ remaining[s] \in Nat /\ promise[s].age \in Nat
    BY DEF EndWalk, InCallback, TimersIInv, TimersTypeOK
  <1>2. CASE promise[s].by = "none"
    <2>1. promise'[s].by = "none"
      BY <1>2 DEF EndWalk, Nowhere
    <2> QED  BY <1>1, <1>2, <2>1 DEF InStep, ActiveIsPromised, CountInStep
  <1>3. CASE promise[s].by # "none"
    <2>1. promise'[s] = [promise[s] EXCEPT !.age = promise[s].age + 1]
      BY <1>3 DEF EndWalk
    <2>2. promise[s] \in [by : ArmedBy, age : Nat]
      BY DEF TimersIInv, TimersTypeOK
    <2>3. promise'[s].age = promise[s].age + 1 /\ promise'[s].by = promise[s].by
      BY <2>1, <2>2
    <2>4. ~ToCome(s)
      BY <1>1 DEF ToCome, InWalk
    <2>5. Expected(s)' = Expected(s)
      BY <1>1, <2>3, <2>4 DEF Expected
    <2> QED  BY <1>1, <2>3, <2>5 DEF InStep, ActiveIsPromised, CountInStep
  <1> QED  BY <1>2, <1>3
-------------------------------------------------------------------------------
LEMMA InitHolds == TimersInit => TimersIInv
  <1> SUFFICES ASSUME TimersInit  PROVE TimersIInv
    OBVIOUS
  <1>1. TimersTypeOK
    <2>1. Nowhere \in [by : ArmedBy, age : Nat]
      BY DEF Nowhere, ArmedBy
    <2>2. promise \in [Timers -> [by : ArmedBy, age : Nat]]
      BY <2>1 DEF TimersInit
    <2>3. remaining = period
      BY DEF TimersInit
    <2>4. period \in [Timers -> Nat] /\ remaining \in [Timers -> Nat]
      BY DEF TimersInit
    <2>5. timerList \in Seq(Timers) /\ walk \in Seq(Timers)
      BY DEF TimersInit
    <2>6. reload \in [Timers -> BOOLEAN] /\ active \in [Timers -> BOOLEAN]
      BY DEF TimersInit
    <2>7. ASSUME NEW r \in Timers  PROVE remaining[r] <= period[r]
      <3>1. period[r] \in Nat
        BY <2>4
      <3>2. \A n \in Nat : n <= n
        OBVIOUS
      <3> QED  BY <2>3, <3>1, <3>2
    <2>8. inTick \in BOOLEAN /\ firing \in BOOLEAN
      BY DEF TimersInit
    <2> QED  BY <2>2, <2>4, <2>5, <2>6, <2>7, <2>8 DEF TimersTypeOK
  <1>2. WalkCoversList /\ FiringInWalk
    BY DEF TimersInit, WalkCoversList, FiringInWalk, InList
  <1>3. \A r \in Timers : ActiveIsPromised(r) /\ CountInStep(r)
    BY DEF TimersInit, ActiveIsPromised, CountInStep, Nowhere
  <1> QED  BY <1>1, <1>2, <1>3 DEF TimersIInv

LEMMA StepHolds == TimersIInv /\ [TimersNext]_timerVars => TimersIInv'
  <1> SUFFICES ASSUME TimersIInv, [TimersNext]_timerVars  PROVE TimersIInv'
    OBVIOUS
  <1>1. TimersTypeOK' /\ WalkCoversList' /\ FiringInWalk'
    BY TypesHold, CoverHolds, FiringHolds DEF TimersIInv
  <1>2. ASSUME NEW s \in Timers  PROVE InStep(s)'
    <2>1. InStep(s)
      BY DEF TimersIInv, InStep
    <2>2. CASE UNCHANGED timerVars
      BY <2>1, <2>2
      DEF timerVars, InStep, ActiveIsPromised, CountInStep, Expected, ToCome,
          InCallback, InWalk
    <2>3. CASE TimersNext
      BY <2>1, <2>3, CallsKeepStep, BeginKeepsStep, PassKeepsStep, CountDownKeepsStep,
         ReturnKeepsStep, EndKeepsStep DEF TimersNext, WalkStep
    <2> QED  BY <2>2, <2>3
  <1> QED  BY <1>1, <1>2 DEF TimersIInv, InStep

(* The list, the counts and the promises of timers stay in step: the inductive  *)
(* invariant behind the other theorems (timer.c:7-98).                          *)
THEOREM TimersInvariant == TimersSpec => []TimersIInv
  <1> QED  BY InitHolds, StepHolds, PTL DEF TimersSpec

(* The variables of timer.c keep their types; no count exceeds its period.      *)
THEOREM TimersTypeCorrect == TimersSpec => []TimersTypeOK
  <1>1. TimersIInv => TimersTypeOK
    BY DEF TimersIInv
  <1> QED  BY <1>1, TimersInvariant, PTL

(* The walk of rtos_timer_tick() is the end of the list, and the list meets     *)
(* every initialised timer once, whatever callbacks link (timer.c:7-16, 77-97). *)
THEOREM WalkMeetsEveryTimer == TimersSpec => []WalkCoversList
  <1>1. TimersIInv => WalkCoversList
    BY DEF TimersIInv
  <1> QED  BY <1>1, TimersInvariant, PTL

(* Each timer fires in the tick it is due, and none is overdue (timer.c:49-98). *)
THEOREM TimersAreOnTime == TimersSpec => TimersFireOnTime
  <1>1. ASSUME TimersIInv, [TimersNext]_timerVars, NEW r \in Timers
        PROVE  /\ Fires(r) => FiresWhenDue(r)
               /\ promise[r].by # "none" => promise[r].age <= period[r]
    <2>1. /\ CountInStep(r) /\ ActiveIsPromised(r)
          /\ remaining[r] \in Nat /\ period[r] \in Nat
          /\ promise[r].age \in Nat /\ promise[r].by \in ArmedBy
      BY <1>1 DEF TimersIInv, TimersTypeOK
    <2>2. ASSUME Fires(r)  PROVE FiresWhenDue(r)
      <3>1. CountDown /\ r = Head(walk) /\ remaining[r] = 1 /\ inTick /\ ~firing
        BY <1>1, <2>2
        DEF Fires, TimersNext, UserCalls, TimerInit, TimerStart, TimerStop, BeginWalk,
            WalkStep, PassOver, CountDown, CallbackReturns, EndWalk, timerVars
      <3>2. promise[r].by # "none"
        BY <2>1, <3>1 DEF CountDown, Counted, ActiveIsPromised, InCallback
      <3>3. ToCome(r)
        <4>1. Head(walk) = walk[1] /\ 1 \in 1 .. Len(walk)
          BY <1>1, <3>1, TailOfWalk DEF CountDown, TimersIInv, TimersTypeOK
        <4> QED  BY <3>1, <4>1 DEF ToCome, InWalk, InCallback
      <3>4. Expected(r) = 1 + promise[r].age
        BY <2>1, <3>1, <3>3 DEF Expected
      <3> QED
        BY <2>1, <3>2, <3>4 DEF CountInStep, FiresWhenDue, ArmedBy
    <2>3. ASSUME promise[r].by # "none"  PROVE promise[r].age <= period[r]
      <3>1. Expected(r) <= period[r] + 1
        BY <2>1, <2>3 DEF CountInStep, ArmedBy
      <3>2. remaining[r] >= 1 \/ (inTick /\ ~ToCome(r))
        BY <1>1, <2>1, <2>3 DEF CountInStep, ToCome, InCallback, TimersIInv, FiringInWalk
      <3> QED  BY <2>1, <3>1, <3>2 DEF Expected
    <2> QED  BY <2>2, <2>3
  <1>2. TimersIInv /\ [TimersNext]_timerVars =>
           [\A r \in Timers :
              /\ Fires(r) => FiresWhenDue(r)
              /\ promise[r].by # "none" => promise[r].age <= period[r]]_timerVars
    BY <1>1
  <1> QED  BY <1>2, TimersInvariant, PTL DEF TimersSpec, TimersFireOnTime
-------------------------------------------------------------------------------
(* The semaphore: who is on its wait list, and what a token meets there.        *)
SemTypes == count \in 0 .. MaxCount /\ waiters \in Seq(Tasks)

(* A task is blocked in its wait for a token, and linked; one that is linked    *)
(* without being blocked has timed out and will unlink itself.                  *)
BlockedIsLinked ==
    \A t \in Tasks : state[t] = "BLOCKED" =>
        /\ waitType[t] = "SEM" /\ waitResult[t] = "OK"
        /\ InWait(t) /\ Linked(waiters, t)
LinkedIsInWait ==
    \A t \in Tasks : Linked(waiters, t) =>
        InWait(t) /\ (state[t] = "BLOCKED" \/ waitResult[t] = "TIMEOUT")

(* The inductive invariant.                                                     *)
SemIInv ==
    /\ KernelInv
    /\ SemTypes
    /\ PrioritiesAreBase
    /\ BlockedIsLinked
    /\ LinkedIsInWait
    /\ NoRepeats(waiters)
    /\ Sorted(waiters, priority)

LEMMA SemIInvFacts ==
    ASSUME SemIInv
    PROVE  /\ RingIsWhole /\ Tasks \subseteq Slots
           /\ state \in [Slots -> States] /\ pc \in [Slots -> PCs]
           /\ waiters \in Seq(Tasks) /\ NoRepeats(waiters)
           /\ priority \in [Slots -> Nat] /\ Sorted(waiters, priority)
           /\ InitialCount \in Nat /\ MaxCount \in Nat /\ count \in 0 .. MaxCount
  BY TaskFacts, SemaphoreAssumption
  DEF SemIInv, KernelInv, KernelTypes, SemTypes, PrioritiesAreBase

LEMMA SemInitHolds == SemInit => SemIInv
  <1> SUFFICES ASSUME SemInit PROVE SemIInv
    OBVIOUS
  <1>1. /\ KernelInv /\ PrioritiesAreBase
        /\ \A t \in Slots : state[t] # "BLOCKED" /\ pc[t] = "app"
    BY KernelInitHolds DEF SemInit
  <1>2. Tasks \subseteq Slots
    BY <1>1, TaskFacts DEF KernelInv
  <1>3. waiters = <<>> /\ SemTypes
    BY SemaphoreAssumption DEF SemInit, SemTypes
  <1>4. /\ \A t : ~Linked(waiters, t)
        /\ NoRepeats(waiters) /\ Sorted(waiters, priority)
    BY <1>3 DEF Linked, NoRepeats, Sorted
  <1> QED  BY <1>1, <1>2, <1>3, <1>4 DEF SemIInv, BlockedIsLinked, LinkedIsInWait
-------------------------------------------------------------------------------
(* SysTick, PendSV and the yields.                                              *)
LEMMA SemKernelStepHolds ==
    ASSUME SemIInv, KernelStep, UNCHANGED semVars
    PROVE  SemIInv'
  <1>1. /\ KernelInv' /\ ring' = ring
        /\ UNCHANGED <<basePriority, priority, waitType, count, waiters>>
        /\ \A t \in Slots : KernelEffect(t)
    BY KernelStepEffect DEF SemIInv, semVars
  <1>2. Tasks' = Tasks /\ Tasks \subseteq Slots
    BY <1>1, TasksHold, SemIInvFacts
  <1>3. BlockedIsLinked'
    BY <1>1, <1>2
    DEF SemIInv, BlockedIsLinked, KernelEffect, OnlySwitched, TimesOut, Runnable,
        InWait, InWaitCode, Linked
  <1>4. LinkedIsInWait'
    BY <1>1, <1>2
    DEF SemIInv, LinkedIsInWait, KernelEffect, OnlySwitched, TimesOut, Runnable,
        InWait, InWaitCode, Linked
  <1> QED
    BY <1>1, <1>2, <1>3, <1>4
    DEF SemIInv, SemTypes, PrioritiesAreBase, NoRepeats, Sorted

LEMMA TakeTokenHolds ==
    ASSUME SemIInv, TakeToken
    PROVE  SemIInv'
  <1>1. /\ UNCHANGED <<ring, current, pendsv, state, delay, waitType, waitResult, pc,
                       basePriority, priority, waiters>>
        /\ count' \in 0 .. MaxCount
    BY SemIInvFacts DEF TakeToken, kernelVars, ringVars, tcbVars
  <1>2. Tasks' = Tasks
    BY <1>1, TasksHold
  <1> QED
    BY <1>1, <1>2
    DEF SemIInv, KernelInv, KernelTypes, RingIsWhole, TaskCount, ServedRuns, IdleStaysOut,
        SemTypes, PrioritiesAreBase, BlockedIsLinked, LinkedIsInWait, InWait,
        NoRepeats, Sorted, Linked

LEMMA StartWaitHolds ==
    ASSUME SemIInv, NEW ms \in Timeouts, StartWait(ms)
    PROVE  SemIInv'
  <1>1. /\ ~pendsv /\ current # Idle /\ pc[current] = "app" /\ current \in Tasks
        /\ ms \in Nat /\ "SEM" \in WaitTypes
    BY SemaphoreAssumption
    DEF StartWait, InApp, WaitTypes, SemIInv, KernelInv, KernelTypes
  <1>2. /\ BlockCurrent("SEM", ms, "block")
        /\ UNCHANGED <<ring, current, pendsv, basePriority, priority, count>>
        /\ waiters' = WaitPush(waiters, current, priority)
    BY DEF StartWait, ringVars
  <1>3. KernelInv' /\ \A t \in Slots : BlockEffect("SEM", "block", t)
    BY <1>1, <1>2, BlockCurrentEffect DEF SemIInv
  <1>4. Tasks' = Tasks /\ Tasks \subseteq Slots
    BY <1>2, TasksHold, SemIInvFacts
  <1>5. ~Linked(waiters, current)
    BY <1>1 DEF SemIInv, LinkedIsInWait, InWait
  <1>6. Pushed(waiters', waiters, current) /\ Sorted(waiters', priority)
    BY <1>1, <1>2, <1>5, SemIInvFacts, PushLinks
  <1>7. BlockedIsLinked'
    BY <1>3, <1>4, <1>6
    DEF SemIInv, BlockedIsLinked, BlockEffect, SameWait, SameCode, InWait, Pushed
  <1>8. LinkedIsInWait'
    BY <1>3, <1>4, <1>6
    DEF SemIInv, LinkedIsInWait, BlockEffect, SameWait, SameCode, InWait, Pushed
  <1> QED
    BY <1>2, <1>3, <1>4, <1>6, <1>7, <1>8
    DEF SemIInv, SemTypes, PrioritiesAreBase, Pushed

(* A task that comes back from its wait is no longer linked.                    *)
LEMMA EndWaitUnlinks ==
    ASSUME SemIInv, EndWait
    PROVE  /\ Removed(waiters', waiters, current) /\ Sorted(waiters', priority)
           /\ KernelInv' /\ state[current] = "RUNNING" /\ pc'[current] = "app"
           /\ \A t \in Slots : t # current => SameWait(t) /\ SameCode(t)
           /\ UNCHANGED <<ring, current, pendsv, state, basePriority, priority, waitResult,
                          count>>
           /\ current \in 1 .. AppTasks /\ pc[current] = "resume"
  <1>1. /\ Resuming /\ GoTo("app")
        /\ waitType' \in {waitType, [waitType EXCEPT ![current] = "NONE"]}
        /\ UNCHANGED <<ring, current, pendsv, state, delay, basePriority, priority,
                       waitResult, count>>
    BY DEF EndWait, ringVars
  <1>2. /\ KernelInv'
        /\ \A t \in Slots : t # current => SameWait(t) /\ SameCode(t)
        /\ state[current] = "RUNNING" /\ pc'[current] = "app"
        /\ current # Idle /\ pc[current] = "resume"
    BY <1>1, EndWaitEffect DEF SemIInv
  <1>3. current \in 1 .. AppTasks
    BY <1>2, TaskFacts DEF SemIInv, KernelInv, KernelTypes
  <1>4. CASE waitResult[current] = "TIMEOUT"
    <2>1. waiters' = WaitRemove(waiters, current)
      BY <1>4 DEF EndWait
    <2> QED  BY <1>1, <1>2, <1>3, <2>1, RemoveUnlinks, SemIInvFacts
  <1>5. CASE waitResult[current] # "TIMEOUT"
    <2>1. waiters' = waiters
      BY <1>5 DEF EndWait
    <2>2. current \in Tasks
      BY DEF SemIInv, KernelInv, KernelTypes
    <2>3. ~Linked(waiters, current)
      BY <1>2, <1>5, <2>2 DEF SemIInv, LinkedIsInWait
    <2> QED  BY <1>1, <1>2, <1>3, <2>1, <2>3, SemIInvFacts DEF Removed
  <1> QED  BY <1>4, <1>5

LEMMA EndWaitHolds ==
    ASSUME SemIInv, EndWait
    PROVE  SemIInv'
  <1> USE EndWaitUnlinks
  <1>1. Tasks' = Tasks /\ Tasks \subseteq Slots
    BY TasksHold, SemIInvFacts
  <1>2. BlockedIsLinked'
    BY <1>1 DEF SemIInv, BlockedIsLinked, SameWait, SameCode, InWait, Removed
  <1>3. LinkedIsInWait'
    BY <1>1 DEF SemIInv, LinkedIsInWait, SameWait, SameCode, InWait, Removed
  <1> QED
    BY <1>1, <1>2, <1>3 DEF SemIInv, SemTypes, PrioritiesAreBase, Removed

(* The token goes to a waiter, or to the count, or nowhere.                     *)
LEMMA PostEffect ==
    ASSUME SemIInv, PostCommon, Post \/ PostIsr
    PROVE  /\ KernelInv'
           /\ \A t \in Slots : WakeEffect(waiters, t)
           /\ \A t \in Slots : InWait(t)' <=> InWait(t)
           /\ Popped(waiters', waiters) /\ Sorted(waiters', priority)
           /\ MostUrgent(waiters, priority)
           /\ UNCHANGED <<ring, basePriority, priority>>
  <1>1. /\ WakeFirst(waiters) /\ waiters' = WaitPop(waiters, Waiting)
        /\ UNCHANGED <<ring, current, basePriority, priority>>
    BY DEF PostCommon, ringVars
  <1>2. /\ Popped(waiters', waiters) /\ Sorted(waiters', priority)
        /\ MostUrgent(waiters, priority)
    BY <1>1, SemIInvFacts, PopLinks, PopServes
  <1>3. /\ KernelInv'
        /\ \A t \in Slots : WakeEffect(waiters, t)
        /\ \A t \in Slots : InWait(t)' <=> InWait(t)
    <2>1. CASE Post
      <3>1. /\ ~pendsv /\ current # Idle /\ pc[current] = "app"
            /\ ReturnAfterWake(waiters) /\ pendsv' = pendsv
        BY <2>1 DEF Post, InApp
      <3>2. /\ KernelInv'
            /\ \A t \in Slots : WakeEffect(waiters, t)
            /\ \A t \in Slots : t # current => SameCode(t)
            /\ pc'[current] \in {"app", "kick"}
        BY <1>1, <3>1, TaskWakesEffect, SemIInvFacts DEF SemIInv
      <3> QED  BY <3>1, <3>2 DEF SameCode, InWait
    <2>2. CASE PostIsr
      <3>1. pendsv' = (pendsv \/ ~NobodyWaits(waiters)) /\ UNCHANGED pc
        BY <2>2 DEF PostIsr
      <3> QED  BY <1>1, <3>1, IsrWakesEffect, SemIInvFacts DEF SemIInv, InWait
    <2> QED  BY <2>1, <2>2
  <1> QED  BY <1>1, <1>2, <1>3

LEMMA PostHolds ==
    ASSUME SemIInv, PostCommon, Post \/ PostIsr
    PROVE  SemIInv'
  <1> USE PostEffect
  <1>1. Tasks' = Tasks /\ Tasks \subseteq Slots
    BY TasksHold, SemIInvFacts
  <1>2. BlockedIsLinked'
    BY <1>1
    DEF SemIInv, BlockedIsLinked, WakeEffect, SameWait, Popped, StillWaiting
  <1>3. LinkedIsInWait'
    BY <1>1 DEF SemIInv, LinkedIsInWait, WakeEffect, SameWait, Popped
  <1>4. count' \in 0 .. MaxCount
    BY SemIInvFacts DEF PostCommon
  <1> QED
    BY <1>1, <1>2, <1>3, <1>4 DEF SemIInv, SemTypes, PrioritiesAreBase, Popped

LEMMA SemStutterHolds ==
    ASSUME SemIInv, UNCHANGED semaphoreVars
    PROVE  SemIInv'
  <1>1. Tasks' = Tasks
    BY TasksHold DEF semaphoreVars, kernelVars, ringVars
  <1> QED
    BY <1>1
    DEF SemIInv, KernelInv, KernelTypes, RingIsWhole, TaskCount, ServedRuns, IdleStaysOut,
        SemTypes, PrioritiesAreBase, BlockedIsLinked, LinkedIsInWait, InWait,
        NoRepeats, Sorted, Linked, semaphoreVars, kernelVars, ringVars, tcbVars, semVars

LEMMA SemNextHolds == SemIInv /\ [SemNext]_semaphoreVars => SemIInv'
  <1> SUFFICES ASSUME SemIInv, [SemNext]_semaphoreVars PROVE SemIInv'
    OBVIOUS
  <1>1. CASE KernelStep /\ UNCHANGED semVars
    BY <1>1, SemKernelStepHolds
  <1>2. CASE TakeToken
    BY <1>2, TakeTokenHolds
  <1>3. CASE \E ms \in Timeouts : StartWait(ms)
    BY <1>3, StartWaitHolds
  <1>4. CASE EndWait
    BY <1>4, EndWaitHolds
  <1>5. CASE Post \/ PostIsr
    BY <1>5, PostHolds DEF Post, PostIsr
  <1>6. CASE UNCHANGED semaphoreVars
    BY <1>6, SemStutterHolds
  <1> QED  BY <1>1, <1>2, <1>3, <1>4, <1>5, <1>6 DEF SemNext, SemStep

LEMMA SemIInvAlwaysHolds == SemSpec => []SemIInv
  BY SemInitHolds, SemNextHolds, PTL DEF SemSpec
-------------------------------------------------------------------------------
(* Every variable keeps its type; the count stays between 0 and the maximum.    *)
THEOREM SemTypeCorrect == SemSpec => []SemTypeOK
  <1>1. SemIInv => SemTypeOK
    BY DEF SemIInv, KernelInv, KernelTypes, SemTypes, SemTypeOK
  <1> QED  BY <1>1, SemIInvAlwaysHolds, PTL

(* The wait list holds the waiting tasks, each once, the most urgent one first, *)
(* whenever interrupts, ticks and the two critical sections of a wait meet.     *)
THEOREM SemListStaysExact == SemSpec => []ListIsExact
  <1>1. SemIInv => ListIsExact
    BY DEF SemIInv, BlockedIsLinked, LinkedIsInWait, ListIsExact, StillWaiting
  <1> QED  BY <1>1, SemIInvAlwaysHolds, PTL
-------------------------------------------------------------------------------
(* No two tasks that stay linked change places.                                 *)
KeepsOrder(p, q) ==
    \A t, u \in Tasks :
        Linked(p, t) /\ Linked(p, u) /\ Before(q, t, u) => Before(p, t, u)

LEMMA PushKeepsOrder ==
    ASSUME NEW q \in Seq(Tasks), NEW c \in Tasks, NEW i \in 1 .. Len(q) + 1,
           NEW p, InsertedAt(p, q, i, c)
    PROVE  KeepsOrder(p, q)
  <1>1. Len(q) \in Nat
    BY LenProperties
  <1>2. ASSUME NEW t \in Tasks, NEW u \in Tasks, Before(q, t, u)
        PROVE  Before(p, t, u)
    <2>1. PICK x, y \in 1 .. Len(q) : x < y /\ q[x] = t /\ q[y] = u
      BY <1>2 DEF Before
    <2> DEFINE place(j) == IF j < i THEN j ELSE j + 1
    <2>2. /\ place(x) \in 1 .. Len(p) /\ place(y) \in 1 .. Len(p)
          /\ place(x) < place(y)
      BY <1>1, <2>1 DEF InsertedAt
    <2>3. p[place(x)] = t /\ p[place(y)] = u
      BY <1>1, <2>1 DEF InsertedAt
    <2> HIDE DEF place
    <2> QED  BY <2>2, <2>3 DEF Before
  <1> QED  BY <1>2 DEF KeepsOrder

LEMMA PopKeepsOrder ==
    ASSUME NEW q \in Seq(Tasks), NoRepeats(q)
    PROVE  KeepsOrder(WaitPop(q, Waiting), q)
  <1> DEFINE i == FirstIndex(q, Waiting)
             p == WaitPop(q, Waiting)
  <1>1. Len(q) \in Nat /\ i \in 1 .. Len(q) + 1
    BY FirstIndexFinds, LenProperties
  <1>2. p = SubSeq(q, i + 1, Len(q))
    BY DEF WaitPop
  <1> HIDE DEF i, p
  <1>3. \A j \in 1 .. Len(p) : i + j \in 1 .. Len(q) /\ p[j] = q[i + j]
    BY <1>1, <1>2, SubSeqProperties
  <1>4. Len(p) \in Nat
    BY <1>1, <1>2, SubSeqProperties
  <1>5. ASSUME NEW t \in Tasks, NEW u \in Tasks, Linked(p, t), Linked(p, u), Before(q, t, u)
        PROVE  Before(p, t, u)
    <2>1. PICK x, y \in 1 .. Len(q) : x < y /\ q[x] = t /\ q[y] = u
      BY <1>5 DEF Before
    <2>2. PICK a, b \in 1 .. Len(p) : p[a] = t /\ p[b] = u
      BY <1>5 DEF Linked
    <2>3. x = i + a /\ y = i + b
      BY <1>3, <2>1, <2>2 DEF NoRepeats
    <2>4. a < b
      BY <1>1, <1>4, <2>1, <2>3
    <2> QED  BY <2>2, <2>4 DEF Before
  <1>6. KeepsOrder(p, q)
    BY <1>5 DEF KeepsOrder
  <1> QED  BY <1>6 DEF p

LEMMA RemoveKeepsOrder ==
    ASSUME NEW q \in Seq(Tasks), NoRepeats(q), NEW c
    PROVE  KeepsOrder(WaitRemove(q, c), q)
  <1> DEFINE i == FirstIndex(q, {c})
             p == WaitRemove(q, c)
  <1>1. Len(q) \in Nat /\ i \in 1 .. Len(q) + 1
    BY FirstIndexFinds, LenProperties
  <1>2. p = IF i <= Len(q) THEN RemoveAt(q, i) ELSE q
    BY DEF WaitRemove
  <1> HIDE DEF i, p
  <1>3. CASE i > Len(q)
    BY <1>1, <1>2, <1>3 DEF KeepsOrder, p
  <1>4. CASE i \in 1 .. Len(q)
    <2> DEFINE place(j) == IF j < i THEN j ELSE j + 1
    <2>1. /\ Len(p) = Len(q) - 1
          /\ \A j \in 1 .. Len(p) : place(j) \in 1 .. Len(q) /\ p[j] = q[place(j)]
      <3>1. p = RemoveAt(q, i)
        BY <1>1, <1>2, <1>4
      <3>2. /\ Len(p) = Len(q) - 1
            /\ \A j \in 1 .. Len(q) - 1 : p[j] = IF j < i THEN q[j] ELSE q[j + 1]
        BY <1>4, <3>1, RemoveAtProperties
      <3> QED  BY <1>1, <1>4, <3>2
    <2>2. ASSUME NEW t \in Tasks, NEW u \in Tasks, Linked(p, t), Linked(p, u),
                 Before(q, t, u)
          PROVE  Before(p, t, u)
      <3>1. PICK x, y \in 1 .. Len(q) : x < y /\ q[x] = t /\ q[y] = u
        BY <2>2 DEF Before
      <3>2. PICK a, b \in 1 .. Len(p) : p[a] = t /\ p[b] = u
        BY <2>2 DEF Linked
      <3>3. x = place(a) /\ y = place(b)
        BY <2>1, <3>1, <3>2 DEF NoRepeats
      <3>4. a < b
        BY <1>1, <2>1, <3>1, <3>2, <3>3
      <3> QED  BY <3>2, <3>4 DEF Before
    <2>3. KeepsOrder(p, q)
      BY <2>2 DEF KeepsOrder
    <2> QED  BY <2>3 DEF p
  <1> QED  BY <1>1, <1>3, <1>4

(* A newcomer goes behind every waiter of its own priority or above.            *)
LEMMA NewcomerIsBehind ==
    ASSUME NEW q \in Seq(Tasks), NEW c \in Tasks, NEW prio \in [Slots -> Nat],
           Tasks \subseteq Slots, Sorted(q, prio), NEW t \in Tasks, Linked(q, t),
           prio[t] >= prio[c], NEW p,
           InsertedAt(p, q, FirstIndex(q, LessUrgent(c, prio)), c)
    PROVE  Before(p, t, c)
  <1> DEFINE i == FirstIndex(q, LessUrgent(c, prio))
  <1>1. /\ Len(q) \in Nat /\ i \in 1 .. Len(q) + 1
        /\ i <= Len(q) => q[i] \in LessUrgent(c, prio)
    BY FirstIndexFinds, LenProperties
  <1>2. InsertedAt(p, q, i, c)
    OBVIOUS
  <1>3. i <= Len(q) => prio[q[i]] < prio[c] /\ q[i] \in Slots
    BY <1>1 DEF LessUrgent
  <1> HIDE DEF i
  <1>4. PICK x \in 1 .. Len(q) : q[x] = t
    BY DEF Linked
  <1>5. x < i
    <2>1. SUFFICES ASSUME i <= x PROVE FALSE
      BY <1>1, <1>4
    <2>2. i \in 1 .. Len(q)
      BY <1>1, <1>4, <2>1
    <2>3. prio[t] <= prio[q[i]]
      BY <1>4, <2>1, <2>2 DEF Sorted
    <2>4. prio[t] \in Nat /\ prio[c] \in Nat /\ prio[q[i]] \in Nat
      BY <1>3, <2>2
    <2> QED  BY <1>3, <2>2, <2>3, <2>4
  <1>6. x \in 1 .. Len(p) /\ i \in 1 .. Len(p) /\ p[x] = t /\ p[i] = c
    BY <1>1, <1>2, <1>4, <1>5 DEF InsertedAt
  <1> QED  BY <1>5, <1>6 DEF Before

StaysFair ==
    \A t, u \in Tasks :
        (Linked(waiters, t) /\ Linked(waiters', t) /\ Linked(waiters', u)) =>
           /\ Before(waiters, t, u) => Before(waiters', t, u)
           /\ (~Linked(waiters, u) /\ priority[t] >= priority[u])
                  => Before(waiters', t, u)

LEMMA StartWaitIsFair ==
    ASSUME SemIInv, NEW ms \in Timeouts, StartWait(ms)
    PROVE  StaysFair
  <1> DEFINE i == FirstIndex(waiters, LessUrgent(current, priority))
  <1>1. /\ waiters \in Seq(Tasks) /\ current \in Tasks /\ Tasks \subseteq Slots
        /\ priority \in [Slots -> Nat] /\ Sorted(waiters, priority)
    BY SemIInvFacts DEF SemIInv, KernelInv, KernelTypes
  <1>2. waiters' = InsertAt(waiters, i, current) /\ i \in 1 .. Len(waiters) + 1
    BY <1>1, FirstIndexFinds DEF StartWait, WaitPush
  <1>3. InsertedAt(waiters', waiters, i, current)
    <2> HIDE DEF i
    <2> QED  BY <1>1, <1>2, InsertAtProperties
  <1>4. KeepsOrder(waiters', waiters)
    <2> HIDE DEF i
    <2> QED  BY <1>1, <1>2, <1>3, PushKeepsOrder
  <1>5. ASSUME NEW t \in Tasks, Linked(waiters, t), priority[t] >= priority[current]
        PROVE  Before(waiters', t, current)
    BY <1>1, <1>3, <1>5, NewcomerIsBehind
  <1>6. ASSUME NEW u \in Tasks, Linked(waiters', u), ~Linked(waiters, u)
        PROVE  u = current
    <2>1. /\ ~pendsv /\ pc[current] = "app"
          /\ waiters' = WaitPush(waiters, current, priority)
      BY DEF StartWait, InApp
    <2>2. ~Linked(waiters, current)
      BY <1>1, <2>1 DEF SemIInv, LinkedIsInWait, InWait
    <2>3. Pushed(waiters', waiters, current)
      BY <1>1, <2>1, <2>2, SemIInvFacts, PushLinks
    <2> QED  BY <1>6, <2>3 DEF Pushed
  <1> QED  BY <1>4, <1>5, <1>6 DEF StaysFair, KeepsOrder

(* Waiters never overtake each other, whoever times out or is served around     *)
(* them, and a newcomer goes behind its equals (sem.c:20-48).                   *)
THEOREM FirstComeFirstServed == SemSpec => FirstComeAmongEquals
  <1>1. ASSUME SemIInv, [SemNext]_semaphoreVars
        PROVE  StaysFair
    <2>1. CASE \E ms \in Timeouts : StartWait(ms)
      BY <1>1, <2>1, StartWaitIsFair
    <2>2. CASE EndWait
      <3>1. waiters' \in {waiters, WaitRemove(waiters, current)}
        BY <2>2 DEF EndWait
      <3>2. KeepsOrder(waiters', waiters)
        BY <1>1, <3>1, SemIInvFacts, RemoveKeepsOrder DEF KeepsOrder
      <3>3. Removed(waiters', waiters, current)
        BY <1>1, <2>2, EndWaitUnlinks
      <3> QED  BY <3>2, <3>3 DEF StaysFair, KeepsOrder, Removed
    <2>3. CASE PostCommon
      <3>1. KeepsOrder(waiters', waiters) /\ Popped(waiters', waiters)
        BY <1>1, <2>3, SemIInvFacts, PopKeepsOrder, PopLinks DEF PostCommon
      <3> QED  BY <3>1 DEF StaysFair, KeepsOrder, Popped
    <2>4. CASE UNCHANGED waiters
      BY <2>4 DEF StaysFair
    <2> QED
      BY <1>1, <2>1, <2>2, <2>3, <2>4
      DEF SemNext, SemStep, Post, PostIsr, TakeToken, semaphoreVars, semVars
  <1>2. SemIInv /\ [SemNext]_semaphoreVars =>
           [\A t, u \in Tasks :
               (Linked(waiters, t) /\ Linked(waiters', t) /\ Linked(waiters', u)) =>
                  /\ Before(waiters, t, u) => Before(waiters', t, u)
                  /\ (~Linked(waiters, u) /\ priority[t] >= priority[u])
                         => Before(waiters', t, u)]_semaphoreVars
    BY <1>1 DEF StaysFair
  <1> QED  BY <1>2, SemIInvAlwaysHolds, PTL DEF SemSpec, FirstComeAmongEquals
-------------------------------------------------------------------------------
(* The refinement.  The clients that wait, and those a token was handed to.     *)
Clients == 1 .. AppTasks
WaitingClients == {t \in Clients : waitType[t] = "SEM" /\ StillWaiting(t)}
GrantedClients ==
    {t \in Clients : InWait(t) /\ state[t] # "BLOCKED" /\ waitResult[t] = "OK"}

LEMMA ClientFacts ==
    ASSUME SemIInv
    PROVE  /\ Clients \subseteq Tasks /\ Clients \subseteq Slots
           /\ \A t \in Clients : t \in WaitingClients <=> state[t] = "BLOCKED"
           /\ current \in Tasks /\ (current # Idle => current \in Clients)
           /\ \A t \in Clients : priority[t] = BasePriority[t]
  BY TaskFacts
  DEF SemIInv, KernelInv, KernelTypes, BlockedIsLinked, WaitingClients, Clients,
      StillWaiting, PrioritiesAreBase

(* Ticks only end waits; switches and yields are invisible.                     *)
LEMMA KernelStepExpires ==
    ASSUME SemIInv, KernelStep, UNCHANGED semVars
    PROVE  /\ count' = count /\ GrantedClients' = GrantedClients
           /\ WaitingClients' \subseteq WaitingClients
  <1>1. /\ waitType' = waitType /\ \A t \in Clients : KernelEffect(t)
        /\ UNCHANGED <<count, waiters>>
    BY KernelStepEffect, ClientFacts DEF SemIInv, semVars
  <1>2. ASSUME NEW t \in Clients
        PROVE  /\ t \in GrantedClients' <=> t \in GrantedClients
               /\ t \in WaitingClients' => t \in WaitingClients
    BY <1>1
    DEF GrantedClients, WaitingClients, StillWaiting, KernelEffect, OnlySwitched, TimesOut,
        Runnable, InWait, InWaitCode
  <1> QED  BY <1>1, <1>2 DEF GrantedClients, WaitingClients

LEMMA StartWaitEnlists ==
    ASSUME SemIInv, NEW ms \in Timeouts, StartWait(ms)
    PROVE  /\ current \in Clients /\ current \notin WaitingClients \cup GrantedClients
           /\ count = 0 /\ UNCHANGED <<count, GrantedClients>>
           /\ WaitingClients' = WaitingClients \cup {current}
  <1>1. /\ ~pendsv /\ current # Idle /\ pc[current] = "app"
        /\ ms \in Nat /\ "SEM" \in WaitTypes
        /\ BlockCurrent("SEM", ms, "block") /\ count = 0
        /\ UNCHANGED <<ring, current, pendsv, count>>
    BY SemaphoreAssumption DEF StartWait, InApp, WaitTypes, ringVars
  <1>2. /\ current \in Clients /\ Clients \subseteq Slots
        /\ state[current] = "RUNNING"
    BY <1>1, ClientFacts, CallerFacts DEF SemIInv
  <1>3. \A t \in Clients : BlockEffect("SEM", "block", t)
    BY <1>1, <1>2, BlockCurrentEffect DEF SemIInv
  <1>4. ASSUME NEW t \in Clients
        PROVE  /\ t \in GrantedClients' <=> t \in GrantedClients
               /\ t \in WaitingClients' <=> t \in WaitingClients \/ t = current
    BY <1>1, <1>2, <1>3
    DEF BlockEffect, SameWait, SameCode, GrantedClients, WaitingClients, StillWaiting, InWait
  <1>5. current \notin WaitingClients \cup GrantedClients
    BY <1>1, <1>2 DEF GrantedClients, WaitingClients, StillWaiting, InWait
  <1> QED
    BY <1>1, <1>2, <1>4, <1>5 DEF GrantedClients, WaitingClients

LEMMA EndWaitCollects ==
    ASSUME SemIInv, EndWait
    PROVE  /\ current \in Clients /\ UNCHANGED <<count, WaitingClients>>
           /\ GrantedClients' = GrantedClients \ {current}
  <1>1. /\ current \in Clients /\ Clients \subseteq Slots /\ state[current] = "RUNNING"
        /\ count' = count /\ pc'[current] = "app" /\ state' = state
        /\ \A t \in Slots : t # current => SameWait(t) /\ SameCode(t)
    BY EndWaitUnlinks, ClientFacts DEF Clients
  <1>2. ASSUME NEW t \in Clients
        PROVE  /\ t \in GrantedClients' <=> t \in GrantedClients /\ t # current
               /\ t \in WaitingClients' <=> t \in WaitingClients
    BY <1>1
    DEF SameWait, SameCode, GrantedClients, WaitingClients, StillWaiting, InWait
  <1> QED  BY <1>1, <1>2 DEF GrantedClients, WaitingClients

LEMMA PostGrants ==
    ASSUME SemIInv, PostCommon, Post \/ PostIsr, ~NobodyWaits(waiters)
    PROVE  \E t \in WaitingClients :
               /\ \A u \in WaitingClients : BasePriority[u] <= BasePriority[t]
               /\ WaitingClients' = WaitingClients \ {t}
               /\ GrantedClients' = GrantedClients \cup {t}
               /\ count' = count
  <1> DEFINE c == Chosen(waiters)
  <1>1. /\ waiters \in Seq(Tasks) /\ Clients \subseteq Slots /\ Clients \subseteq Tasks
        /\ \A t \in Clients : t \in WaitingClients <=> state[t] = "BLOCKED"
    BY ClientFacts, SemIInvFacts
  <1>2. /\ c \in Tasks /\ c # Idle /\ StillWaiting(c) /\ Linked(waiters, c)
    BY <1>1, ChosenWaits DEF SemIInv
  <1>3. c \in WaitingClients /\ InWait(c) /\ c \in Clients
    BY <1>1, <1>2, TaskFacts, SemIInvFacts
    DEF StillWaiting, Clients, WaitingClients, SemIInv, BlockedIsLinked
  <1>4. /\ \A t \in Clients : WakeEffect(waiters, t)
        /\ \A t \in Clients : InWait(t)' <=> InWait(t)
        /\ MostUrgent(waiters, priority)
    BY <1>1, PostEffect
  <1>5. \A t \in Clients : IF t = c THEN /\ state'[t] = "READY" /\ waitType'[t] = "NONE"
                                        /\ waitResult'[t] = "OK"
                                   ELSE SameWait(t)
    BY <1>4 DEF WakeEffect
  <1>6. ASSUME NEW u \in WaitingClients
        PROVE  BasePriority[u] <= BasePriority[c]
    <2>1. u \in Tasks /\ u \in Clients /\ StillWaiting(u) /\ Linked(waiters, u)
      BY <1>1 DEF WaitingClients, StillWaiting, SemIInv, BlockedIsLinked
    <2>2. priority[u] <= priority[c]
      BY <1>4, <2>1 DEF MostUrgent
    <2> QED  BY <1>3, <2>1, <2>2, ClientFacts
  <1>7. count' = count
    BY DEF PostCommon
  <1> HIDE DEF c
  <1>8. ASSUME NEW t \in Clients
        PROVE  /\ t \in WaitingClients' <=> t \in WaitingClients /\ t # c
               /\ t \in GrantedClients' <=> t \in GrantedClients \/ t = c
    BY <1>3, <1>4, <1>5 DEF SameWait, WaitingClients, GrantedClients, StillWaiting
  <1>9. WaitingClients' = WaitingClients \ {c} /\ GrantedClients' = GrantedClients \cup {c}
    BY <1>3, <1>8 DEF WaitingClients, GrantedClients
  <1> QED  BY <1>3, <1>6, <1>7, <1>9

LEMMA PostReleases ==
    ASSUME SemIInv, PostCommon, Post \/ PostIsr, NobodyWaits(waiters)
    PROVE  /\ WaitingClients = {} /\ UNCHANGED <<WaitingClients, GrantedClients>>
           /\ count' = IF count < MaxCount THEN count + 1 ELSE count
  <1>1. Clients \subseteq Slots /\ Clients \subseteq Tasks
    BY ClientFacts
  <1>2. /\ \A t \in Clients : WakeEffect(waiters, t)
        /\ \A t \in Clients : InWait(t)' <=> InWait(t)
        /\ Popped(waiters', waiters)
    BY <1>1, PostEffect
  <1>3. WaitingClients = {}
    BY <1>1, <1>2 DEF Popped, WaitingClients, StillWaiting, SemIInv, BlockedIsLinked
  <1>4. ASSUME NEW t \in Clients
        PROVE  /\ t \in WaitingClients' <=> t \in WaitingClients
               /\ t \in GrantedClients' <=> t \in GrantedClients
    BY <1>2 DEF WakeEffect, SameWait, WaitingClients, GrantedClients, StillWaiting
  <1> QED  BY <1>3, <1>4 DEF PostCommon, WaitingClients, GrantedClients

AbstractStep ==
    \/ /\ WaitingClients = {} /\ count < MaxCount /\ count' = count + 1
       /\ UNCHANGED <<WaitingClients, GrantedClients>>
    \/ /\ \E S \in SUBSET WaitingClients : S # {} /\ WaitingClients' = WaitingClients \ S
       /\ UNCHANGED <<count, GrantedClients>>
    \/ \E t \in Clients :
          /\ t \notin WaitingClients \cup GrantedClients
          /\ \/ /\ count > 0 /\ count' = count - 1
                /\ UNCHANGED <<WaitingClients, GrantedClients>>
             \/ /\ count = 0 /\ WaitingClients' = WaitingClients \cup {t}
                /\ UNCHANGED <<count, GrantedClients>>
    \/ \E t \in WaitingClients :
          /\ \A u \in WaitingClients : BasePriority[u] <= BasePriority[t]
          /\ WaitingClients' = WaitingClients \ {t}
          /\ GrantedClients' = GrantedClients \cup {t}
          /\ count' = count
    \/ \E t \in GrantedClients :
          GrantedClients' = GrantedClients \ {t} /\ UNCHANGED <<count, WaitingClients>>
    \/ UNCHANGED <<count, WaitingClients, GrantedClients>>

LEMMA StepsRefine ==
    ASSUME SemIInv, [SemNext]_semaphoreVars
    PROVE  AbstractStep
  <1>1. CASE KernelStep /\ UNCHANGED semVars
    <2>1. /\ WaitingClients' = WaitingClients \ (WaitingClients \ WaitingClients')
          /\ UNCHANGED <<count, GrantedClients>>
      BY <1>1, KernelStepExpires
    <2> QED  BY <2>1 DEF AbstractStep
  <1>2. CASE TakeToken
    <2>1. /\ current \in Clients /\ state[current] = "RUNNING" /\ pc[current] = "app"
      BY <1>2, ClientFacts, CallerFacts DEF TakeToken, InApp, SemIInv
    <2>2. /\ count > 0 /\ count' = count - 1
          /\ UNCHANGED <<state, waitType, waitResult, pc>>
      BY <1>2 DEF TakeToken, kernelVars, tcbVars
    <2>3. UNCHANGED <<WaitingClients, GrantedClients>>
      BY <2>2 DEF WaitingClients, GrantedClients, StillWaiting, InWait
    <2>4. current \notin WaitingClients \cup GrantedClients
      BY <2>1 DEF WaitingClients, GrantedClients, StillWaiting, InWait
    <2> QED  BY <2>1, <2>2, <2>3, <2>4 DEF AbstractStep
  <1>3. CASE \E ms \in Timeouts : StartWait(ms)
    BY <1>3, StartWaitEnlists DEF AbstractStep
  <1>4. CASE EndWait
    <2>1. GrantedClients \ {current} = GrantedClients \/ current \in GrantedClients
      OBVIOUS
    <2> QED  BY <1>4, <2>1, EndWaitCollects DEF AbstractStep
  <1>5. CASE Post \/ PostIsr
    <2>1. PostCommon
      BY <1>5 DEF Post, PostIsr
    <2>2. CASE ~NobodyWaits(waiters)
      BY <1>5, <2>1, <2>2, PostGrants DEF AbstractStep
    <2>3. CASE NobodyWaits(waiters)
      BY <1>5, <2>1, <2>3, PostReleases DEF AbstractStep
    <2> QED  BY <2>2, <2>3
  <1>6. CASE UNCHANGED semaphoreVars
    BY <1>6
    DEF AbstractStep, semaphoreVars, kernelVars, tcbVars, semVars, WaitingClients, GrantedClients,
        StillWaiting, InWait
  <1> QED  BY <1>1, <1>2, <1>3, <1>4, <1>5, <1>6 DEF SemNext, SemStep

(* Every step of the semaphore, of the tick, of a task in between its two       *)
(* critical sections, or of an interrupt, is one of the abstract semaphore, or  *)
(* leaves it as it is: no token is handed out twice, lies idle beside a waiter, *)
(* or is given to a task that has given up, and each goes to the most urgent    *)
(* waiter.                                                                      *)
THEOREM SemaphoreRefines == SemSpec => ImplementsAbstract
  <1>1. SemInit => Abstract!AbstractInit
    <2> SUFFICES ASSUME SemInit PROVE Abstract!AbstractInit
      OBVIOUS
    <2>1. \A t \in Clients : state[t] # "BLOCKED" /\ pc[t] = "app"
      BY KernelInitHolds, SemInitHolds, ClientFacts DEF SemInit
    <2>2. WaitingClients = {} /\ GrantedClients = {} /\ count = InitialCount
      BY <2>1 DEF SemInit, WaitingClients, GrantedClients, StillWaiting, InWait
    <2> QED
      BY <2>2 DEF Abstract!AbstractInit, WaitingClients, GrantedClients, Clients
  <1>2. SemIInv /\ [SemNext]_semaphoreVars => [Abstract!AbstractNext]_(Abstract!abstractVars)
    <2> SUFFICES ASSUME AbstractStep
                 PROVE  [Abstract!AbstractNext]_(Abstract!abstractVars)
      BY StepsRefine
    <2> QED
      BY DEF AbstractStep, Abstract!AbstractNext, Abstract!abstractVars, Abstract!Release,
             Abstract!Expire, Abstract!Take, Abstract!Enlist, Abstract!Grant,
             Abstract!Collect, WaitingClients, GrantedClients, Clients
  <1> QED
    BY <1>1, <1>2, SemIInvAlwaysHolds, PTL DEF SemSpec, ImplementsAbstract, Abstract!AbstractSpec
===============================================================================
