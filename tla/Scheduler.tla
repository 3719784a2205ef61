------------------------------- MODULE Scheduler -------------------------------
(* The scheduler as applications use it: yielding, sleeping, locking the        *)
(* scheduler, and creating and ending tasks at run time (sched.c, task.c).      *)
EXTENDS Kernel

CONSTANTS
    SleepTimes,         \* arguments of rtos_sleep()
    CreatePriorities,   \* priorities of the tasks created at run time
    MaxLock             \* bound on the nesting of rtos_sched_lock()

ASSUME SchedulerAssumption ==
    SleepTimes \subseteq Nat /\ CreatePriorities \subseteq Nat /\ MaxLock \in Nat
-------------------------------------------------------------------------------
SchedLock ==
    /\ InApp
    /\ lockCount < MaxLock
    /\ lockCount' = lockCount + 1
    /\ UNCHANGED <<ringVars, tcbVars, schedPending, current, pendsv, priority, pc>>

(* Mutants of SchedUnlock: no check of the count, and the deferred switch       *)
(* forgotten at the last unlock.                                                *)
SchedUnlock_Unchecked ==
    /\ InApp
    /\ lockCount' = lockCount - 1
    /\ UNCHANGED <<ringVars, tcbVars, schedPending, current, pendsv, priority, pc>>
SchedUnlock_NoYield ==
    /\ InApp
    /\ lockCount # 0
    /\ lockCount' = lockCount - 1
    /\ schedPending' = (schedPending /\ lockCount # 1)
    /\ UNCHANGED <<ringVars, tcbVars, current, pendsv, priority, pc>>

(* The lock is one counter for the whole system: any task may lower it.         *)
SchedUnlock ==
    /\ InApp
    /\ lockCount # 0
    /\ lockCount' = lockCount - 1
    /\ IF lockCount = 1 /\ schedPending
       THEN schedPending' = FALSE /\ GoTo("kick")
       ELSE UNCHANGED <<schedPending, pc>>
    /\ UNCHANGED <<ringVars, tcbVars, current, pendsv, priority>>

(* Mutant of Exit: the yield at its end is missing.                             *)
Exit_NoYield ==
    /\ InApp
    /\ state' = [state EXCEPT ![current] = "STOPPED"]
    /\ UNCHANGED <<ringVars, lockVars, current, pendsv, priority, pc,
                   delay, waitType, waitResult>>

(* rtos_task_delete_self(), which a task also reaches by returning.             *)
Exit ==
    /\ InApp
    /\ state' = [state EXCEPT ![current] = "STOPPED"]
    /\ delay' = [delay EXCEPT ![current] = 0]
    /\ waitType' = [waitType EXCEPT ![current] = "NONE"]
    /\ waitResult' = [waitResult EXCEPT ![current] = "OK"]
    /\ GoTo("exit")
    /\ UNCHANGED <<ringVars, lockVars, current, pendsv, priority>>

(* find_task_slot(): a slot never used before, else the first stopped task's.   *)
FreshSlot(t) == TaskCount < MaxTasks /\ t = TaskCount + 1
ReusableSlot(t) ==
    /\ TaskCount = MaxTasks
    /\ state[t] = "STOPPED"
    /\ \A u \in 1 .. t - 1 : state[u] # "STOPPED"

(* Mutant: a reused slot is linked into the list a second time.                 *)
RingAfterCreate_Always(t) == InsertAt(ring, RingPosition(current) + 1, t)
RingAfterCreate(t) ==
    IF FreshSlot(t) THEN InsertAt(ring, RingPosition(current) + 1, t) ELSE ring

(* rtos_task_create_named_handle(); it does not yield to a more urgent task.    *)
Create(t, p) ==
    /\ InApp
    /\ FreshSlot(t) \/ ReusableSlot(t)
    /\ ring' = RingAfterCreate(t)
    /\ switched' = [switched EXCEPT ![t] = FALSE]
    /\ basePriority' = [basePriority EXCEPT ![t] = p]
    /\ priority' = [priority EXCEPT ![t] = p]
    /\ WakeTask(t)
    /\ pc' = [pc EXCEPT ![t] = "app"]
    /\ UNCHANGED <<lockVars, current, pendsv>>

Next ==
    \/ KernelStep
    \/ YieldCall \/ SchedLock \/ SchedUnlock \/ Exit
    \/ \E ms \in SleepTimes : Sleep(ms)
    \/ \E t \in Slots, p \in CreatePriorities : Create(t, p)

Spec == KernelInit /\ [][Next]_kernelVars
(* Applications owe nothing.                                                  *)
FairSpec == Spec /\ KernelFairness
-------------------------------------------------------------------------------
(* The variables stay in the types their C declarations give them.              *)
TypeOK ==
    /\ ring \in Seq(Slots)
    /\ current \in Slots
    /\ pendsv \in BOOLEAN /\ schedPending \in BOOLEAN
    /\ lockCount \in Nat
    /\ switched \in [Slots -> BOOLEAN]
    /\ state \in [Slots -> States]
    /\ priority \in [Slots -> Nat] /\ basePriority \in [Slots -> Nat]
    /\ delay \in [Slots -> Nat]
    /\ waitType \in [Slots -> WaitTypes]
    /\ waitResult \in [Slots -> Results]
    /\ pc \in [Slots -> PCs]

(* The circular list links every task in the table exactly once, whatever mix   *)
(* of fresh and reused slots creation took (task.c:125-133), so that the scan   *)
(* of rtos_schedule_next() meets each task and comes back to where it began.    *)
RingIsComplete ==
    /\ TaskCount <= MaxTasks
    /\ \A i \in 1 .. TaskCount : ring[i] \in Tasks
    /\ \A t \in Tasks : \E i \in 1 .. TaskCount : ring[i] = t
    /\ \A i, j \in 1 .. TaskCount : ring[i] = ring[j] => i = j

(* At most one task is marked RUNNING and it is rtos_current_task: the two ways *)
(* the kernel names the task that has the processor never disagree.             *)
RunningIsCurrent == \A t \in Tasks : state[t] = "RUNNING" => t = current

(* Application code runs only in a RUNNING task.  A task that went to sleep or  *)
(* stopped stops executing there, even when it did so with the scheduler        *)
(* locked (sched.c:97), and never gets past the end of rtos_task_delete_self(). *)
BlockedNeverExecutes ==
    ~pendsv =>
        /\ pc[current] = "app" => state[current] = "RUNNING"
        /\ pc[current] # "dead"

(* RTOS_ASSERT(best_task != 0) never fails: when PendSV runs the scheduler and  *)
(* the scheduler is not locked, some task in the list is ready (sched.c:118).   *)
NoAssertFailure ==
    pendsv /\ ~HoldsProcessor => \E t \in Tasks : Released[t] = "READY"

(* A slot is reused only after its stopped task has left the processor for      *)
(* good: creation rewrites the stack, which must not be the one in use.         *)
TakesOverLeftSlots ==
    \A t \in Tasks : (state[t] = "STOPPED" /\ state'[t] # "STOPPED") =>
        t # current /\ pc[t] \in {"exit", "dead"}
ReuseIsSafe == [][TakesOverLeftSlots]_kernelVars

(* A task that outranks every other one and is ready gets the processor,        *)
(* provided the scheduler does not stay locked forever: no switch the lock      *)
(* deferred is forgotten, however ticks fall into locked regions.               *)
Outranks(t) == \A u \in Tasks \ {t} : priority[u] < priority[t]
TopPriorityRuns ==
    []<>(lockCount = 0) =>
        \A t \in Slots : (t \in Tasks /\ state[t] = "READY" /\ Outranks(t))
                              ~> (state[t] = "RUNNING" \/ ~Outranks(t))

(* "The scheduler scans from the current task's successor ..., preserving       *)
(* round-robin behavior among tasks with equal priority" (architecture.md:112-114): *)
(* a ready task is not passed over forever while the processor keeps going      *)
(* back to another task of its priority.                                        *)
RoundRobin ==
    \A t, u \in 1 .. AppTasks :
        (/\ t # u
         /\ BasePriority[t] = BasePriority[u]
         /\ []<>(state[u] = "RUNNING")
         /\ []<>(state[u] = "READY"))
        => (state[t] = "READY" ~> state[t] = "RUNNING")
===============================================================================
