-------------------------------- MODULE Kernel --------------------------------
(* The part of the kernel every blocking object is built on: the task table,   *)
(* the circular run list, the scheduler run by PendSV and the SysTick handler. *)
(* Scheduler adds the operations of sched.c and task.c; each object module     *)
(* (Semaphore, Mutex, ...) adds the operations of its own file.                *)
(*                                                                             *)
(* One action is one stretch of code that nothing can interleave with: a       *)
(* critical section (PRIMASK set) or an exception handler.  The call of        *)
(* rtos_yield() that follows a critical section is a step of its own, because  *)
(* the tick can preempt the task between the two.  An interrupt service        *)
(* routine is one step: SysTick and PendSV share the lowest exception priority *)
(* (port.c:40-43), and every routine that calls a *_isr function is taken to   *)
(* run at that level too, as SysTick does in this repository.                  *)
EXTENDS WaitList

CONSTANTS
    MaxTasks,       \* RTOS_MAX_TASKS
    AppTasks,       \* tasks created before rtos_start()
    BasePriority,   \* BasePriority[t]: the priority task t is created with
    TickHz,         \* RTOS_TICK_HZ
    WordMod         \* number of values of a uint32_t

Slots == 1 .. MaxTasks
Idle  == AppTasks + 1

ASSUME SlotsAssumption ==
    MaxTasks \in Nat /\ AppTasks \in Nat /\ 1 <= AppTasks /\ AppTasks < MaxTasks
ASSUME PriorityAssumption == BasePriority \in [1 .. AppTasks -> Nat]
ASSUME WordAssumption ==
    TickHz \in Nat \ {0} /\ WordMod \in Nat /\ WordMod > 1000

VARIABLES
    ring,           \* the list linked by task->next, cut open somewhere
    current,        \* rtos_current_task
    pendsv,         \* PendSV is pending
    lockCount,      \* rtos_scheduler_lock_count
    schedPending,   \* rtos_scheduler_pending
    switched,       \* switched[t]: task t's switch_count is not zero
    state, priority, basePriority, delay, waitType, waitResult,
    pc              \* where the task's own code stands

ringVars == <<ring, switched, basePriority>>
lockVars == <<lockCount, schedPending>>
tcbVars  == <<state, delay, waitType, waitResult>>
kernelVars == <<ringVars, lockVars, tcbVars, current, pendsv, priority, pc>>

TaskCount == Len(ring)
Tasks == 1 .. TaskCount
FOREVER == WordMod - 1

(* "app": outside the kernel; "kick": before a rtos_yield() that ends the call; *)
(* "block": before the rtos_yield() that ends the task's turn in a wait;        *)
(* "resume": after it, before the second critical section of the wait;          *)
(* "retry": past that section, about to try again; "submit": between the two    *)
(* critical sections of rtos_work_submit();                                     *)
(* "exit": before the rtos_yield() of rtos_task_delete_self(); "dead": past it. *)
PCs == {"app", "kick", "block", "resume", "retry", "submit", "exit", "dead"}
States == {"READY", "RUNNING", "BLOCKED", "STOPPED"}
WaitTypes == {"NONE", "SLEEP", "SEM", "QUEUE", "MUTEX", "EVENT", "MEMPOOL",
              "NOTIFICATION"}
Results == {"OK", "TIMEOUT"}

(* rtos_ms_to_ticks(), in the word's arithmetic.                               *)
MsToTicks(ms) ==
    LET ticks == (((ms * TickHz) + 999) % WordMod) \div 1000
    IN  IF ms = FOREVER THEN 0 ELSE IF ticks = 0 THEN 1 ELSE ticks
-------------------------------------------------------------------------------
(* The state rtos_start() leaves: tasks 1 .. AppTasks were created in this      *)
(* order, each linked in behind task 1, then the idle task.                     *)
KernelInit ==
    /\ ring = [i \in 1 .. Idle |-> IF i = 1 THEN 1 ELSE Idle + 2 - i]
    /\ current = 1
    /\ pendsv = FALSE
    /\ lockCount = 0
    /\ schedPending = FALSE
    /\ switched = [t \in Slots |-> t = 1]
    /\ state = [t \in Slots |-> IF t = 1 THEN "RUNNING" ELSE "READY"]
    /\ basePriority = [t \in Slots |-> IF t <= AppTasks THEN BasePriority[t] ELSE 0]
    /\ priority = basePriority
    /\ delay = [t \in Slots |-> 0]
    /\ waitType = [t \in Slots |-> "NONE"]
    /\ waitResult = [t \in Slots |-> "OK"]
    /\ pc = [t \in Slots |-> "app"]
-------------------------------------------------------------------------------
(* The order in which rtos_schedule_next() scans the run list: from the         *)
(* successor of the task it interrupts around to that task itself.              *)
RingPosition(t) == CHOOSE i \in 1 .. TaskCount : ring[i] = t
ScanOrder ==
    [i \in 1 .. TaskCount |->
        ring[((RingPosition(current) + i - 1) % TaskCount) + 1]]

(* The interrupted task gives up the processor if it still had it.              *)
Released ==
    IF state[current] = "RUNNING"
    THEN [state EXCEPT ![current] = "READY"]
    ELSE state

(* A strictly greater priority replaces the candidate: the task the scan keeps  *)
(* is the first one of the greatest priority among the ready ones.              *)
ScanKeeps(best) ==
    \E i \in 1 .. TaskCount :
        /\ ScanOrder[i] = best
        /\ Released[best] = "READY"
        /\ \A j \in 1 .. TaskCount :
              Released[ScanOrder[j]] = "READY" =>
                 \/ priority[ScanOrder[j]] < priority[best]
                 \/ priority[ScanOrder[j]] = priority[best] /\ i <= j

(* Mutant: the lock holds the processor for a task that has blocked, too.       *)
HoldsProcessor_AnyState == lockCount # 0
HoldsProcessor == lockCount # 0 /\ state[current] = "RUNNING"

(* Mutant of Deferred: the switch the lock put off is not recorded.             *)
Deferred_Forgotten ==
    /\ HoldsProcessor
    /\ UNCHANGED <<current, state, switched, lockVars>>

(* rtos_schedule_next(), called by PendSV_Handler.  When no task is ready the   *)
(* assertion on line 118 stops the system: no step of this action.              *)
Deferred ==
    /\ HoldsProcessor
    /\ schedPending' = TRUE
    /\ UNCHANGED <<current, state, switched, lockCount>>

Dispatched ==
    /\ ~HoldsProcessor
    /\ schedPending' = FALSE
    /\ \E best \in Tasks :
          /\ ScanKeeps(best)
          /\ current' = best
          /\ state' = [Released EXCEPT ![best] = "RUNNING"]
          /\ switched' = [switched EXCEPT ![best] = TRUE]
    /\ UNCHANGED lockCount

PendSV ==
    /\ pendsv
    /\ pendsv' = FALSE
    /\ Deferred \/ Dispatched
    /\ UNCHANGED <<ring, basePriority, priority, delay, waitType, waitResult, pc>>
-------------------------------------------------------------------------------
(* rtos_tick_handler(): rtos_task_tick() then PendSV.  PendSV has the lower     *)
(* exception number, so a pending PendSV is taken before a pending SysTick.     *)
(* Mutants: a count that runs on below zero; one tested before it is counted.   *)
Counting_Unguarded(t) == t \in Tasks /\ state[t] = "BLOCKED"
Expiring_TestedFirst(t) == t \in Tasks /\ state[t] = "BLOCKED" /\ delay[t] < 0

Counting(t) == t \in Tasks /\ state[t] = "BLOCKED" /\ delay[t] > 0
Expiring(t) == Counting(t) /\ delay[t] = 1

TaskTick ==
    /\ delay' = [t \in Slots |-> IF Counting(t) THEN delay[t] - 1 ELSE delay[t]]
    /\ waitResult' = [t \in Slots |-> IF Expiring(t) THEN "TIMEOUT" ELSE waitResult[t]]
    /\ state' = [t \in Slots |-> IF Expiring(t) THEN "READY" ELSE state[t]]

Tick ==
    /\ ~pendsv
    /\ TaskTick
    /\ pendsv' = TRUE
    /\ UNCHANGED <<ringVars, lockVars, current, priority, waitType, pc>>

(* rtos_yield() at the end of a kernel call.                                    *)
AfterYield == [kick |-> "app", block |-> "resume", exit |-> "dead"]

Yield ==
    /\ ~pendsv
    /\ pc[current] \in {"kick", "block", "exit"}
    /\ pendsv' = TRUE
    /\ pc' = [pc EXCEPT ![current] = AfterYield[pc[current]]]
    /\ UNCHANGED <<ringVars, lockVars, tcbVars, current, priority>>

KernelStep == Tick \/ PendSV \/ Yield

(* PendSV is served as soon as the code that set it lets it.  SysTick keeps     *)
(* firing: while PendSV is served first it stays pending, and it is taken       *)
(* before any task runs again.  Between two ticks (16000 cycles) a task that    *)
(* has the processor executes the few instructions to its next yield.           *)
KernelFairness ==
    WF_kernelVars(PendSV) /\ SF_kernelVars(Yield) /\ SF_kernelVars(Tick)
-------------------------------------------------------------------------------
(* Pieces of the kernel calls.  Only the task that has the processor makes      *)
(* them, and never the idle task, whose loop is "wfi".                          *)
(* Mutant of InApp: the idle task makes kernel calls, from its hook.            *)
InApp_IdleToo == ~pendsv /\ pc[current] = "app"
InApp == ~pendsv /\ current # Idle /\ pc[current] = "app"
Resuming == ~pendsv /\ pc[current] = "resume"

(* The critical section that puts the running task to sleep or on a wait list.  *)
BlockCurrent(type, ms, point) ==
    /\ state' = [state EXCEPT ![current] = "BLOCKED"]
    /\ delay' = [delay EXCEPT ![current] = MsToTicks(ms)]
    /\ waitType' = [waitType EXCEPT ![current] = type]
    /\ waitResult' = [waitResult EXCEPT ![current] = "OK"]
    /\ pc' = [pc EXCEPT ![current] = point]

(* What a post, unlock, send or receive does to the waiter it takes off a list. *)
WakeTask(t) ==
    /\ state' = [state EXCEPT ![t] = "READY"]
    /\ delay' = [delay EXCEPT ![t] = 0]
    /\ waitType' = [waitType EXCEPT ![t] = "NONE"]
    /\ waitResult' = [waitResult EXCEPT ![t] = "OK"]

GoTo(point) == pc' = [pc EXCEPT ![current] = point]

(* What the pop loops take for a waiter that has not timed out.                 *)
StillWaiting(t) == state[t] = "BLOCKED" /\ waitResult[t] = "OK"
Waiting == {t \in Tasks : StillWaiting(t)}

(* The waiter that wait_pop() finds in the list q is woken, if it finds one; a  *)
(* task that woke another one yields before it returns to its caller.           *)
NobodyWaits(q) == FirstIndex(q, Waiting) > Len(q)
WakeFirst(q) ==
    IF NobodyWaits(q) THEN UNCHANGED tcbVars ELSE WakeTask(q[FirstIndex(q, Waiting)])
ReturnAfterWake(q) == GoTo(IF NobodyWaits(q) THEN "app" ELSE "kick")

(* rtos_yield() called by a task, and rtos_sleep(0).                            *)
YieldCall ==
    /\ InApp
    /\ GoTo("kick")
    /\ UNCHANGED <<ringVars, lockVars, tcbVars, current, pendsv, priority>>

Sleep(ms) ==
    /\ InApp
    /\ ms # 0
    /\ BlockCurrent("SLEEP", ms, "kick")
    /\ UNCHANGED <<ringVars, lockVars, current, pendsv, priority>>
-------------------------------------------------------------------------------
(* No ready task outranks the one that has the processor unless a switch is on  *)
(* its way: PendSV pending, a yield about to be called, or, with the scheduler  *)
(* locked, recorded as owed.  A task created but never run yet is exempt:       *)
(* creation does not yield.                                                     *)
NoMissedPreemption ==
    \A t \in Tasks :
        (state[t] = "READY" /\ switched[t] /\ priority[t] > priority[current]) =>
            \/ pendsv
            \/ pc[current] \in {"kick", "block", "exit"}
            \/ lockCount # 0 /\ schedPending
===============================================================================
