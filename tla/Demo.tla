--------------------------------- MODULE Demo ---------------------------------
(* The demo application of app/main.c: five tasks over one object of every      *)
(* kind, and a periodic timer whose callback signals four of them.  The         *)
(* operations are those of the component modules, on the variables of this one. *)
(* The times of main.c are constants, in the order they have there.             *)
EXTENDS Kernel

CONSTANTS
    AppMutex, Message, Blank, Flag, Item, NoItem, NoBlock, DemoTimer, Bit,
    WorkLength,         \* RTOS_WORK_QUEUE_LENGTH
    QueueLength,        \* length of led_queue_storage
    BlockCount,         \* length of demo_pool_storage
    TickSteps,          \* steps of the tasks that fit between two ticks at least
    Pause,              \* the sleep of the timeout task (50 ms)
    SemTimeout,         \* its wait for a semaphore (100 ms)
    SendPeriod,         \* the sleep of the producer (250 ms)
    TimerPeriod,        \* 500 ms
    WaitTimeout         \* the waits for a flag and for a notification (1000 ms)

(* The order of their creation: the worker in rtos_work_init(), then main().    *)
WorkTask == 1
Producer == 2
Consumer == 3
TimeoutTask == 4
OneShot == 5
NoOwner == 0

ASSUME DemoAssumption ==
    /\ AppTasks = 5 /\ MaxTasks = 6
    /\ QueueLength \in Nat \ {0} /\ BlockCount \in Nat \ {0}
    /\ {Pause, SemTimeout, SendPeriod, TimerPeriod, WaitTimeout} \subseteq Nat
    /\ 0 < Pause /\ Pause < SemTimeout /\ SemTimeout < SendPeriod
    /\ SendPeriod < TimerPeriod /\ TimerPeriod < WaitTimeout
    /\ \A t \in 1 .. AppTasks : 0 < BasePriority[t]
    /\ \A t \in (1 .. AppTasks) \ {Consumer} : BasePriority[t] < BasePriority[Consumer]

VARIABLES
    owner, depth, mutexWaiters, want,                   \* app_mutex
    buffer, head, tail, count, recvWaiters, sendWaiters, call, delivered,
                                                        \* led_queue
    timeoutCount, timeoutWaiters,                       \* timeout_sem
    isrCount, isrWaiters,                               \* isr_sem
    flags, eventWaiters, request, result,               \* demo_events
    freeList, freeCount, poolWaiters, grant, inUse,     \* demo_pool
    notifyValue, notifyPending, clearOnExit,
    workQueue, workHead, workTail, pendingItems, workerAt, running,
    timerList, period, remaining, reload, active, inTick, walk, firing, promise

VARIABLES
    at,         \* at[t]: the call task t is in, or made last
    steps,      \* the steps the tasks have made since the last tick, up to TickSteps
    callback,   \* the calls timer_callback() has made
    ahead,      \* app_task1_count - app_task2_count
    exits, reuses,  \* app_exit_count, app_reuse_count
    reuseCreated    \* reuse_created of timeout_task()

mutexVars   == <<owner, depth, mutexWaiters, want>>
queueVars   == <<buffer, head, tail, count, recvWaiters, sendWaiters, call, delivered>>
semVars     == <<timeoutCount, timeoutWaiters, isrCount, isrWaiters>>
eventVars   == <<flags, eventWaiters, request, result>>
poolVars    == <<freeList, freeCount, poolWaiters, grant, inUse>>
notifyVars  == <<notifyValue, notifyPending, clearOnExit>>
workVars    == <<workQueue, workHead, workTail, pendingItems, workerAt, running>>
timerVars   == <<timerList, period, remaining, reload, active, inTick, walk, firing, promise>>
counters    == <<ahead, exits, reuses, reuseCreated>>
vars == <<kernelVars, mutexVars, queueVars, semVars, eventVars, poolVars, notifyVars,
          workVars, timerVars, at, steps, callback, counters>>

Mutex == INSTANCE Mutex WITH
    Mutexes <- {AppMutex}, Timeouts <- {FOREVER}, SleepTimes <- {},
    MaxDepth <- 3, MaxHeld <- 1, waiters <- mutexWaiters
Queue == INSTANCE Queue WITH
    Messages <- {Message}, Capacity <- QueueLength, Timeouts <- {FOREVER}
TimeoutSem == INSTANCE Semaphore WITH
    InitialCount <- 0, MaxCount <- 1, Timeouts <- {SemTimeout},
    count <- timeoutCount, waiters <- timeoutWaiters
IsrSem == INSTANCE Semaphore WITH
    InitialCount <- 0, MaxCount <- 1, Timeouts <- {},
    count <- isrCount, waiters <- isrWaiters
Events == INSTANCE EventFlags WITH
    Flags <- {Flag}, Requests <- {}, EventTimeouts <- {WaitTimeout}, waiters <- eventWaiters
Pool == INSTANCE Mempool WITH Timeouts <- {Pause}, waiters <- poolWaiters
Work == INSTANCE WorkQueue WITH
    Bits <- {Bit}, Items <- {Item}, ClearMasks <- {}, Timeouts <- {WaitTimeout}
Timer == INSTANCE Timers WITH Timers <- {DemoTimer}, Periods <- {TimerPeriod}
Sched == INSTANCE Scheduler WITH SleepTimes <- {}, CreatePriorities <- {1}, MaxLock <- 2
-------------------------------------------------------------------------------
(* main(), up to and with rtos_start(): the timer runs already.                 *)
Init ==
    /\ Mutex!Init /\ Queue!Init /\ TimeoutSem!SemInit /\ IsrSem!SemInit
    /\ Events!EventsInit /\ Pool!Init /\ Work!Init
    /\ timerList = <<DemoTimer>>
    /\ period = [r \in {DemoTimer} |-> TimerPeriod] /\ remaining = period
    /\ reload = [r \in {DemoTimer} |-> TRUE] /\ active = [r \in {DemoTimer} |-> TRUE]
    /\ inTick = FALSE /\ walk = <<>> /\ firing = FALSE
    /\ promise = [r \in {DemoTimer} |-> [by |-> "task", age |-> 0]]
    /\ at = [t \in Slots |-> "start"]
    /\ steps = 0 /\ callback = 0
    /\ ahead = 0 /\ exits = 0 /\ reuses = 0 /\ reuseCreated = FALSE
-------------------------------------------------------------------------------
(* An operation on one object leaves the others alone.                          *)
OnMutex(A)  == A /\ UNCHANGED <<queueVars, semVars, eventVars, poolVars, notifyVars, workVars>>
OnQueue(A)  == A /\ UNCHANGED <<mutexVars, semVars, eventVars, poolVars, notifyVars, workVars>>
OnSems(A)   == A /\ UNCHANGED <<mutexVars, queueVars, eventVars, poolVars, notifyVars, workVars>>
OnEvents(A) == A /\ UNCHANGED <<mutexVars, queueVars, semVars, poolVars, notifyVars, workVars>>
OnPool(A)   == A /\ UNCHANGED <<mutexVars, queueVars, semVars, eventVars, notifyVars, workVars>>
OnWork(A)   == A /\ UNCHANGED <<mutexVars, queueVars, semVars, eventVars, poolVars>>
OnKernel(A) == OnWork(A) /\ UNCHANGED <<notifyVars, workVars>>
OnNotify(A) == OnWork(A) /\ UNCHANGED workVars
OnTimeoutSem(A) == OnSems(A) /\ UNCHANGED <<isrCount, isrWaiters>>
OnIsrSem(A) == OnSems(A) /\ UNCHANGED <<timeoutCount, timeoutWaiters>>

(* Task t goes from one call to the next.                                       *)
Proceed(t, from, to) ==
    current = t /\ at[t] = from /\ at' = [at EXCEPT ![t] = to]

Lock == OnMutex(Mutex!Lock(AppMutex, FOREVER))
Unlock == OnMutex(Mutex!Unlock(AppMutex))

(* producer_task() and consumer_task(); the counters go with the calls they     *)
(* stand next to.                                                               *)
Produce ==
    \/ /\ Proceed(Producer, "start", "lock") \/ Proceed(Producer, "sleep", "lock")
       /\ Lock /\ UNCHANGED counters
    \/ Proceed(Producer, "lock", "relock") /\ Lock /\ UNCHANGED counters
    \/ /\ Proceed(Producer, "relock", "send")
       /\ OnQueue(Queue!Call([op |-> "send", ms |-> FOREVER, msg |-> Message]))
       /\ ahead' = ahead + 1 /\ UNCHANGED <<exits, reuses, reuseCreated>>
    \/ Proceed(Producer, "send", "unlock") /\ Unlock /\ UNCHANGED counters
    \/ Proceed(Producer, "unlock", "reunlock") /\ Unlock /\ UNCHANGED counters
    \/ Proceed(Producer, "reunlock", "sleep") /\ OnKernel(Sleep(SendPeriod)) /\ UNCHANGED counters

Consume ==
    \/ /\ Proceed(Consumer, "start", "recv") \/ Proceed(Consumer, "reunlock", "recv")
       /\ OnQueue(Queue!Call([op |-> "recv", ms |-> FOREVER]))
       /\ UNCHANGED counters
    \/ Proceed(Consumer, "recv", "lock") /\ Lock /\ UNCHANGED counters
    \/ Proceed(Consumer, "lock", "relock") /\ Lock /\ UNCHANGED counters
    \/ /\ Proceed(Consumer, "relock", "unlock") /\ Unlock
       /\ ahead' = ahead - 1 /\ UNCHANGED <<exits, reuses, reuseCreated>>
    \/ Proceed(Consumer, "unlock", "reunlock") /\ Unlock /\ UNCHANGED counters

(* timeout_task(), up to its wait for a notification.                           *)
OneFlag == [flags |-> {Flag}, all |-> FALSE, clear |-> TRUE]
PollIsrSem ==
    \/ IsrSem!TakeToken
    \/ InApp /\ isrCount = 0 /\ UNCHANGED <<kernelVars, isrCount, isrWaiters>>

TryObjects ==
    \/ /\ Proceed(TimeoutTask, "start", "self")
       /\ InApp /\ OnKernel(UNCHANGED kernelVars)
    \/ /\ Proceed(TimeoutTask, "self", "sem") \/ Proceed(TimeoutTask, "sleep", "sem")
       /\ OnTimeoutSem(TimeoutSem!TakeToken \/ TimeoutSem!StartWait(SemTimeout))
    \/ /\ Proceed(TimeoutTask, "sem", "events")
       /\ OnEvents(Events!TakeFlags(OneFlag) \/ Events!StartWait(OneFlag, WaitTimeout))
    \/ /\ Proceed(TimeoutTask, "events", "alloc")
       /\ OnPool(Pool!Alloc \/ Pool!StartWait(Pause))
    \/ /\ Proceed(TimeoutTask, "alloc", "free")
       /\ \E b \in inUse : OnPool(Pool!Free(b))
    \/ /\ \/ Proceed(TimeoutTask, "free", "poll")
          \/ Proceed(TimeoutTask, "alloc", "poll") /\ inUse = {}
       /\ OnIsrSem(PollIsrSem)
    \/ /\ Proceed(TimeoutTask, "poll", "notify")
       /\ OnNotify(Work!NotifyWait({}, {Bit}, WaitTimeout))

(* ... and from there on.  It creates the second one-shot task once, when the   *)
(* first one has left its slot.                                                 *)
WantsReuse == exits # 0 /\ ~reuseCreated
Recreate(t) ==
    /\ WantsReuse
    /\ Sched!Create(t, 1)
    /\ at' = [at EXCEPT ![TimeoutTask] = "create", ![t] = "start"]
    /\ reuseCreated' = TRUE
    /\ notifyValue' = [notifyValue EXCEPT ![t] = {}]
    /\ notifyPending' = [notifyPending EXCEPT ![t] = FALSE]
    /\ UNCHANGED <<clearOnExit, workVars, mutexVars, queueVars, semVars, eventVars,
                   poolVars, ahead, exits, reuses>>
CannotReuse == ~WantsReuse \/ ~\E t \in Slots : Sched!ReusableSlot(t)

TryScheduler ==
    \/ current = TimeoutTask /\ at[TimeoutTask] = "notify" /\ \E t \in Slots : Recreate(t)
    \/ /\ \/ /\ Proceed(TimeoutTask, "notify", "create")
             /\ CannotReuse /\ InApp /\ OnKernel(UNCHANGED kernelVars)
          \/ Proceed(TimeoutTask, "create", "schedlock") /\ OnKernel(Sched!SchedLock)
          \/ Proceed(TimeoutTask, "schedlock", "yield") /\ OnKernel(YieldCall)
          \/ Proceed(TimeoutTask, "yield", "schedunlock") /\ OnKernel(Sched!SchedUnlock)
          \/ Proceed(TimeoutTask, "schedunlock", "sleep") /\ OnKernel(Sleep(Pause))
       /\ UNCHANGED counters

(* one_shot_task(), in the slot of which the second one starts.                 *)
RunOnce ==
    \/ /\ Proceed(OneShot, "start", "counted")
       /\ InApp /\ OnKernel(UNCHANGED kernelVars)
       /\ IF exits = 0
          THEN exits' = exits + 1 /\ UNCHANGED reuses
          ELSE reuses' = reuses + 1 /\ UNCHANGED exits
       /\ UNCHANGED <<ahead, reuseCreated>>
    \/ Proceed(OneShot, "counted", "exit") /\ OnKernel(Sched!Exit) /\ UNCHANGED counters

(* The rest of a call that has blocked.                                         *)
FinishCall ==
    \/ want[current] # <<>> /\ OnMutex(Mutex!EndWait \/ Mutex!Retry)
    \/ call[current] # Queue!NoCall /\ OnQueue(Queue!EndWait \/ Queue!Retry)
    \/ at[current] = "sem" /\ OnTimeoutSem(TimeoutSem!EndWait)
    \/ at[current] = "events" /\ OnEvents(Events!EndWait)
    \/ at[current] = "alloc" /\ OnPool(Pool!EndWait)
    \/ OnNotify(Work!EndNotifyWait)

TaskStep ==
    \/ Produce \/ Consume \/ RunOnce \/ TryScheduler
    \/ TryObjects /\ UNCHANGED counters
    \/ (FinishCall \/ OnWork(Work!WorkerStep)) /\ UNCHANGED <<at, counters>>
-------------------------------------------------------------------------------
(* timer_callback(), inside the tick; a full work queue drops the item.         *)
CallbackStep ==
    /\ firing
    /\ callback' = callback + 1
    /\ \/ callback = 0 /\ OnEvents(Events!SetIsr({Flag}))
       \/ callback = 1 /\ OnIsrSem(IsrSem!PostIsr)
       \/ /\ callback = 2
          /\ IF at[TimeoutTask] = "start"
             THEN OnKernel(UNCHANGED kernelVars)
             ELSE OnNotify(Work!NotifyIsr(TimeoutTask, {Bit}))
       \/ /\ callback = 3
          /\ IF pendingItems < WorkLength
             THEN OnWork(Work!SubmitIsr(Item))
             ELSE OnKernel(UNCHANGED kernelVars)
    /\ UNCHANGED timerVars

(* rtos_tick_handler().  No task computes for long: unless the idle task runs,  *)
(* TickSteps critical sections fit in a tick's 16000 cycles.                    *)
TickBegins ==
    /\ ~pendsv
    /\ steps = TickSteps \/ current = Idle
    /\ TaskTick
    /\ Timer!BeginWalk
    /\ OnKernel(UNCHANGED <<ringVars, lockVars, current, priority, waitType, pc, pendsv>>)
    /\ UNCHANGED callback

Walks ==
    /\ \/ (Timer!PassOver \/ Timer!CountDown) /\ UNCHANGED callback
       \/ Timer!CallbackReturns /\ callback = 4 /\ callback' = 0
    /\ OnKernel(UNCHANGED kernelVars)

TickEnds ==
    /\ Timer!EndWalk
    /\ pendsv' = TRUE
    /\ OnKernel(UNCHANGED <<ringVars, lockVars, tcbVars, current, priority, pc>>)
    /\ UNCHANGED callback

TickStep == TickBegins \/ CallbackStep \/ Walks \/ TickEnds

Next ==
    \/ TickStep /\ steps' = 0 /\ UNCHANGED <<at, counters>>
    \/ /\ ~inTick
       /\ \/ TaskStep /\ steps' = IF steps < TickSteps THEN steps + 1 ELSE steps
          \/ OnKernel(PendSV \/ Yield) /\ UNCHANGED <<at, steps, counters>>
       /\ UNCHANGED <<timerVars, callback>>

Spec == Init /\ [][Next]_vars
-------------------------------------------------------------------------------
(* Nothing is consumed before it is produced, the urgent consumer leaves one    *)
(* message behind at most, nobody posts the semaphore of the timeout            *)
(* demonstration, the mutex is locked twice at most and has no owner when free, *)
(* one task is counted out, and one reuses its slot.                            *)
CountersAgree ==
    /\ ahead >= 0
    /\ count <= 1
    /\ timeoutCount = 0
    /\ depth[AppMutex] <= 2
    /\ depth[AppMutex] = 0 <=> owner[AppMutex] = NoOwner
    /\ exits <= 1 /\ reuses <= exits

(* Each send wakes the consumer, which runs into the mutex: when the producer   *)
(* goes on it has the consumer's priority.                                      *)
SendRaisesProducer ==
    (at[Producer] = "send" /\ pc[Producer] = "app" /\ current = Producer /\ ~pendsv) =>
        priority[Producer] = basePriority[Consumer]

(* While the idle task runs: the block is back in the pool, no work is pending, *)
(* the scheduler is unlocked and owes no switch.                                *)
AllIsQuiet == current = Idle /\ ~pendsv /\ ~inTick
QuietMeansClean ==
    AllIsQuiet =>
        /\ freeCount = BlockCount
        /\ pendingItems = 0
        /\ lockCount = 0 /\ ~schedPending

(* What tools/check_probe.py (lines 84-121) asks of a halted target holds at    *)
(* any instant, or, where it can only hold between the bursts of activity, when *)
(* the idle task runs.                                                          *)
ProbeHolds == CountersAgree /\ SendRaisesProducer /\ QuietMeansClean

(* It also asks that no deferred call was dropped (work_drops, line 108): the   *)
(* worker, no more urgent than three other tasks, has emptied the queue before  *)
(* the timer's callbacks fill it.                                               *)
NoWorkDropped == (firing /\ callback = 3) => pendingItems < WorkLength

(* Every blocked task is linked in the list of the object it waits for, and a   *)
(* task is linked nowhere else, although posts, sends, set flags, notifications *)
(* and timeouts reach it from different objects: a notification, for one,       *)
(* "does not accidentally release" a task from another wait                     *)
(* (architecture.md:242-244).                                                   *)
ListOf(t) ==
    CASE t \in {Producer, Consumer} /\ want[t] # <<>> -> mutexWaiters[AppMutex]
      [] t = Consumer /\ want[t] = <<>> -> recvWaiters
      [] t = Producer /\ want[t] = <<>> -> sendWaiters
      [] at[t] = "sem" -> timeoutWaiters
      [] at[t] = "events" -> eventWaiters
      [] at[t] = "alloc" -> poolWaiters
      [] OTHER -> <<>>
AllLists == {mutexWaiters[AppMutex], recvWaiters, sendWaiters, timeoutWaiters,
             isrWaiters, eventWaiters, poolWaiters}
ListsAgree ==
    \A t \in Tasks :
        /\ (StillWaiting(t) /\ waitType[t] \notin {"SLEEP", "NOTIFICATION"}) =>
              Linked(ListOf(t), t)
        /\ \A q \in AllLists : Linked(q, t) =>
              /\ q = ListOf(t)
              /\ pc[t] \in {"block", "resume"}
              /\ StillWaiting(t) \/ waitResult[t] = "TIMEOUT"
===============================================================================
