------------------------------- MODULE WorkQueue -------------------------------
(* The deferred work of work.c: a ring of work items, filled by tasks and by    *)
(* interrupt service routines, and the task that rtos_work_init() creates to    *)
(* run them, woken by a notification.                                           *)
EXTENDS Notify

CONSTANTS
    Items,          \* pairs of a handler and its argument
    NoItem,         \* what a cell holds before the first submission
    WorkLength,     \* RTOS_WORK_QUEUE_LENGTH
    ClearMasks,     \* clear_on_entry and clear_on_exit of the application's waits
    Timeouts        \* timeouts of these waits, 0 among them or not

(* rtos_work_init() is called before any other task is created.                 *)
Worker == 1

ASSUME WorkAssumption ==
    /\ WorkLength \in Nat \ {0} /\ NoItem \notin Items
    /\ Bits # {} /\ ClearMasks \subseteq SUBSET Bits /\ Timeouts \subseteq Nat

VARIABLES
    workQueue, workHead, workTail, pendingItems,    \* as in work.c
    workerAt,       \* where the loop of work_task() stands
    running         \* the item pop_work() took last

workVars == <<workQueue, workHead, workTail, pendingItems, workerAt, running>>
vars == <<kernelVars, notifyVars, workVars>>

(* "await": before its rtos_task_notify_wait(); "drain": before a pop_work();   *)
(* "handle": in the handler of an item.                                         *)
WorkerPoints == {"await", "drain", "handle"}

WorkInit ==
    /\ workQueue = [i \in 0 .. WorkLength - 1 |-> NoItem]
    /\ workHead = 0 /\ workTail = 0 /\ pendingItems = 0
    /\ workerAt = "await"
    /\ running = NoItem
-------------------------------------------------------------------------------
(* Mutant of EnqueueWork: the limit is off by one.                              *)
EnqueueWork_OneTooMany(item) ==
    /\ pendingItems <= WorkLength
    /\ workQueue' = [workQueue EXCEPT ![workTail] = item]
    /\ workTail' = (workTail + 1) % WorkLength
    /\ pendingItems' = pendingItems + 1
    /\ UNCHANGED <<workHead, workerAt, running>>

(* The first critical section of submit_common().  A full queue drops the item, *)
(* which changes nothing but a statistic.                                       *)
EnqueueWork(item) ==
    /\ pendingItems < WorkLength
    /\ workQueue' = [workQueue EXCEPT ![workTail] = item]
    /\ workTail' = (workTail + 1) % WorkLength
    /\ pendingItems' = pendingItems + 1
    /\ UNCHANGED <<workHead, workerAt, running>>

WorkBit == CHOOSE bit \in Bits : TRUE

(* rtos_work_submit(): the worker can run, and empty the queue, between the     *)
(* enqueuing of an item and its notification.                                   *)
Submit(item) ==
    /\ InApp
    /\ EnqueueWork(item)
    /\ GoTo("submit")
    /\ UNCHANGED <<ringVars, lockVars, tcbVars, current, pendsv, priority, notifyVars>>

NotifyWorker ==
    /\ ~pendsv /\ pc[current] = "submit"
    /\ NotifyAndReturn(Worker, {WorkBit})
    /\ UNCHANGED workVars

(* Mutant of SubmitIsr: the item is queued, and nobody told.                    *)
SubmitIsr_Silent(item) == EnqueueWork(item) /\ UNCHANGED <<kernelVars, notifyVars>>

(* rtos_work_submit_isr(): both critical sections in one handler.               *)
SubmitIsr(item) == EnqueueWork(item) /\ NotifyIsr(Worker, {WorkBit})
-------------------------------------------------------------------------------
(* The loop of work_task(): it waits for any bit, clears them all, and runs     *)
(* items until the queue is empty.                                              *)
WorkerAwaits ==
    /\ current = Worker /\ workerAt = "await"
    /\ NotifyWait({}, Bits, FOREVER)
    /\ workerAt' = "drain"
    /\ UNCHANGED <<workQueue, workHead, workTail, pendingItems, running>>

(* Mutants of WorkerPops: one item for each notification; the newest first.     *)
WorkerPops_OnlyOne ==
    /\ InApp /\ current = Worker /\ workerAt = "drain"
    /\ IF pendingItems = 0
       THEN workerAt' = "await" /\ UNCHANGED <<workHead, pendingItems, running>>
       ELSE /\ running' = workQueue[workHead]
            /\ workHead' = (workHead + 1) % WorkLength
            /\ pendingItems' = pendingItems - 1
            /\ workerAt' = "await"
    /\ UNCHANGED <<kernelVars, notifyVars, workQueue, workTail>>
WorkerPops_Newest ==
    /\ InApp /\ current = Worker /\ workerAt = "drain"
    /\ IF pendingItems = 0
       THEN workerAt' = "await" /\ UNCHANGED <<workTail, pendingItems, running>>
       ELSE /\ workTail' = (workTail + WorkLength - 1) % WorkLength
            /\ running' = workQueue[workTail']
            /\ pendingItems' = pendingItems - 1
            /\ workerAt' = "handle"
    /\ UNCHANGED <<kernelVars, notifyVars, workQueue, workHead>>

WorkerPops ==
    /\ InApp /\ current = Worker /\ workerAt = "drain"
    /\ IF pendingItems = 0
       THEN workerAt' = "await" /\ UNCHANGED <<workHead, pendingItems, running>>
       ELSE /\ running' = workQueue[workHead]
            /\ workHead' = (workHead + 1) % WorkLength
            /\ pendingItems' = pendingItems - 1
            /\ workerAt' = "handle"
    /\ UNCHANGED <<kernelVars, notifyVars, workQueue, workTail>>

HandlerReturns ==
    /\ InApp /\ current = Worker /\ workerAt = "handle"
    /\ workerAt' = "drain"
    /\ UNCHANGED <<kernelVars, notifyVars, workQueue, workHead, workTail,
                   pendingItems, running>>

WorkerStep == WorkerAwaits \/ WorkerPops \/ HandlerReturns

(* Application code runs in its own tasks and, as a handler, in the worker.     *)
InUserCode == current = Worker => workerAt = "handle"

UserStep ==
    \/ \E item \in Items : Submit(item)
    \/ /\ \/ \E t \in 1 .. AppTasks, bit \in Bits : Notify(t, {bit})
          \/ \E ms \in Timeouts \ {FOREVER} : Sleep(ms) /\ UNCHANGED notifyVars
          \/ /\ current # Worker
             /\ \E onEntry, onExit \in ClearMasks, ms \in Timeouts :
                    NotifyWait(onEntry, onExit, ms)
       /\ UNCHANGED workVars

CallStep ==
    \/ NotifyWorker
    \/ EndNotifyWait /\ UNCHANGED workVars

IsrStep ==
    \/ \E item \in Items : SubmitIsr(item)
    \/ \E t \in 1 .. AppTasks, bit \in Bits : NotifyIsr(t, {bit}) /\ UNCHANGED workVars

Init == KernelInit /\ NotifyInit /\ WorkInit
Next ==
    \/ KernelStep /\ UNCHANGED <<notifyVars, workVars>>
    \/ InUserCode /\ UserStep
    \/ CallStep \/ WorkerStep \/ IsrStep

(* The worker goes on with its loop whenever it has the processor, and every    *)
(* handler returns.                                                             *)
Fairness == KernelFairness /\ SF_vars(CallStep) /\ SF_vars(WorkerStep)

Spec == Init /\ [][Next]_vars
FairSpec == Spec /\ Fairness
-------------------------------------------------------------------------------
TypeOK ==
    /\ current \in Tasks /\ pendsv \in BOOLEAN
    /\ state \in [Slots -> States] /\ delay \in [Slots -> Nat]
    /\ waitType \in [Slots -> WaitTypes] /\ waitResult \in [Slots -> Results]
    /\ pc \in [Slots -> PCs]
    /\ notifyValue \in [Slots -> SUBSET Bits] /\ clearOnExit \in [Slots -> SUBSET Bits]
    /\ notifyPending \in [Slots -> BOOLEAN]
    /\ workQueue \in [0 .. WorkLength - 1 -> Items \cup {NoItem}]
    /\ workHead \in 0 .. WorkLength - 1 /\ workTail \in 0 .. WorkLength - 1
    /\ pendingItems \in 0 .. WorkLength
    /\ workerAt \in WorkerPoints
    /\ running \in Items \cup {NoItem}

(* No item is left in the queue while the worker sleeps, unless a task stands   *)
(* between the enqueuing of an item and its notification: however submissions   *)
(* race the worker's last look at the queue (work.c:40-53, 78-87).              *)
NoWorkLeftBehind ==
    (pendingItems > 0 /\ AwaitsNotification(Worker)) =>
        \E t \in Tasks : pc[t] = "submit"

(* The ring with its head, tail and count is a first-in first-out channel from  *)
(* the submitters to the handlers.                                              *)
WorkChannel == INSTANCE AbstractQueue WITH
    Messages <- Items,
    Capacity <- WorkLength,
    Nothing <- NoItem,
    contents <- [i \in 1 .. pendingItems |-> workQueue[(workHead + i - 1) % WorkLength]],
    delivered <- running
WorkIsFifo == WorkChannel!ChannelSpec

(* The worker has a notification pending, or no other task stands between the   *)
(* enqueuing of an item and its notification.                                   *)
WorkIsAnnounced ==
    \/ notifyPending[Worker]
    \/ \A t \in Tasks \ {Worker} : pc[t] # "submit"

(* If the worker is the most urgent task, announced items get their turn: the   *)
(* head of the queue moves on, or the queue is emptied.  Items that are not     *)
(* announced may stay: a submitter that is switched out between work.c:76 and   *)
(* work.c:79, by a task that never gives up the processor, tells nobody.        *)
WorkGetsDone ==
    (\A t \in 2 .. AppTasks : BasePriority[t] < BasePriority[Worker]) =>
        \A i \in 0 .. WorkLength - 1 :
            (pendingItems > 0 /\ workHead = i /\ WorkIsAnnounced)
                ~> (workHead # i \/ pendingItems = 0)
===============================================================================
