-------------------------------- MODULE Mempool --------------------------------
(* One memory pool (mempool.c) whose blocks the application tasks allocate,     *)
(* pass on and free.  Any task may free a block that is in use, once: a block   *)
(* knows no owner.  The pool has no operations for interrupts.                  *)
EXTENDS Kernel, FiniteSets

CONSTANTS
    BlockCount,     \* argument of rtos_mempool_init()
    NoBlock,        \* NULL
    Timeouts        \* arguments of rtos_mempool_alloc_timeout(), 0 left out

Blocks == 1 .. BlockCount

ASSUME MempoolAssumption ==
    BlockCount \in Nat \ {0} /\ Timeouts \subseteq Nat \ {0} /\ NoBlock \notin Blocks

VARIABLES
    freeList,   \* the list linked through the free blocks, from pool->free_list
    freeCount,  \* pool->free_count
    waiters,    \* the list from pool->wait_head to pool->wait_tail
    grant,      \* grant[t]: task t's wait_object_result
    inUse       \* blocks the application has

poolVars == <<freeList, freeCount, waiters, grant, inUse>>
vars == <<kernelVars, poolVars>>

(* The last block of the storage is pushed last.                                *)
Init ==
    /\ KernelInit
    /\ freeList = [i \in Blocks |-> BlockCount + 1 - i]
    /\ freeCount = BlockCount
    /\ waiters = <<>>
    /\ grant = [t \in Slots |-> NoBlock]
    /\ inUse = {}
-------------------------------------------------------------------------------
(* Mutant of PopFreeBlock: the block handed out stays the first free one.       *)
PopFreeBlock_KeepsLink ==
    /\ freeList # <<>>
    /\ UNCHANGED freeList
    /\ freeCount' = freeCount - 1
PopFreeBlock ==
    /\ freeList # <<>>
    /\ freeList' = Tail(freeList)
    /\ freeCount' = freeCount - 1

PushFreeBlock(b) ==
    /\ freeList' = <<b>> \o freeList
    /\ freeCount' = freeCount + 1

(* rtos_mempool_alloc_timeout(): a free block is returned at once.  With none,  *)
(* and no timeout, the call changes nothing.                                    *)
Alloc ==
    /\ InApp
    /\ PopFreeBlock
    /\ inUse' = inUse \cup {Head(freeList)}
    /\ UNCHANGED <<kernelVars, waiters, grant>>

StartWait(ms) ==
    /\ InApp
    /\ freeList = <<>>
    /\ BlockCurrent("MEMPOOL", ms, "block")
    /\ grant' = [grant EXCEPT ![current] = NoBlock]
    /\ waiters' = WaitPush(waiters, current, priority)
    /\ UNCHANGED <<ringVars, lockVars, current, pendsv, priority,
                   freeList, freeCount, inUse>>

GiveUp ==
    /\ waitResult[current] = "TIMEOUT"
    /\ waiters' = WaitRemove(waiters, current)
    /\ waitType' = [waitType EXCEPT ![current] = "NONE"]
    /\ GoTo("app")
    /\ UNCHANGED <<grant, inUse>>

(* The block that was handed over; without one the loop would start again.      *)
Collect ==
    /\ waitResult[current] = "OK"
    /\ grant' = [grant EXCEPT ![current] = NoBlock]
    /\ inUse' = inUse \cup ({grant[current]} \ {NoBlock})
    /\ GoTo(IF grant[current] = NoBlock THEN "retry" ELSE "app")
    /\ UNCHANGED <<waiters, waitType>>

(* The critical section after a wait.                                           *)
EndWait ==
    /\ Resuming
    /\ GiveUp \/ Collect
    /\ UNCHANGED <<ringVars, lockVars, state, delay, waitResult, current, pendsv,
                   priority, freeList, freeCount>>

(* The waiter that is taken off the list gets the block through its task        *)
(* record; the free list is not touched.                                        *)
HandOver(q, b) ==
    grant' = IF NobodyWaits(q) THEN grant
             ELSE [grant EXCEPT ![q[FirstIndex(q, Waiting)]] = b]

FreeTo(q, b) ==
    /\ HandOver(q, b)
    /\ WakeFirst(q)
    /\ inUse' = inUse \ {b}
    /\ ReturnAfterWake(q)
    /\ UNCHANGED <<ringVars, lockVars, current, pendsv, priority>>

(* Mutants of Free: only the head of the list is looked at; the block is put    *)
(* on the free list instead, for the waiter to retry.                           *)
Free_HeadOnly(b) ==
    LET first == IF waiters = <<>> THEN <<>> ELSE <<Head(waiters)>>
    IN  /\ InApp /\ b \in inUse
        /\ waiters' = SubSeq(waiters, 2, Len(waiters))
        /\ IF NobodyWaits(first) THEN PushFreeBlock(b) ELSE UNCHANGED <<freeList, freeCount>>
        /\ FreeTo(first, b)
Free_WakesOnly(b) ==
    /\ InApp /\ b \in inUse
    /\ waiters' = WaitPop(waiters, Waiting)
    /\ PushFreeBlock(b)
    /\ FreeTo(waiters, NoBlock)

(* rtos_mempool_free(): the block goes to a waiter or to the free list.         *)
Free(b) ==
    /\ InApp
    /\ b \in inUse
    /\ waiters' = WaitPop(waiters, Waiting)
    /\ IF NobodyWaits(waiters) THEN PushFreeBlock(b) ELSE UNCHANGED <<freeList, freeCount>>
    /\ FreeTo(waiters, b)

PoolStep ==
    \/ Alloc \/ EndWait
    \/ \E ms \in Timeouts : StartWait(ms)
    \/ \E b \in Blocks : Free(b)

(* A task that does anything but use this pool sleeps or computes.              *)
AppStep == \E ms \in Timeouts : Sleep(ms)

Next == ((KernelStep \/ AppStep) /\ UNCHANGED poolVars) \/ PoolStep

Spec == Init /\ [][Next]_vars
-------------------------------------------------------------------------------
InWait(t) == pc[t] \in {"block", "resume"}
Served(t) == InWait(t) /\ state[t] # "BLOCKED" /\ waitResult[t] = "OK"

TypeOK ==
    /\ current \in Tasks
    /\ pendsv \in BOOLEAN
    /\ state \in [Slots -> States]
    /\ delay \in [Slots -> Nat]
    /\ waitType \in [Slots -> WaitTypes]
    /\ waitResult \in [Slots -> Results]
    /\ pc \in [Slots -> PCs]
    /\ freeList \in Seq(Blocks)
    /\ freeCount \in 0 .. BlockCount
    /\ waiters \in Seq(Tasks)
    /\ grant \in [Slots -> Blocks \cup {NoBlock}]
    /\ inUse \subseteq Blocks

(* No block is lost or given to two tasks (mempool.c:85-102, 175-181, 196-206): *)
(* each one is on the free list, once, or in use, or on its way to one waiter,  *)
(* also while waits time out around the hand-over; and the counter agrees.      *)
BlocksConserved ==
    /\ freeCount = Len(freeList)
    /\ NoRepeats(freeList)
    /\ \A b \in Blocks :
          /\ ~(Linked(freeList, b) /\ b \in inUse)
          /\ Cardinality({t \in Slots : grant[t] = b}) =
                IF Linked(freeList, b) \/ b \in inUse THEN 0 ELSE 1

(* A hand-over and a time-out exclude each other (mempool.c:169-181): a task    *)
(* carries a block back exactly when its wait ended with RTOS_OK, so that none  *)
(* is left with a task that returns NULL, and the loop never runs again.  A     *)
(* task that waits is linked, once, and one that was served or has returned is  *)
(* linked no more.                                                              *)
HandOverIsExact ==
    /\ \A t \in Slots : pc[t] # "retry" /\ (grant[t] # NoBlock <=> Served(t))
    /\ NoRepeats(waiters)
    /\ \A t \in Tasks :
          /\ (waitType[t] = "MEMPOOL" /\ StillWaiting(t)) => Linked(waiters, t)
          /\ Linked(waiters, t) => InWait(t) /\ ~Served(t)

(* The pool implements a semaphore whose tokens are the blocks: none is free    *)
(* beside a waiting task, and each goes to the most urgent one.                 *)
Abstract == INSTANCE AbstractSemaphore WITH
    Clients <- 1 .. AppTasks,
    Urgency <- BasePriority,
    MaxCount <- BlockCount,
    InitialCount <- BlockCount,
    avail   <- Len(freeList),
    waiting <- {t \in 1 .. AppTasks : waitType[t] = "MEMPOOL" /\ StillWaiting(t)},
    granted <- {t \in 1 .. AppTasks : grant[t] # NoBlock}
ImplementsSemaphore == Abstract!AbstractSpec
===============================================================================
