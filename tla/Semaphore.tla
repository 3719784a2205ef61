------------------------------- MODULE Semaphore -------------------------------
(* One counting semaphore (sem.c) shared by every application task and by       *)
(* interrupt service routines that post to it.                                  *)
EXTENDS Kernel

CONSTANTS
    InitialCount, MaxCount,     \* arguments of rtos_sem_init()
    Timeouts                    \* arguments of rtos_sem_wait_timeout(), 0 left out

ASSUME SemaphoreAssumption ==
    /\ InitialCount \in Nat /\ MaxCount \in Nat
    /\ 0 < MaxCount /\ InitialCount <= MaxCount
    /\ Timeouts \subseteq Nat \ {0}

VARIABLES
    count,      \* sem->count
    waiters     \* the list from sem->wait_head to sem->wait_tail

semVars == <<count, waiters>>
semaphoreVars == <<kernelVars, semVars>>

SemInit == KernelInit /\ count = InitialCount /\ waiters = <<>>
-------------------------------------------------------------------------------
(* rtos_sem_wait_timeout().  With no token and no timeout it returns at once    *)
(* and changes nothing.                                                         *)
TakeToken ==
    /\ InApp
    /\ count > 0
    /\ count' = count - 1
    /\ UNCHANGED <<kernelVars, waiters>>

StartWait(ms) ==
    /\ InApp
    /\ count = 0
    /\ BlockCurrent("SEM", ms, "block")
    /\ waiters' = WaitPush(waiters, current, priority)
    /\ UNCHANGED <<ringVars, lockVars, current, pendsv, priority, count>>

(* Mutant of EndWait: a wait that timed out leaves its link behind.             *)
EndWait_KeepsLink ==
    /\ Resuming
    /\ GoTo("app")
    /\ waitType' = [waitType EXCEPT ![current] = "NONE"]
    /\ UNCHANGED <<ringVars, lockVars, state, delay, waitResult,
                   current, pendsv, priority, semVars>>

EndWait ==
    /\ Resuming
    /\ IF waitResult[current] = "TIMEOUT"
       THEN /\ waiters' = WaitRemove(waiters, current)
            /\ waitType' = [waitType EXCEPT ![current] = "NONE"]
       ELSE UNCHANGED <<waiters, waitType>>
    /\ GoTo("app")
    /\ UNCHANGED <<ringVars, lockVars, state, delay, waitResult,
                   current, pendsv, priority, count>>

(* Mutants of PostCommon: no maximum; only the head of the list is looked at.   *)
PostCommon_NoMaximum ==
    /\ waiters' = WaitPop(waiters, Waiting)
    /\ WakeFirst(waiters)
    /\ count' = IF NobodyWaits(waiters) THEN count + 1 ELSE count
    /\ UNCHANGED <<ringVars, lockVars, current, priority>>
PostCommon_HeadOnly ==
    LET first == IF waiters = <<>> THEN <<>> ELSE <<Head(waiters)>>
    IN  /\ waiters' = SubSeq(waiters, 2, Len(waiters))
        /\ WakeFirst(first)
        /\ count' = IF NobodyWaits(first) /\ count < MaxCount THEN count + 1 ELSE count
        /\ UNCHANGED <<ringVars, lockVars, current, priority>>

(* post_common(): the token goes to a waiter, or to the count, or nowhere.      *)
PostCommon ==
    /\ waiters' = WaitPop(waiters, Waiting)
    /\ WakeFirst(waiters)
    /\ count' = IF NobodyWaits(waiters) /\ count < MaxCount THEN count + 1 ELSE count
    /\ UNCHANGED <<ringVars, lockVars, current, priority>>

(* rtos_sem_post() by a task; rtos_sem_post_isr() in an interrupt.              *)
Post ==
    /\ InApp
    /\ PostCommon
    /\ ReturnAfterWake(waiters)
    /\ UNCHANGED pendsv

PostIsr ==
    /\ PostCommon
    /\ pendsv' = (pendsv \/ ~NobodyWaits(waiters))
    /\ UNCHANGED pc

SemStep ==
    \/ TakeToken \/ EndWait \/ Post \/ PostIsr
    \/ \E ms \in Timeouts : StartWait(ms)

SemNext == (KernelStep /\ UNCHANGED semVars) \/ SemStep

(* A task that got the processor finishes the wait it is in.                    *)
SemFairness ==
    KernelFairness /\ SF_semaphoreVars(EndWait)

SemSpec == SemInit /\ [][SemNext]_semaphoreVars
SemFairSpec == SemSpec /\ SemFairness
-------------------------------------------------------------------------------
InWait(t) == pc[t] \in {"block", "resume"}

SemTypeOK ==
    /\ current \in Tasks
    /\ pendsv \in BOOLEAN
    /\ state \in [Slots -> States]
    /\ delay \in [Slots -> Nat]
    /\ waitType \in [Slots -> WaitTypes]
    /\ waitResult \in [Slots -> Results]
    /\ pc \in [Slots -> PCs]
    /\ count \in 0 .. MaxCount
    /\ waiters \in Seq(Tasks)

(* Every task that is waiting is linked, once, so that a post can find it; and  *)
(* a task that has returned from its wait is linked no more, so that its        *)
(* wait_next is free for its next wait; and the list runs from the most urgent  *)
(* waiter to the least (sem.c:31, 86-92, 131-133).                              *)
ListIsExact ==
    /\ \A t \in Tasks : (waitType[t] = "SEM" /\ StillWaiting(t)) => Linked(waiters, t)
    /\ \A t \in Tasks : Linked(waiters, t) => InWait(t)
    /\ NoRepeats(waiters)
    /\ Sorted(waiters, priority)

(* Two waiters never change places, and a newcomer goes behind every waiter of  *)
(* its own priority: equal priorities are served first come, first served.      *)
Before(q, t, u) == \E i, j \in 1 .. Len(q) : i < j /\ q[i] = t /\ q[j] = u
FirstComeAmongEquals ==
    [][\A t, u \in Tasks :
          (Linked(waiters, t) /\ Linked(waiters', t) /\ Linked(waiters', u)) =>
             /\ Before(waiters, t, u) => Before(waiters', t, u)
             /\ (~Linked(waiters, u) /\ priority[t] >= priority[u])
                    => Before(waiters', t, u)]_semaphoreVars

(* The semaphore implements the abstract one: what is linked, marked and counted *)
(* here amounts to tokens free, asked for and handed over there.                 *)
Abstract == INSTANCE AbstractSemaphore WITH
    Clients <- 1 .. AppTasks,
    Urgency <- BasePriority,
    avail   <- count,
    waiting <- {t \in 1 .. AppTasks : waitType[t] = "SEM" /\ StillWaiting(t)},
    granted <- {t \in 1 .. AppTasks :
                   InWait(t) /\ state[t] # "BLOCKED" /\ waitResult[t] = "OK"}
ImplementsAbstract == Abstract!AbstractSpec

(* The wait of the most urgent task, if it has a timeout, comes to an end.      *)
TimedWaitReturns ==
    \A t \in 1 .. AppTasks :
        (\A u \in 1 .. AppTasks \ {t} : BasePriority[u] < BasePriority[t]) =>
            ((pc[t] = "block" /\ delay[t] > 0) ~> pc[t] = "app")
===============================================================================
