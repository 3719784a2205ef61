--------------------------------- MODULE Mutex ---------------------------------
(* Recursive mutexes with priority inheritance (mutex.c), locked and unlocked   *)
(* by the application tasks, which may also sleep while they hold one.          *)
EXTENDS Kernel, FiniteSets

CONSTANTS
    Mutexes,
    Timeouts,       \* arguments of rtos_mutex_lock_timeout(), 0 left out
    SleepTimes,     \* arguments of rtos_sleep()
    MaxDepth,       \* bound on the depth of recursive locking
    MaxHeld         \* bound on the mutexes one task holds at a time

NoOwner == 0

ASSUME MutexAssumption ==
    /\ NoOwner \notin Slots /\ IsFiniteSet(Mutexes)
    /\ Timeouts \subseteq Nat \ {0} /\ SleepTimes \subseteq Nat
    /\ MaxDepth \in Nat \ {0} /\ MaxHeld \in Nat \ {0}

VARIABLES
    owner,      \* mutex->owner
    depth,      \* mutex->lock_count
    waiters,    \* the list from mutex->wait_head to mutex->wait_tail
    want        \* the arguments (mutex, timeout) of the lock call a task is in

mutexVars == <<owner, depth, waiters, want>>
vars == <<kernelVars, mutexVars>>

Init ==
    /\ KernelInit
    /\ owner = [m \in Mutexes |-> NoOwner]
    /\ depth = [m \in Mutexes |-> 0]
    /\ waiters = [m \in Mutexes |-> <<>>]
    /\ want = [t \in Slots |-> <<>>]
-------------------------------------------------------------------------------
Held(t) == {m \in Mutexes : owner[m] = t}
Higher(p, q) == IF p > q THEN p ELSE q

(* recompute_owner_priority(), for mutex m with the wait list q.                *)
InheritedBy(o, q) ==
    LET urgent == {q[i] : i \in 1 .. Len(q)} \cap Waiting
        levels == {basePriority[o]} \cup {priority[t] : t \in urgent}
    IN  CHOOSE p \in levels : \A r \in levels : r <= p

(* Mutant: a waiter that gives up takes the whole raise away.                   *)
Recomputed_ToBase(m, q) ==
    IF owner[m] = NoOwner
    THEN priority
    ELSE [priority EXCEPT ![owner[m]] = basePriority[owner[m]]]

Recomputed(m, q) ==
    IF owner[m] = NoOwner
    THEN priority
    ELSE [priority EXCEPT ![owner[m]] = InheritedBy(owner[m], q)]

(* The first critical section of rtos_mutex_lock_timeout(), which the call runs *)
(* again after every wake-up.                                                   *)
Acquire(m) ==
    /\ owner[m] = NoOwner
    /\ owner' = [owner EXCEPT ![m] = current]
    /\ depth' = [depth EXCEPT ![m] = 1]
    /\ GoTo("app")
    /\ want' = [want EXCEPT ![current] = <<>>]
    /\ UNCHANGED <<tcbVars, priority, waiters>>

Relock(m) ==
    /\ owner[m] = current
    /\ depth[m] < MaxDepth
    /\ depth' = [depth EXCEPT ![m] = @ + 1]
    /\ UNCHANGED <<tcbVars, priority, pc, owner, waiters, want>>

(* Mutant: the owner is not raised.                                             *)
StartWait_NoRaise(m, ms) ==
    /\ owner[m] \notin {NoOwner, current}
    /\ BlockCurrent("MUTEX", ms, "block")
    /\ waiters' = [waiters EXCEPT ![m] = WaitPush(@, current, priority)]
    /\ want' = [want EXCEPT ![current] = <<m, ms>>]
    /\ UNCHANGED <<owner, depth, priority>>

StartWait(m, ms) ==
    /\ owner[m] \notin {NoOwner, current}
    /\ priority' = [priority EXCEPT ![owner[m]] = Higher(priority[current], @)]
    /\ BlockCurrent("MUTEX", ms, "block")
    /\ waiters' = [waiters EXCEPT ![m] = WaitPush(@, current, priority)]
    /\ want' = [want EXCEPT ![current] = <<m, ms>>]
    /\ UNCHANGED <<owner, depth>>

Lock(m, ms) ==
    /\ InApp
    /\ Cardinality(Held(current) \cup {m}) <= MaxHeld
    /\ Acquire(m) \/ Relock(m) \/ StartWait(m, ms)
    /\ UNCHANGED <<ringVars, lockVars, current, pendsv>>

Retry ==
    /\ ~pendsv /\ pc[current] = "retry"
    /\ LET m == want[current][1]
           ms == want[current][2]
       IN  Acquire(m) \/ Relock(m) \/ StartWait(m, ms)
    /\ UNCHANGED <<ringVars, lockVars, current, pendsv>>

(* Mutant of TimedOut: the link stays behind.                                   *)
TimedOut_KeepsLink ==
    /\ waitResult[current] = "TIMEOUT"
    /\ waitType' = [waitType EXCEPT ![current] = "NONE"]
    /\ want' = [want EXCEPT ![current] = <<>>]
    /\ GoTo("app")
    /\ UNCHANGED <<waiters, priority>>

(* The second critical section.                                                 *)
TimedOut ==
    LET m == want[current][1]
    IN  /\ waitResult[current] = "TIMEOUT"
        /\ waiters' = [waiters EXCEPT ![m] = WaitRemove(@, current)]
        /\ waitType' = [waitType EXCEPT ![current] = "NONE"]
        /\ priority' = Recomputed(m, waiters'[m])
        /\ want' = [want EXCEPT ![current] = <<>>]
        /\ GoTo("app")

Woken ==
    /\ waitResult[current] = "OK"
    /\ GoTo("retry")
    /\ UNCHANGED <<waiters, waitType, priority, want>>

EndWait ==
    /\ Resuming
    /\ TimedOut \/ Woken
    /\ UNCHANGED <<ringVars, lockVars, state, delay, waitResult,
                   current, pendsv, owner, depth>>

(* rtos_mutex_unlock(), refused unless the caller owns the mutex.               *)
UnlockInner(m) ==
    /\ depth[m] > 1
    /\ depth' = [depth EXCEPT ![m] = @ - 1]
    /\ UNCHANGED <<tcbVars, priority, pc, owner, waiters>>

(* Mutants: the raise is kept; only the head of the list is looked at.          *)
UnlockOuter_KeepsRaise(m) ==
    /\ depth[m] = 1
    /\ depth' = [depth EXCEPT ![m] = 0]
    /\ owner' = [owner EXCEPT ![m] = NoOwner]
    /\ waiters' = [waiters EXCEPT ![m] = WaitPop(@, Waiting)]
    /\ WakeFirst(waiters[m])
    /\ ReturnAfterWake(waiters[m])
    /\ UNCHANGED priority
UnlockOuter_HeadOnly(m) ==
    LET first == IF waiters[m] = <<>> THEN <<>> ELSE <<Head(waiters[m])>>
    IN  /\ depth[m] = 1
        /\ depth' = [depth EXCEPT ![m] = 0]
        /\ priority' = [priority EXCEPT ![current] = basePriority[current]]
        /\ owner' = [owner EXCEPT ![m] = NoOwner]
        /\ waiters' = [waiters EXCEPT ![m] = SubSeq(@, 2, Len(@))]
        /\ WakeFirst(first)
        /\ ReturnAfterWake(first)

UnlockOuter(m) ==
    /\ depth[m] = 1
    /\ depth' = [depth EXCEPT ![m] = 0]
    /\ priority' = [priority EXCEPT ![current] = basePriority[current]]
    /\ owner' = [owner EXCEPT ![m] = NoOwner]
    /\ waiters' = [waiters EXCEPT ![m] = WaitPop(@, Waiting)]
    /\ WakeFirst(waiters[m])
    /\ ReturnAfterWake(waiters[m])

Unlock(m) ==
    /\ InApp
    /\ owner[m] = current
    /\ UnlockInner(m) \/ UnlockOuter(m)
    /\ UNCHANGED <<ringVars, lockVars, current, pendsv, want>>

MutexStep ==
    \/ \E m \in Mutexes : Unlock(m) \/ \E ms \in Timeouts : Lock(m, ms)
    \/ Retry \/ EndWait

OtherStep == KernelStep \/ \E ms \in SleepTimes : Sleep(ms)

Next == (OtherStep /\ UNCHANGED mutexVars) \/ MutexStep

(* A task that has the processor finishes the call it is in, and, the           *)
(* assumption on the applications, one that holds a mutex undoes its locks one  *)
(* after the other.                                                             *)
UnlockAt(d) == \E m \in Mutexes : depth[m] = d /\ Unlock(m)
Fairness ==
    /\ KernelFairness /\ SF_vars(EndWait) /\ SF_vars(Retry)
    /\ \A d \in 1 .. MaxDepth : SF_vars(UnlockAt(d))

Spec == Init /\ [][Next]_vars
FairSpec == Spec /\ Fairness
-------------------------------------------------------------------------------
(* t is inside a lock call that found the mutex m owned.                        *)
InCall(t, m) ==
    pc[t] \in {"block", "resume", "retry"} /\ want[t] # <<>> /\ want[t][1] = m

TypeOK ==
    /\ current \in Tasks
    /\ pendsv \in BOOLEAN
    /\ state \in [Slots -> States]
    /\ delay \in [Slots -> Nat]
    /\ priority \in [Slots -> Nat]
    /\ waitType \in [Slots -> WaitTypes]
    /\ waitResult \in [Slots -> Results]
    /\ pc \in [Slots -> PCs]
    /\ owner \in [Mutexes -> 1 .. AppTasks \cup {NoOwner}]
    /\ depth \in [Mutexes -> 0 .. MaxDepth]
    /\ waiters \in [Mutexes -> Seq(Tasks)]
    /\ want \in [Slots -> {<<>>} \cup (Mutexes \X Timeouts)]

(* The waiter lists hold exactly the tasks that wait: a waiting task is linked, *)
(* once and in the list of its own mutex; a task that left the call, or that an *)
(* unlock woke, is linked nowhere.                                              *)
ListsAreExact ==
    \A m \in Mutexes :
        /\ NoRepeats(waiters[m])
        /\ \A t \in Tasks :
              /\ (InCall(t, m) /\ StillWaiting(t)) => Linked(waiters[m], t)
              /\ Linked(waiters[m], t) =>
                    InCall(t, m) /\ (StillWaiting(t) \/ waitResult[t] = "TIMEOUT")

(* A free mutex is never left with tasks waiting for it and nobody on the way:  *)
(* unlock passes no ownership, so the task it woke must be about to try again,  *)
(* whoever took the mutex, or timed out, in between (mutex.c:199-208).          *)
NobodyStranded ==
    \A m \in Mutexes :
        (owner[m] = NoOwner /\ \E t \in Tasks : InCall(t, m) /\ StillWaiting(t)) =>
            \E u \in Tasks :
                /\ InCall(u, m)
                /\ state[u] \in {"READY", "RUNNING"} /\ waitResult[u] = "OK"

(* Priority inheritance: an owner never runs at a lower priority than a task    *)
(* that waits for its mutex, also when the mutex changed hands, or an earlier   *)
(* waiter gave up, since the waiter blocked (mutex.c:79-100, 150-152).          *)
OwnerInherits ==
    \A m \in Mutexes : \A t \in Tasks :
        (owner[m] # NoOwner /\ InCall(t, m) /\ StillWaiting(t)) =>
            priority[owner[m]] >= priority[t]

(* No raise outlives its reason: a task above its base priority owns a mutex    *)
(* that a task of that priority has asked for and not yet given up on.          *)
RaiseIsJustified ==
    \A t \in Tasks :
        /\ priority[t] >= basePriority[t]
        /\ priority[t] > basePriority[t] =>
              \E m \in Held(t) : \E u \in Tasks :
                  Linked(waiters[m], u) /\ priority[u] = priority[t]

(* Bounded priority inversion: the most urgent task gets the mutex it waits for *)
(* without a timeout, even if a task of a priority in between never gives up    *)
(* the processor.                                                               *)
MostUrgentGetsLock ==
    \A t \in 1 .. AppTasks :
        (\A u \in 1 .. AppTasks \ {t} : BasePriority[u] < BasePriority[t]) =>
            ((pc[t] = "block" /\ delay[t] = 0) ~> pc[t] = "app")
===============================================================================
