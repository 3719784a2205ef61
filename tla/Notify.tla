-------------------------------- MODULE Notify --------------------------------
(* Task notifications (task.c): a set of bits and a pending mark in the task    *)
(* itself, which tasks and interrupt service routines raise and which only the  *)
(* task waits for.  WorkQueue and Demo compose these operations.                *)
EXTENDS Kernel

CONSTANT Bits       \* the bits of task->notify_value

VARIABLES
    notifyValue,    \* notifyValue[t]: task t's notify_value
    notifyPending,  \* notifyPending[t]: its notify_pending
    clearOnExit     \* clear_on_exit of the rtos_task_notify_wait() a task is in

notifyVars == <<notifyValue, notifyPending, clearOnExit>>

NotifyInit ==
    /\ notifyValue = [t \in Slots |-> {}]
    /\ notifyPending = [t \in Slots |-> FALSE]
    /\ clearOnExit = [t \in Slots |-> {}]
-------------------------------------------------------------------------------
(* Task t sleeps in rtos_task_notify_wait().                                    *)
AwaitsNotification(t) == StillWaiting(t) /\ waitType[t] = "NOTIFICATION"

(* Mutant of WokenBy: what the task waits for is not looked at.                 *)
WokenBy_AnyWait(t) == StillWaiting(t)

(* notify_common() wakes a task only from a wait for a notification.            *)
WokenBy(t) == AwaitsNotification(t)

(* The critical section of notify_common().  The woken task keeps its wait type *)
(* until it runs.                                                               *)
NotifyCommon(t, bits) ==
    /\ notifyValue' = [notifyValue EXCEPT ![t] = @ \cup bits]
    /\ notifyPending' = [notifyPending EXCEPT ![t] = TRUE]
    /\ IF WokenBy(t)
       THEN /\ state' = [state EXCEPT ![t] = "READY"]
            /\ delay' = [delay EXCEPT ![t] = 0]
       ELSE UNCHANGED <<state, delay>>
    /\ UNCHANGED <<waitType, waitResult, clearOnExit>>

(* rtos_task_notify() by a task, from the critical section on.                  *)
NotifyAndReturn(t, bits) ==
    /\ NotifyCommon(t, bits)
    /\ GoTo(IF WokenBy(t) THEN "kick" ELSE "app")
    /\ UNCHANGED <<ringVars, lockVars, current, pendsv, priority>>

Notify(t, bits) == InApp /\ bits # {} /\ NotifyAndReturn(t, bits)

(* rtos_task_notify_isr(): its rtos_yield() sets PendSV.                        *)
NotifyIsr(t, bits) ==
    /\ NotifyCommon(t, bits)
    /\ pendsv' = (pendsv \/ WokenBy(t))
    /\ UNCHANGED <<ringVars, lockVars, current, priority, pc>>

(* The caller gets what is left of the value after clear_on_entry; the mark     *)
(* goes down with the last bit.                                                 *)
TakeValue(onEntry, onExit) ==
    LET rest == (notifyValue[current] \ onEntry) \ onExit
    IN  /\ notifyValue' = [notifyValue EXCEPT ![current] = rest]
        /\ notifyPending' =
              [notifyPending EXCEPT ![current] = @ /\ rest # {}]

(* Mutant of NotifyWait: the task goes to sleep without a look at the mark.     *)
NotifyWait_Unchecked(onEntry, onExit, ms) ==
    /\ InApp
    /\ ms # 0
    /\ BlockCurrent("NOTIFICATION", ms, "block")
    /\ notifyValue' = [notifyValue EXCEPT ![current] = @ \ onEntry]
    /\ clearOnExit' = [clearOnExit EXCEPT ![current] = onExit]
    /\ UNCHANGED <<notifyPending, ringVars, lockVars, current, pendsv, priority>>

(* rtos_task_notify_wait(), up to its rtos_yield().  With nothing pending and   *)
(* no timeout it only clears on entry.                                          *)
NotifyWait(onEntry, onExit, ms) ==
    /\ InApp
    /\ \/ /\ notifyPending[current]
          /\ TakeValue(onEntry, onExit)
          /\ UNCHANGED <<tcbVars, pc, clearOnExit>>
       \/ /\ ~notifyPending[current]
          /\ notifyValue' = [notifyValue EXCEPT ![current] = @ \ onEntry]
          /\ IF ms = 0
             THEN UNCHANGED <<tcbVars, pc, clearOnExit>>
             ELSE /\ BlockCurrent("NOTIFICATION", ms, "block")
                  /\ clearOnExit' = [clearOnExit EXCEPT ![current] = onExit]
          /\ UNCHANGED notifyPending
    /\ UNCHANGED <<ringVars, lockVars, current, pendsv, priority>>

(* Mutant of EndNotifyWait: the result of the wait is not looked at.            *)
EndNotifyWait_TakesAnyway ==
    /\ Resuming
    /\ waitType[current] = "NOTIFICATION"
    /\ TakeValue({}, clearOnExit[current])
    /\ waitType' = [waitType EXCEPT ![current] = "NONE"]
    /\ clearOnExit' = [clearOnExit EXCEPT ![current] = {}]
    /\ GoTo("app")
    /\ UNCHANGED <<ringVars, lockVars, state, delay, waitResult,
                   current, pendsv, priority>>

(* Its second critical section.  A value that arrives after the timeout stays   *)
(* for the next wait.                                                           *)
EndNotifyWait ==
    /\ Resuming
    /\ waitType[current] = "NOTIFICATION"
    /\ IF waitResult[current] = "TIMEOUT"
       THEN UNCHANGED <<notifyValue, notifyPending>>
       ELSE TakeValue({}, clearOnExit[current])
    /\ waitType' = [waitType EXCEPT ![current] = "NONE"]
    /\ clearOnExit' = [clearOnExit EXCEPT ![current] = {}]
    /\ GoTo("app")
    /\ UNCHANGED <<ringVars, lockVars, state, delay, waitResult,
                   current, pendsv, priority>>
-------------------------------------------------------------------------------
(* No notification is slept through: while a task sleeps in a wait nothing is   *)
(* pending for it, and the mark is up exactly while bits are, whatever its      *)
(* earlier waits cleared on entry and on exit and however notifications raced   *)
(* their timeouts (task.c:303-318, 346-354, 375-385).                           *)
NoNotificationMissed ==
    \A t \in Tasks :
        /\ AwaitsNotification(t) => ~notifyPending[t]
        /\ notifyPending[t] <=> notifyValue[t] # {}

(* No notification is thrown away: bits go down only in a wait of their own     *)
(* task, on entry, or at the end of one that a notification ended.  Those that  *)
(* come when the wait has timed out and the task has not run yet, and all that  *)
(* come while it waits for anything else, stay (task.c:303-318, 346-354,        *)
(* 375-385).                                                                    *)
NotificationsAreKept ==
    [][\A t \in Tasks :
          \/ notifyValue[t] \subseteq notifyValue'[t]
          \/ /\ t = current
             /\ \/ InApp
                \/ /\ Resuming
                   /\ waitType[t] = "NOTIFICATION" /\ waitResult[t] = "OK"]_notifyVars
===============================================================================
