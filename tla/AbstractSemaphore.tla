--------------------------- MODULE AbstractSemaphore ---------------------------
(* What a counting semaphore promises: a token is free, or on its way to one    *)
(* task, or taken; a release serves the most urgent of the tasks that are       *)
(* waiting; and a task that has given up is never served.  A release that does  *)
(* not happen is a stuttering step: that each post releases is not promised.    *)
EXTENDS Naturals

CONSTANTS Clients, Urgency, MaxCount, InitialCount

VARIABLES
    avail,      \* free tokens
    waiting,    \* clients waiting for a token
    granted     \* clients a token was handed to, that have not returned yet

abstractVars == <<avail, waiting, granted>>

AbstractInit == avail = InitialCount /\ waiting = {} /\ granted = {}

Take(t) ==
    /\ avail > 0 /\ t \notin waiting \cup granted
    /\ avail' = avail - 1
    /\ UNCHANGED <<waiting, granted>>

Enlist(t) ==
    /\ avail = 0 /\ t \notin waiting \cup granted
    /\ waiting' = waiting \cup {t}
    /\ UNCHANGED <<avail, granted>>

(* One tick can end several waits.                                              *)
Expire(S) ==
    /\ S # {} /\ waiting' = waiting \ S
    /\ UNCHANGED <<avail, granted>>

Grant(t) ==
    /\ t \in waiting
    /\ \A u \in waiting : Urgency[u] <= Urgency[t]
    /\ waiting' = waiting \ {t}
    /\ granted' = granted \cup {t}
    /\ UNCHANGED avail

Release ==
    /\ waiting = {} /\ avail < MaxCount
    /\ avail' = avail + 1
    /\ UNCHANGED <<waiting, granted>>

Collect(t) ==
    /\ t \in granted
    /\ granted' = granted \ {t}
    /\ UNCHANGED <<avail, waiting>>

AbstractNext ==
    \/ Release
    \/ \E S \in SUBSET waiting : Expire(S)
    \/ \E t \in Clients : Take(t) \/ Enlist(t) \/ Grant(t) \/ Collect(t)

AbstractSpec == AbstractInit /\ [][AbstractNext]_abstractVars
===============================================================================
