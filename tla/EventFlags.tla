------------------------------ MODULE EventFlags ------------------------------
(* One group of event flags (event.c): tasks wait for any or all of some flags, *)
(* tasks and interrupt service routines set flags, tasks clear them.            *)
EXTENDS Kernel

CONSTANTS
    Flags,          \* the bits of events->flags
    Requests,       \* the flags and modes a task may wait for
    EventTimeouts   \* arguments of rtos_event_flags_wait(), 0 left out

ASSUME EventFlagsAssumption ==
    /\ Requests \subseteq [flags : (SUBSET Flags) \ {{}}, all : BOOLEAN, clear : BOOLEAN]
    /\ EventTimeouts \subseteq Nat \ {0}

VARIABLES
    flags,      \* events->flags
    waiters,    \* the list from events->wait_head to events->wait_tail
    request,    \* wait_flags, wait_flags_all and wait_flags_clear of a task that waits
    result      \* its wait_flags_result

eventVars == <<flags, waiters, request, result>>
groupVars == <<kernelVars, eventVars>>

NoRequest == [flags |-> {}, all |-> FALSE, clear |-> FALSE]

EventsInit ==
    /\ KernelInit
    /\ flags = {}
    /\ waiters = <<>>
    /\ request = [t \in Slots |-> NoRequest]
    /\ result = [t \in Slots |-> {}]
-------------------------------------------------------------------------------
(* flags_match(): the flags of a request that are up, none if that will not do. *)
Matched(up, r) == IF r.all /\ ~(r.flags \subseteq up) THEN {} ELSE r.flags \cap up

ClearedFor(r) == IF r.clear THEN Matched(flags, r) ELSE {}

(* rtos_event_flags_wait(), up to its rtos_yield().                             *)
TakeFlags(r) ==
    /\ InApp
    /\ Matched(flags, r) # {}
    /\ flags' = flags \ ClearedFor(r)
    /\ UNCHANGED <<kernelVars, waiters, request, result>>

StartWait(r, ms) ==
    /\ InApp
    /\ Matched(flags, r) = {}
    /\ BlockCurrent("EVENT", ms, "block")
    /\ request' = [request EXCEPT ![current] = r]
    /\ waiters' = WaitPush(waiters, current, priority)
    /\ UNCHANGED <<ringVars, lockVars, current, pendsv, priority, flags, result>>

(* Mutant of EndWait: a wait that timed out leaves its link behind.             *)
EndWait_KeepsLink ==
    /\ Resuming
    /\ GoTo("app")
    /\ waitType' = [waitType EXCEPT ![current] = "NONE"]
    /\ request' = [request EXCEPT ![current] = NoRequest]
    /\ result' = [result EXCEPT ![current] = {}]
    /\ UNCHANGED <<ringVars, lockVars, state, delay, waitResult,
                   current, pendsv, priority, flags, waiters>>

(* ... and from there on.  The code leaves the task's request behind, which     *)
(* nothing reads until the next wait writes it.                                 *)
EndWait ==
    /\ Resuming
    /\ IF waitResult[current] = "TIMEOUT"
       THEN /\ waiters' = WaitRemove(waiters, current)
            /\ waitType' = [waitType EXCEPT ![current] = "NONE"]
       ELSE UNCHANGED <<waiters, waitType>>
    /\ GoTo("app")
    /\ request' = [request EXCEPT ![current] = NoRequest]
    /\ result' = [result EXCEPT ![current] = {}]
    /\ UNCHANGED <<ringVars, lockVars, state, delay, waitResult,
                   current, pendsv, priority, flags>>
-------------------------------------------------------------------------------
(* One turn of the loop of set_common(): the waiter at hand stays linked, or it *)
(* is woken with the flags it matched, which may take them off the group.       *)
KeepWaiter(scan, t) == [scan EXCEPT !.kept = Append(@, t)]
ServeWaiter(scan, t) ==
    LET matched == Matched(scan.flags, request[t])
    IN  [flags |-> IF request[t].clear THEN scan.flags \ matched ELSE scan.flags,
         kept |-> scan.kept,
         result |-> [scan.result EXCEPT ![t] = matched],
         woken |-> scan.woken \cup {t}]

(* Mutants of ScanWaiter: one waiter is served at most; no flag is cleared.     *)
ScanWaiter_ServesOne(scan, t) ==
    IF /\ StillWaiting(t) /\ Matched(scan.flags, request[t]) # {}
       /\ scan.woken = {}
    THEN ServeWaiter(scan, t)
    ELSE KeepWaiter(scan, t)
ScanWaiter_NoClear(scan, t) ==
    IF StillWaiting(t) /\ Matched(scan.flags, request[t]) # {}
    THEN [ServeWaiter(scan, t) EXCEPT !.flags = scan.flags]
    ELSE KeepWaiter(scan, t)

ScanWaiter(scan, t) ==
    IF StillWaiting(t) /\ Matched(scan.flags, request[t]) # {}
    THEN ServeWaiter(scan, t)
    ELSE KeepWaiter(scan, t)

(* The loop, up to the n-th waiter, and to its end.                             *)
Scan(raised) ==
    LET scan[n \in 0 .. Len(waiters)] ==
            IF n = 0
            THEN [flags |-> flags \cup raised, kept |-> <<>>, result |-> result, woken |-> {}]
            ELSE ScanWaiter(scan[n - 1], waiters[n])
    IN  scan
Scanned(raised) == Scan(raised)[Len(waiters)]

(* set_common(): what WakeTask does, for each task the loop woke.               *)
SetCommon(raised) ==
    LET scan == Scanned(raised)
        Woken(old, new) == [t \in Slots |-> IF t \in scan.woken THEN new ELSE old[t]]
    IN  /\ flags' = scan.flags
        /\ waiters' = scan.kept
        /\ result' = scan.result
        /\ state' = Woken(state, "READY")
        /\ delay' = Woken(delay, 0)
        /\ waitType' = Woken(waitType, "NONE")
        /\ waitResult' = Woken(waitResult, "OK")
        /\ UNCHANGED <<ringVars, lockVars, current, priority, request>>

(* rtos_event_flags_set() by a task, rtos_event_flags_set_isr() in an interrupt.*)
Set(raised) ==
    /\ InApp
    /\ SetCommon(raised)
    /\ GoTo(IF Scanned(raised).woken = {} THEN "app" ELSE "kick")
    /\ UNCHANGED pendsv

SetIsr(raised) ==
    /\ SetCommon(raised)
    /\ pendsv' = (pendsv \/ Scanned(raised).woken # {})
    /\ UNCHANGED pc

Clear(lowered) ==
    /\ InApp
    /\ flags' = flags \ lowered
    /\ UNCHANGED <<kernelVars, waiters, request, result>>

SomeFlags == (SUBSET Flags) \ {{}}
EventStep ==
    \/ \E r \in Requests : TakeFlags(r) \/ \E ms \in EventTimeouts : StartWait(r, ms)
    \/ \E fs \in SomeFlags : Set(fs) \/ SetIsr(fs) \/ Clear(fs)
    \/ EndWait

EventsNext == (KernelStep /\ UNCHANGED eventVars) \/ EventStep

EventsSpec == EventsInit /\ [][EventsNext]_groupVars
-------------------------------------------------------------------------------
InWait(t) == pc[t] \in {"block", "resume"}

EventsTypeOK ==
    /\ current \in Tasks
    /\ pendsv \in BOOLEAN
    /\ state \in [Slots -> States]
    /\ delay \in [Slots -> Nat]
    /\ waitType \in [Slots -> WaitTypes]
    /\ waitResult \in [Slots -> Results]
    /\ pc \in [Slots -> PCs]
    /\ flags \subseteq Flags
    /\ waiters \in Seq(Tasks)
    /\ request \in [Slots -> Requests \cup {NoRequest}]
    /\ result \in [Slots -> SUBSET Flags]

(* Every task that is waiting is linked, once, so that a set can find it; one   *)
(* that was served, or has returned, is linked no more (event.c:111-121, 219).  *)
ListIsExact ==
    /\ NoRepeats(waiters)
    /\ \A t \in Tasks : (waitType[t] = "EVENT" /\ StillWaiting(t)) => Linked(waiters, t)
    /\ \A t \in Tasks : Linked(waiters, t) =>
           InWait(t) /\ (StillWaiting(t) \/ waitResult[t] = "TIMEOUT")

(* No task waits for flags that are up, although one set can serve several      *)
(* tasks and each of them may take away flags that others behind it, or in      *)
(* front of it, have asked for (event.c:104-137).                               *)
NoWaiterOverlooked ==
    \A t \in Tasks :
        (waitType[t] = "EVENT" /\ StillWaiting(t)) => Matched(flags, request[t]) = {}

(* A set serves a waiter with what it asked for: all of it, or, in the other    *)
(* mode, some of it; and a flag that a waiter takes as its own ("clear_on_exit")*)
(* is neither left up nor given to a waiter behind it.                          *)
Before(q, t, u) == \E i, j \in 1 .. Len(q) : i < j /\ q[i] = t /\ q[j] = u
Served(t) == Linked(waiters, t) /\ result'[t] # result[t]
TakenFlagsAreGone ==
    [][\A t \in Tasks : (state[t] = "BLOCKED" /\ Served(t)) =>
          /\ result'[t] # {} /\ result'[t] \subseteq request[t].flags
          /\ request[t].all => result'[t] = request[t].flags
          /\ request[t].clear =>
                /\ result'[t] \cap flags' = {}
                /\ \A u \in Tasks : Before(waiters, t, u) /\ Served(u) =>
                       result'[t] \cap result'[u] = {}]_groupVars
===============================================================================
