--------------------------------- MODULE Queue ---------------------------------
(* One message queue (queue.c): tasks send to it and receive from it, with and  *)
(* without timeouts, and interrupt service routines send to it.                 *)
EXTENDS Kernel, FiniteSets

CONSTANTS
    Messages,
    Blank,          \* what a cell of the buffer holds before the first send
    Capacity,       \* argument of rtos_queue_init()
    Timeouts        \* timeouts of the blocking calls, 0 left out

ASSUME QueueAssumption ==
    Capacity \in Nat \ {0} /\ Timeouts \subseteq Nat \ {0} /\ Blank \notin Messages

VARIABLES
    buffer, head, tail, count,      \* the ring buffer, as in rtos_queue_t
    recvWaiters, sendWaiters,       \* the two wait lists
    call,                           \* the arguments of the call a task is in
    delivered                       \* what the last receive stored in *value

queueVars == <<buffer, head, tail, count, recvWaiters, sendWaiters, call, delivered>>
vars == <<kernelVars, queueVars>>

NoCall == [op |-> "none"]
Calls == [op : {"recv"}, ms : Timeouts] \cup [op : {"send"}, ms : Timeouts, msg : Messages]

Init ==
    /\ KernelInit
    /\ buffer = [i \in 0 .. Capacity - 1 |-> Blank]
    /\ head = 0 /\ tail = 0 /\ count = 0
    /\ recvWaiters = <<>> /\ sendWaiters = <<>>
    /\ call = [t \in Slots |-> NoCall]
    /\ delivered = Blank
-------------------------------------------------------------------------------
(* Mutants of Enqueue: no look at the capacity; a receiver woken only when the  *)
(* queue was empty; no receiver woken at all.                                   *)
EnqueueWaking(v, receivers) ==
    /\ buffer' = [buffer EXCEPT ![tail] = v]
    /\ tail' = (tail + 1) % Capacity
    /\ count' = count + 1
    /\ recvWaiters' = IF receivers = <<>> THEN recvWaiters
                      ELSE WaitPop(recvWaiters, Waiting)
    /\ WakeFirst(receivers)
    /\ UNCHANGED <<head, sendWaiters, delivered>>
Enqueue_Overfills(v) == EnqueueWaking(v, recvWaiters)
Enqueue_WhenEmpty(v) ==
    count < Capacity /\ EnqueueWaking(v, IF count = 0 THEN recvWaiters ELSE <<>>)
Enqueue_NoWake(v) == count < Capacity /\ EnqueueWaking(v, <<>>)

(* The branch of rtos_queue_send_timeout() that finds room.                     *)
Enqueue(v) ==
    /\ count < Capacity
    /\ buffer' = [buffer EXCEPT ![tail] = v]
    /\ tail' = (tail + 1) % Capacity
    /\ count' = count + 1
    /\ recvWaiters' = WaitPop(recvWaiters, Waiting)
    /\ WakeFirst(recvWaiters)
    /\ UNCHANGED <<head, sendWaiters, delivered>>

(* Mutant of Dequeue: it reads at the wrong end of the ring buffer.             *)
Dequeue_WrongEnd ==
    /\ count > 0
    /\ delivered' = buffer[tail]
    /\ head' = (head + 1) % Capacity
    /\ count' = count - 1
    /\ sendWaiters' = WaitPop(sendWaiters, Waiting)
    /\ WakeFirst(sendWaiters)
    /\ UNCHANGED <<buffer, tail, recvWaiters>>

(* The branch of rtos_queue_recv_timeout() that finds a message.                *)
Dequeue ==
    /\ count > 0
    /\ delivered' = buffer[head]
    /\ head' = (head + 1) % Capacity
    /\ count' = count - 1
    /\ sendWaiters' = WaitPop(sendWaiters, Waiting)
    /\ WakeFirst(sendWaiters)
    /\ UNCHANGED <<buffer, tail, recvWaiters>>

FinishCall(q) == ReturnAfterWake(q) /\ call' = [call EXCEPT ![current] = NoCall]

StartWait(c) ==
    /\ BlockCurrent("QUEUE", c.ms, "block")
    /\ call' = [call EXCEPT ![current] = c]
    /\ UNCHANGED <<buffer, head, tail, count, delivered>>

(* One pass through the loop of a call: it succeeds and returns, or it waits;   *)
(* each wait starts the timeout afresh.                                         *)
SendPass(c) ==
    \/ Enqueue(c.msg) /\ FinishCall(recvWaiters)
    \/ /\ count = Capacity
       /\ StartWait(c)
       /\ sendWaiters' = WaitPush(sendWaiters, current, priority)
       /\ UNCHANGED recvWaiters

RecvPass(c) ==
    \/ Dequeue /\ FinishCall(sendWaiters)
    \/ /\ count = 0
       /\ StartWait(c)
       /\ recvWaiters' = WaitPush(recvWaiters, current, priority)
       /\ UNCHANGED sendWaiters

Pass(c) == IF c.op = "send" THEN SendPass(c) ELSE RecvPass(c)

(* A call with timeout 0 does a pass that succeeds, or nothing.                 *)
Call(c) ==
    /\ InApp
    /\ Pass(c)
    /\ UNCHANGED <<ringVars, lockVars, current, pendsv, priority>>

Retry ==
    /\ ~pendsv /\ pc[current] = "retry"
    /\ Pass(call[current])
    /\ UNCHANGED <<ringVars, lockVars, current, pendsv, priority>>

(* rtos_queue_send_isr(); on a full queue it returns at once.                   *)
SendIsr(v) ==
    /\ Enqueue(v)
    /\ pendsv' = (pendsv \/ ~NobodyWaits(recvWaiters))
    /\ UNCHANGED <<ringVars, lockVars, current, priority, pc, call>>

(* Mutant of TimedOut: a sender is looked for in the receivers' list.           *)
TimedOut_WrongList ==
    /\ waitResult[current] = "TIMEOUT"
    /\ recvWaiters' = WaitRemove(recvWaiters, current)
    /\ waitType' = [waitType EXCEPT ![current] = "NONE"]
    /\ call' = [call EXCEPT ![current] = NoCall]
    /\ GoTo("app")
    /\ UNCHANGED sendWaiters

(* The critical section after a wait.                                           *)
TimedOut ==
    /\ waitResult[current] = "TIMEOUT"
    /\ IF call[current].op = "send"
       THEN sendWaiters' = WaitRemove(sendWaiters, current) /\ UNCHANGED recvWaiters
       ELSE recvWaiters' = WaitRemove(recvWaiters, current) /\ UNCHANGED sendWaiters
    /\ waitType' = [waitType EXCEPT ![current] = "NONE"]
    /\ call' = [call EXCEPT ![current] = NoCall]
    /\ GoTo("app")

Woken ==
    /\ waitResult[current] = "OK"
    /\ GoTo("retry")
    /\ UNCHANGED <<recvWaiters, sendWaiters, waitType, call>>

EndWait ==
    /\ Resuming
    /\ TimedOut \/ Woken
    /\ UNCHANGED <<ringVars, lockVars, state, delay, waitResult, current, pendsv,
                   priority, buffer, head, tail, count, delivered>>

QueueStep ==
    \/ \E c \in Calls : Call(c)
    \/ \E v \in Messages : SendIsr(v)
    \/ Retry \/ EndWait

Next == (KernelStep /\ UNCHANGED queueVars) \/ QueueStep

Fairness == KernelFairness /\ SF_vars(EndWait) /\ SF_vars(Retry)

Spec == Init /\ [][Next]_vars
FairSpec == Spec /\ Fairness
-------------------------------------------------------------------------------
InCall(t, op) == pc[t] \in {"block", "resume", "retry"} /\ call[t].op = op

TypeOK ==
    /\ current \in Tasks
    /\ pendsv \in BOOLEAN
    /\ state \in [Slots -> States]
    /\ delay \in [Slots -> Nat]
    /\ waitType \in [Slots -> WaitTypes]
    /\ waitResult \in [Slots -> Results]
    /\ pc \in [Slots -> PCs]
    /\ buffer \in [0 .. Capacity - 1 -> Messages \cup {Blank}]
    /\ head \in 0 .. Capacity - 1 /\ tail \in 0 .. Capacity - 1
    /\ count \in 0 .. Capacity
    /\ recvWaiters \in Seq(Tasks) /\ sendWaiters \in Seq(Tasks)
    /\ call \in [Slots -> Calls \cup {NoCall}]
    /\ delivered \in Messages \cup {Blank}

(* A task that waits is linked once in the list of its own direction and in no  *)
(* other; one that was woken, or has left the call, is linked nowhere.          *)
ListsAreExact ==
    /\ NoRepeats(recvWaiters) /\ NoRepeats(sendWaiters)
    /\ \A t \in Tasks :
          /\ (InCall(t, "recv") /\ StillWaiting(t)) => Linked(recvWaiters, t)
          /\ (InCall(t, "send") /\ StillWaiting(t)) => Linked(sendWaiters, t)
          /\ Linked(recvWaiters, t) =>
                InCall(t, "recv") /\ (StillWaiting(t) \/ waitResult[t] = "TIMEOUT")
          /\ Linked(sendWaiters, t) =>
                InCall(t, "send") /\ (StillWaiting(t) \/ waitResult[t] = "TIMEOUT")

(* No wake-up is lost, although a woken task may find that another one came     *)
(* first and goes back to the list (queue.c:127-175, 192-240): while a task     *)
(* waits to receive, each message in the buffer has a receiver on its way, and  *)
(* while a task waits to send, each free cell has a sender on its way.          *)
OnTheWay(op) ==
    {t \in Tasks : InCall(t, op) /\ state[t] # "BLOCKED" /\ waitResult[t] = "OK"}
NoLostWakeup ==
    /\ (\E t \in Tasks : InCall(t, "recv") /\ StillWaiting(t)) =>
           count <= Cardinality(OnTheWay("recv"))
    /\ (\E t \in Tasks : InCall(t, "send") /\ StillWaiting(t)) =>
           Capacity - count <= Cardinality(OnTheWay("send"))

(* The ring buffer with its head, tail and count, under concurrent calls, is a  *)
(* first-in first-out channel.                                                  *)
Channel == INSTANCE AbstractQueue WITH
    Nothing <- Blank,
    contents <- [i \in 1 .. count |-> buffer[(head + i - 1) % Capacity]]
ImplementsChannel == Channel!ChannelSpec

(* While a message is there, the most urgent task does not wait in vain.        *)
MostUrgentReceives ==
    \A t \in 1 .. AppTasks :
        (\A u \in 1 .. AppTasks \ {t} : BasePriority[u] < BasePriority[t]) =>
            ((InCall(t, "recv") /\ count > 0) ~> pc[t] = "app")
===============================================================================
