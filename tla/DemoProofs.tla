------------------------------ MODULE DemoProofs ------------------------------
(* The lists of the demo application: with its six objects and its seven tasks  *)
(* together, which list is any task on, and may it be?  Proved for every choice *)
(* of times, and every length of the queues and of the pool.                    *)
EXTENDS Demo, KernelProofs

(* The instances' copies of the kernel's operators are the kernel's own.        *)
LEMMA MutexOnKernel ==
    /\ \A q : Mutex!NobodyWaits(q) <=> NobodyWaits(q)
    /\ \A q : Mutex!WakeFirst(q) <=> WakeFirst(q)
    /\ \A point : Mutex!GoTo(point) <=> GoTo(point)
    /\ \A q : Mutex!ReturnAfterWake(q) <=> ReturnAfterWake(q)
    /\ \A type, ms, point :
          Mutex!BlockCurrent(type, ms, point) <=> BlockCurrent(type, ms, point)
    /\ \A q, t, prio : Mutex!WaitPush(q, t, prio) = WaitPush(q, t, prio)
    /\ \A q : Mutex!WaitPop(q, Mutex!Waiting) = WaitPop(q, Waiting)
    /\ \A q, t : Mutex!WaitRemove(q, t) = WaitRemove(q, t)
    /\ (Mutex!InApp <=> InApp) /\ (Mutex!Resuming <=> Resuming)
  <1>1. \A q, S : Mutex!FirstIndex(q, S) = FirstIndex(q, S)
    BY DEF Mutex!FirstIndex, FirstIndex
  <1>2. Mutex!Waiting = Waiting
    BY DEF Mutex!Waiting, Waiting, Mutex!StillWaiting, StillWaiting,
           Mutex!Tasks, Tasks, Mutex!TaskCount, TaskCount
  <1>3. \A q : Mutex!NobodyWaits(q) <=> NobodyWaits(q)
    BY <1>1, <1>2 DEF Mutex!NobodyWaits, NobodyWaits
  <1>4. \A t : Mutex!WakeTask(t) <=> WakeTask(t)
    BY DEF Mutex!WakeTask, WakeTask
  <1>5. \A q : Mutex!WakeFirst(q) <=> WakeFirst(q)
    BY <1>1, <1>2, <1>3, <1>4 DEF Mutex!WakeFirst, WakeFirst, Mutex!tcbVars, tcbVars
  <1>6. \A point : Mutex!GoTo(point) <=> GoTo(point)
    BY DEF Mutex!GoTo, GoTo
  <1>7. \A q : Mutex!ReturnAfterWake(q) <=> ReturnAfterWake(q)
    BY <1>3, <1>6 DEF Mutex!ReturnAfterWake, ReturnAfterWake
  <1>8. \A ms : Mutex!MsToTicks(ms) = MsToTicks(ms)
    BY DEF Mutex!MsToTicks, MsToTicks, Mutex!FOREVER, FOREVER
  <1>9. \A type, ms, point :
          Mutex!BlockCurrent(type, ms, point) <=> BlockCurrent(type, ms, point)
    BY <1>8 DEF Mutex!BlockCurrent, BlockCurrent
  <1>10. \A q, t, prio : Mutex!WaitPush(q, t, prio) = WaitPush(q, t, prio)
    BY <1>1 DEF Mutex!WaitPush, WaitPush, Mutex!LessUrgent, LessUrgent,
      Mutex!InsertAt, InsertAt
  <1>11. \A q : Mutex!WaitPop(q, Mutex!Waiting) = WaitPop(q, Waiting)
    BY <1>1, <1>2 DEF Mutex!WaitPop, WaitPop
  <1>12. \A q, t : Mutex!WaitRemove(q, t) = WaitRemove(q, t)
    BY <1>1 DEF Mutex!WaitRemove, WaitRemove, Mutex!RemoveAt, RemoveAt
  <1>13. (Mutex!InApp <=> InApp) /\ (Mutex!Resuming <=> Resuming)
    BY DEF Mutex!InApp, InApp, Mutex!Idle, Idle, Mutex!Resuming, Resuming
  <1> QED  BY <1>3, <1>5, <1>6, <1>7, <1>9, <1>10, <1>11, <1>12, <1>13

LEMMA QueueOnKernel ==
    /\ \A q : Queue!NobodyWaits(q) <=> NobodyWaits(q)
    /\ \A q : Queue!WakeFirst(q) <=> WakeFirst(q)
    /\ \A point : Queue!GoTo(point) <=> GoTo(point)
    /\ \A q : Queue!ReturnAfterWake(q) <=> ReturnAfterWake(q)
    /\ \A type, ms, point :
          Queue!BlockCurrent(type, ms, point) <=> BlockCurrent(type, ms, point)
    /\ \A q, t, prio : Queue!WaitPush(q, t, prio) = WaitPush(q, t, prio)
    /\ \A q : Queue!WaitPop(q, Queue!Waiting) = WaitPop(q, Waiting)
    /\ \A q, t : Queue!WaitRemove(q, t) = WaitRemove(q, t)
    /\ (Queue!InApp <=> InApp) /\ (Queue!Resuming <=> Resuming)
  <1>1. \A q, S : Queue!FirstIndex(q, S) = FirstIndex(q, S)
    BY DEF Queue!FirstIndex, FirstIndex
  <1>2. Queue!Waiting = Waiting
    BY DEF Queue!Waiting, Waiting, Queue!StillWaiting, StillWaiting,
           Queue!Tasks, Tasks, Queue!TaskCount, TaskCount
  <1>3. \A q : Queue!NobodyWaits(q) <=> NobodyWaits(q)
    BY <1>1, <1>2 DEF Queue!NobodyWaits, NobodyWaits
  <1>4. \A t : Queue!WakeTask(t) <=> WakeTask(t)
    BY DEF Queue!WakeTask, WakeTask
  <1>5. \A q : Queue!WakeFirst(q) <=> WakeFirst(q)
    BY <1>1, <1>2, <1>3, <1>4 DEF Queue!WakeFirst, WakeFirst, Queue!tcbVars, tcbVars
  <1>6. \A point : Queue!GoTo(point) <=> GoTo(point)
    BY DEF Queue!GoTo, GoTo
  <1>7. \A q : Queue!ReturnAfterWake(q) <=> ReturnAfterWake(q)
    BY <1>3, <1>6 DEF Queue!ReturnAfterWake, ReturnAfterWake
  <1>8. \A ms : Queue!MsToTicks(ms) = MsToTicks(ms)
    BY DEF Queue!MsToTicks, MsToTicks, Queue!FOREVER, FOREVER
  <1>9. \A type, ms, point :
          Queue!BlockCurrent(type, ms, point) <=> BlockCurrent(type, ms, point)
    BY <1>8 DEF Queue!BlockCurrent, BlockCurrent
  <1>10. \A q, t, prio : Queue!WaitPush(q, t, prio) = WaitPush(q, t, prio)
    BY <1>1 DEF Queue!WaitPush, WaitPush, Queue!LessUrgent, LessUrgent,
      Queue!InsertAt, InsertAt
  <1>11. \A q : Queue!WaitPop(q, Queue!Waiting) = WaitPop(q, Waiting)
    BY <1>1, <1>2 DEF Queue!WaitPop, WaitPop
  <1>12. \A q, t : Queue!WaitRemove(q, t) = WaitRemove(q, t)
    BY <1>1 DEF Queue!WaitRemove, WaitRemove, Queue!RemoveAt, RemoveAt
  <1>13. (Queue!InApp <=> InApp) /\ (Queue!Resuming <=> Resuming)
    BY DEF Queue!InApp, InApp, Queue!Idle, Idle, Queue!Resuming, Resuming
  <1> QED  BY <1>3, <1>5, <1>6, <1>7, <1>9, <1>10, <1>11, <1>12, <1>13

LEMMA TimeoutSemOnKernel ==
    /\ \A point : TimeoutSem!GoTo(point) <=> GoTo(point)
    /\ \A type, ms, point :
          TimeoutSem!BlockCurrent(type, ms, point) <=> BlockCurrent(type, ms, point)
    /\ \A q, t, prio : TimeoutSem!WaitPush(q, t, prio) = WaitPush(q, t, prio)
    /\ \A q, t : TimeoutSem!WaitRemove(q, t) = WaitRemove(q, t)
    /\ (TimeoutSem!InApp <=> InApp) /\ (TimeoutSem!Resuming <=> Resuming)
  <1>1. \A q, S : TimeoutSem!FirstIndex(q, S) = FirstIndex(q, S)
    BY DEF TimeoutSem!FirstIndex, FirstIndex
  <1>2. \A point : TimeoutSem!GoTo(point) <=> GoTo(point)
    BY DEF TimeoutSem!GoTo, GoTo
  <1>3. \A ms : TimeoutSem!MsToTicks(ms) = MsToTicks(ms)
    BY DEF TimeoutSem!MsToTicks, MsToTicks, TimeoutSem!FOREVER, FOREVER
  <1>4. \A type, ms, point :
          TimeoutSem!BlockCurrent(type, ms, point) <=> BlockCurrent(type, ms, point)
    BY <1>3 DEF TimeoutSem!BlockCurrent, BlockCurrent
  <1>5. \A q, t, prio : TimeoutSem!WaitPush(q, t, prio) = WaitPush(q, t, prio)
    BY <1>1 DEF TimeoutSem!WaitPush, WaitPush, TimeoutSem!LessUrgent, LessUrgent,
      TimeoutSem!InsertAt, InsertAt
  <1>6. \A q, t : TimeoutSem!WaitRemove(q, t) = WaitRemove(q, t)
    BY <1>1 DEF TimeoutSem!WaitRemove, WaitRemove, TimeoutSem!RemoveAt, RemoveAt
  <1>7. (TimeoutSem!InApp <=> InApp) /\ (TimeoutSem!Resuming <=> Resuming)
    BY DEF TimeoutSem!InApp, InApp, TimeoutSem!Idle, Idle, TimeoutSem!Resuming, Resuming
  <1> QED  BY <1>2, <1>4, <1>5, <1>6, <1>7

LEMMA IsrSemOnKernel ==
    /\ \A q : IsrSem!NobodyWaits(q) <=> NobodyWaits(q)
    /\ \A q : IsrSem!WakeFirst(q) <=> WakeFirst(q)
    /\ \A q : IsrSem!WaitPop(q, IsrSem!Waiting) = WaitPop(q, Waiting)
    /\ (IsrSem!InApp <=> InApp) /\ (IsrSem!Resuming <=> Resuming)
  <1>1. \A q, S : IsrSem!FirstIndex(q, S) = FirstIndex(q, S)
    BY DEF IsrSem!FirstIndex, FirstIndex
  <1>2. IsrSem!Waiting = Waiting
    BY DEF IsrSem!Waiting, Waiting, IsrSem!StillWaiting, StillWaiting,
           IsrSem!Tasks, Tasks, IsrSem!TaskCount, TaskCount
  <1>3. \A q : IsrSem!NobodyWaits(q) <=> NobodyWaits(q)
    BY <1>1, <1>2 DEF IsrSem!NobodyWaits, NobodyWaits
  <1>4. \A t : IsrSem!WakeTask(t) <=> WakeTask(t)
    BY DEF IsrSem!WakeTask, WakeTask
  <1>5. \A q : IsrSem!WakeFirst(q) <=> WakeFirst(q)
    BY <1>1, <1>2, <1>3, <1>4 DEF IsrSem!WakeFirst, WakeFirst, IsrSem!tcbVars, tcbVars
  <1>6. \A q : IsrSem!WaitPop(q, IsrSem!Waiting) = WaitPop(q, Waiting)
    BY <1>1, <1>2 DEF IsrSem!WaitPop, WaitPop
  <1>7. (IsrSem!InApp <=> InApp) /\ (IsrSem!Resuming <=> Resuming)
    BY DEF IsrSem!InApp, InApp, IsrSem!Idle, Idle, IsrSem!Resuming, Resuming
  <1> QED  BY <1>3, <1>5, <1>6, <1>7

LEMMA EventsOnKernel ==
    /\ \A t : Events!StillWaiting(t) <=> StillWaiting(t)
    /\ \A point : Events!GoTo(point) <=> GoTo(point)
    /\ \A type, ms, point :
          Events!BlockCurrent(type, ms, point) <=> BlockCurrent(type, ms, point)
    /\ \A q, t, prio : Events!WaitPush(q, t, prio) = WaitPush(q, t, prio)
    /\ \A q, t : Events!WaitRemove(q, t) = WaitRemove(q, t)
    /\ (Events!InApp <=> InApp) /\ (Events!Resuming <=> Resuming)
  <1>1. \A q, S : Events!FirstIndex(q, S) = FirstIndex(q, S)
    BY DEF Events!FirstIndex, FirstIndex
  <1>2. \A t : Events!StillWaiting(t) <=> StillWaiting(t)
    BY DEF Events!StillWaiting, StillWaiting
  <1>3. \A point : Events!GoTo(point) <=> GoTo(point)
    BY DEF Events!GoTo, GoTo
  <1>4. \A ms : Events!MsToTicks(ms) = MsToTicks(ms)
    BY DEF Events!MsToTicks, MsToTicks, Events!FOREVER, FOREVER
  <1>5. \A type, ms, point :
          Events!BlockCurrent(type, ms, point) <=> BlockCurrent(type, ms, point)
    BY <1>4 DEF Events!BlockCurrent, BlockCurrent
  <1>6. \A q, t, prio : Events!WaitPush(q, t, prio) = WaitPush(q, t, prio)
    BY <1>1 DEF Events!WaitPush, WaitPush, Events!LessUrgent, LessUrgent,
      Events!InsertAt, InsertAt
  <1>7. \A q, t : Events!WaitRemove(q, t) = WaitRemove(q, t)
    BY <1>1 DEF Events!WaitRemove, WaitRemove, Events!RemoveAt, RemoveAt
  <1>8. (Events!InApp <=> InApp) /\ (Events!Resuming <=> Resuming)
    BY DEF Events!InApp, InApp, Events!Idle, Idle, Events!Resuming, Resuming
  <1> QED  BY <1>2, <1>3, <1>5, <1>6, <1>7, <1>8

LEMMA PoolOnKernel ==
    /\ \A q, S : Pool!FirstIndex(q, S) = FirstIndex(q, S)
    /\ Pool!Waiting = Waiting
    /\ \A q : Pool!NobodyWaits(q) <=> NobodyWaits(q)
    /\ \A q : Pool!WakeFirst(q) <=> WakeFirst(q)
    /\ \A point : Pool!GoTo(point) <=> GoTo(point)
    /\ \A q : Pool!ReturnAfterWake(q) <=> ReturnAfterWake(q)
    /\ \A type, ms, point :
          Pool!BlockCurrent(type, ms, point) <=> BlockCurrent(type, ms, point)
    /\ \A q, t, prio : Pool!WaitPush(q, t, prio) = WaitPush(q, t, prio)
    /\ \A q : Pool!WaitPop(q, Pool!Waiting) = WaitPop(q, Waiting)
    /\ \A q, t : Pool!WaitRemove(q, t) = WaitRemove(q, t)
    /\ (Pool!InApp <=> InApp) /\ (Pool!Resuming <=> Resuming)
  <1>1. \A q, S : Pool!FirstIndex(q, S) = FirstIndex(q, S)
    BY DEF Pool!FirstIndex, FirstIndex
  <1>2. Pool!Waiting = Waiting
    BY DEF Pool!Waiting, Waiting, Pool!StillWaiting, StillWaiting,
           Pool!Tasks, Tasks, Pool!TaskCount, TaskCount
  <1>3. \A q : Pool!NobodyWaits(q) <=> NobodyWaits(q)
    BY <1>1, <1>2 DEF Pool!NobodyWaits, NobodyWaits
  <1>4. \A t : Pool!WakeTask(t) <=> WakeTask(t)
    BY DEF Pool!WakeTask, WakeTask
  <1>5. \A q : Pool!WakeFirst(q) <=> WakeFirst(q)
    BY <1>1, <1>2, <1>3, <1>4 DEF Pool!WakeFirst, WakeFirst, Pool!tcbVars, tcbVars
  <1>6. \A point : Pool!GoTo(point) <=> GoTo(point)
    BY DEF Pool!GoTo, GoTo
  <1>7. \A q : Pool!ReturnAfterWake(q) <=> ReturnAfterWake(q)
    BY <1>3, <1>6 DEF Pool!ReturnAfterWake, ReturnAfterWake
  <1>8. \A ms : Pool!MsToTicks(ms) = MsToTicks(ms)
    BY DEF Pool!MsToTicks, MsToTicks, Pool!FOREVER, FOREVER
  <1>9. \A type, ms, point :
          Pool!BlockCurrent(type, ms, point) <=> BlockCurrent(type, ms, point)
    BY <1>8 DEF Pool!BlockCurrent, BlockCurrent
  <1>10. \A q, t, prio : Pool!WaitPush(q, t, prio) = WaitPush(q, t, prio)
    BY <1>1 DEF Pool!WaitPush, WaitPush, Pool!LessUrgent, LessUrgent,
      Pool!InsertAt, InsertAt
  <1>11. \A q : Pool!WaitPop(q, Pool!Waiting) = WaitPop(q, Waiting)
    BY <1>1, <1>2 DEF Pool!WaitPop, WaitPop
  <1>12. \A q, t : Pool!WaitRemove(q, t) = WaitRemove(q, t)
    BY <1>1 DEF Pool!WaitRemove, WaitRemove, Pool!RemoveAt, RemoveAt
  <1>13. (Pool!InApp <=> InApp) /\ (Pool!Resuming <=> Resuming)
    BY DEF Pool!InApp, InApp, Pool!Idle, Idle, Pool!Resuming, Resuming
  <1> QED  BY <1>1, <1>2, <1>3, <1>5, <1>6, <1>7, <1>9, <1>10, <1>11, <1>12, <1>13

LEMMA WorkOnKernel ==
    /\ \A t : Work!StillWaiting(t) <=> StillWaiting(t)
    /\ \A point : Work!GoTo(point) <=> GoTo(point)
    /\ \A type, ms, point :
          Work!BlockCurrent(type, ms, point) <=> BlockCurrent(type, ms, point)
    /\ (Work!InApp <=> InApp) /\ (Work!Resuming <=> Resuming)
  <1>1. \A t : Work!StillWaiting(t) <=> StillWaiting(t)
    BY DEF Work!StillWaiting, StillWaiting
  <1>2. \A point : Work!GoTo(point) <=> GoTo(point)
    BY DEF Work!GoTo, GoTo
  <1>3. \A ms : Work!MsToTicks(ms) = MsToTicks(ms)
    BY DEF Work!MsToTicks, MsToTicks, Work!FOREVER, FOREVER
  <1>4. \A type, ms, point :
          Work!BlockCurrent(type, ms, point) <=> BlockCurrent(type, ms, point)
    BY <1>3 DEF Work!BlockCurrent, BlockCurrent
  <1>5. (Work!InApp <=> InApp) /\ (Work!Resuming <=> Resuming)
    BY DEF Work!InApp, InApp, Work!Idle, Idle, Work!Resuming, Resuming
  <1> QED  BY <1>1, <1>2, <1>4, <1>5

LEMMA SchedOnKernel ==
    /\ \A t : Sched!WakeTask(t) <=> WakeTask(t)
    /\ \A point : Sched!GoTo(point) <=> GoTo(point)
    /\ (Sched!InApp <=> InApp) /\ (Sched!Resuming <=> Resuming)
  <1>1. \A t : Sched!WakeTask(t) <=> WakeTask(t)
    BY DEF Sched!WakeTask, WakeTask
  <1>2. \A point : Sched!GoTo(point) <=> GoTo(point)
    BY DEF Sched!GoTo, GoTo
  <1>3. (Sched!InApp <=> InApp) /\ (Sched!Resuming <=> Resuming)
    BY DEF Sched!InApp, InApp, Sched!Idle, Idle, Sched!Resuming, Resuming
  <1> QED  BY <1>1, <1>2, <1>3
-------------------------------------------------------------------------------
(* The wait a task is in: nowhere outside the wait code of the objects.         *)
LockArgs == <<AppMutex, FOREVER>>
SendArgs == [op |-> "send", ms |-> FOREVER, msg |-> Message]
RecvArgs == [op |-> "recv", ms |-> FOREVER]
Place(t) ==
    IF ~InWaitCode(t) THEN "none"
    ELSE IF want[t] # <<>> THEN "mutex"
    ELSE IF call[t] # Queue!NoCall THEN call[t].op
    ELSE IF t = TimeoutTask /\ at[t] \in {"sem", "events", "alloc"} THEN at[t]
    ELSE "notify"

Places == {"mutex", "recv", "send", "sem", "isr", "events", "alloc"}
lists ==
    [p \in Places |->
        IF p = "mutex" THEN mutexWaiters[AppMutex]
        ELSE IF p = "recv" THEN recvWaiters
        ELSE IF p = "send" THEN sendWaiters
        ELSE IF p = "sem" THEN timeoutWaiters
        ELSE IF p = "isr" THEN isrWaiters
        ELSE IF p = "events" THEN eventWaiters
        ELSE poolWaiters]

(* The list q of the place p has the tasks that wait there, and some that have  *)
(* timed out there.                                                             *)
Unserved(t) == StillWaiting(t) \/ waitResult[t] = "TIMEOUT"
Listed(q, p) ==
    /\ q \in Seq(Tasks) /\ NoRepeats(q)
    /\ \A t \in Tasks :
          /\ Linked(q, t) => Place(t) = p /\ Unserved(t)
          /\ Place(t) = p /\ StillWaiting(t) => Linked(q, t)
AllListed == \A p \in Places : Listed(lists[p], p)

LEMMA ListsByPlace ==
    /\ lists["mutex"] = mutexWaiters[AppMutex] /\ lists["recv"] = recvWaiters
    /\ lists["send"] = sendWaiters /\ lists["sem"] = timeoutWaiters
    /\ lists["isr"] = isrWaiters /\ lists["events"] = eventWaiters
    /\ lists["alloc"] = poolWaiters
  BY DEF lists, Places

(* What leaves the waits of a place alone, or times one of them out, leaves its *)
(* list right.                                                                  *)
StaysAt(t, p) ==
    (Place(t) = p \/ Place(t)' = p) =>
        Place(t)' = Place(t) /\ (OnlySwitched(t) \/ TimesOut(t))

LEMMA ListKept ==
    ASSUME NEW q, NEW p, Listed(q, p), Tasks' = Tasks, \A t \in Tasks : StaysAt(t, p)
    PROVE  Listed(q, p)'
  <1>1. q \in Seq(Tasks)' /\ NoRepeats(q)'
    BY DEF Listed, NoRepeats
  <1>2. ASSUME NEW t \in Tasks
        PROVE  /\ Linked(q, t) => (Place(t) = p /\ Unserved(t))'
               /\ (Place(t) = p /\ StillWaiting(t))' => Linked(q, t)
    BY <1>2 DEF Listed, StaysAt, OnlySwitched, TimesOut, Unserved, StillWaiting, Runnable
  <1> QED  BY <1>1, <1>2 DEF Listed, Linked

LEMMA AllListsKept ==
    ASSUME AllListed, Tasks' = Tasks, lists' = lists,
           \A t \in Tasks, p \in Places : StaysAt(t, p)
    PROVE  AllListed'
  <1> SUFFICES ASSUME NEW p \in Places PROVE Listed(lists[p], p)'
    BY DEF AllListed
  <1>1. PICK q : q = lists[p]
    OBVIOUS
  <1>2. Listed(q, p)'
    BY <1>1, ListKept DEF AllListed
  <1> QED  BY <1>1, <1>2

(* One list changes, and with it only the waits of its place.                   *)
OnlyList(p) == lists' = [lists EXCEPT ![p] = lists'[p]]
LEMMA OneListChanges ==
    ASSUME AllListed, Tasks' = Tasks, NEW p \in Places, OnlyList(p),
           \A t \in Tasks, r \in Places \ {p} : StaysAt(t, r),
           NEW q, q = lists'[p], Listed(q, p)'
    PROVE  AllListed'
  <1> SUFFICES ASSUME NEW r \in Places PROVE Listed(lists[r], r)'
    BY DEF AllListed
  <1>1. CASE r = p
    BY <1>1
  <1>2. CASE r # p
    <2>1. PICK s : s = lists[r]
      OBVIOUS
    <2>2. Listed(s, r)'
      BY <1>2, <2>1, ListKept DEF AllListed
    <2>3. lists'[r] = s
      BY <1>2, <2>1 DEF OnlyList, lists
    <2> QED  BY <2>2, <2>3
  <1> QED  BY <1>1, <1>2
-------------------------------------------------------------------------------
(* A task that waits elsewhere, or nowhere, is no concern of the place p.       *)
SamePlace(t) == Place(t)' = Place(t)

(* The running task goes on the list of the place p.                            *)
LEMMA ListsAfterBlock ==
    ASSUME AllListed, Tasks' = Tasks, NEW p \in Places, OnlyList(p), NEW c \in Tasks,
           Place(c) = "none", Place(c)' = p,
           state'[c] = "BLOCKED", waitResult'[c] = "OK",
           \A t \in Tasks \ {c} : SamePlace(t) /\ SameWait(t),
           Pushed(lists'[p], lists[p], c)
    PROVE  AllListed'
  <1>1. PICK q : q = lists'[p]
    OBVIOUS
  <1>2. ASSUME NEW t \in Tasks, NEW r \in Places \ {p}
        PROVE  StaysAt(t, r)
    <2>1. CASE t = c
      BY <2>1 DEF StaysAt, Places
    <2>2. CASE t # c
      BY <2>2 DEF StaysAt, SamePlace, SameWait, OnlySwitched
    <2> QED  BY <2>1, <2>2
  <1>3. q \in Seq(Tasks)' /\ NoRepeats(q)'
    BY <1>1 DEF Pushed, NoRepeats
  <1>4. ASSUME NEW t \in Tasks
        PROVE  /\ Linked(q, t) => (Place(t) = p /\ Unserved(t))'
               /\ (Place(t) = p /\ StillWaiting(t))' => Linked(q, t)
    <2>1. Linked(q, t) <=> t = c \/ Linked(lists[p], t)
      BY <1>1 DEF Pushed
    <2>2. CASE t = c
      BY <2>1, <2>2 DEF Unserved, StillWaiting
    <2>3. CASE t # c
      <3>1. /\ Linked(lists[p], t) => Place(t) = p /\ Unserved(t)
            /\ Place(t) = p /\ StillWaiting(t) => Linked(lists[p], t)
        BY DEF AllListed, Listed
      <3> QED  BY <2>1, <2>3, <3>1 DEF SamePlace, SameWait, Unserved, StillWaiting
    <2> QED  BY <2>2, <2>3
  <1>5. Listed(q, p)'
    BY <1>3, <1>4 DEF Listed, Linked
  <1> QED  BY <1>1, <1>2, <1>5, OneListChanges

(* A task or an interrupt takes the first waiter off the list of the place p.   *)
LEMMA ListsAfterWake ==
    ASSUME AllListed, Tasks' = Tasks, Tasks \subseteq Slots, NEW p \in Places, OnlyList(p),
           \A t \in Tasks : SamePlace(t),
           \A t \in Slots : WakeEffect(lists[p], t),
           ~NobodyWaits(lists[p]) => Linked(lists[p], Chosen(lists[p])),
           Popped(lists'[p], lists[p])
    PROVE  AllListed'
  <1>1. PICK q : q = lists'[p]
    OBVIOUS
  <1>2. ASSUME NEW t \in Tasks
        PROVE  /\ Linked(lists[p], t) => Place(t) = p /\ Unserved(t)
               /\ Place(t) = p /\ StillWaiting(t) => Linked(lists[p], t)
    BY DEF AllListed, Listed
  <1>3. ASSUME NEW t \in Tasks, NEW r \in Places \ {p}
        PROVE  StaysAt(t, r)
    BY <1>2, <1>3 DEF StaysAt, SamePlace, WakeEffect, SameWait, OnlySwitched
  <1>4. q \in Seq(Tasks)' /\ NoRepeats(q)'
    BY <1>1 DEF Popped, NoRepeats
  <1>5. ASSUME NEW t \in Tasks
        PROVE  /\ Linked(q, t) => (Place(t) = p /\ Unserved(t))'
               /\ (Place(t) = p /\ StillWaiting(t))' => Linked(q, t)
    <2>1. /\ Linked(q, t) => Linked(lists[p], t)
          /\ Linked(lists[p], t) /\ StillWaiting(t) =>
                ~NobodyWaits(lists[p]) /\ (t = Chosen(lists[p]) \/ Linked(q, t))
          /\ ~NobodyWaits(lists[p]) => ~Linked(q, Chosen(lists[p]))
      BY <1>1 DEF Popped
    <2>2. WakeEffect(lists[p], t) /\ SamePlace(t)
      OBVIOUS
    <2> QED
      BY <1>2, <2>1, <2>2 DEF WakeEffect, SamePlace, SameWait, Unserved, StillWaiting
  <1>6. Listed(q, p)'
    BY <1>4, <1>5 DEF Listed, Linked
  <1> QED  BY <1>1, <1>3, <1>6, OneListChanges

(* The running task leaves the place p: served, or taken off its list.          *)
LEMMA ListsAfterWait ==
    ASSUME AllListed, Tasks' = Tasks, NEW p \in Places, OnlyList(p), NEW c \in Tasks,
           Place(c) = p, Place(c)' = "none", state[c] = "RUNNING",
           \A t \in Tasks \ {c} : SamePlace(t) /\ SameWait(t),
           \/ waitResult[c] = "OK" /\ lists'[p] = lists[p]
           \/ Removed(lists'[p], lists[p], c)
    PROVE  AllListed'
  <1>1. PICK q : q = lists'[p]
    OBVIOUS
  <1>2. ASSUME NEW t \in Tasks
        PROVE  /\ Linked(lists[p], t) => Place(t) = p /\ Unserved(t)
               /\ Place(t) = p /\ StillWaiting(t) => Linked(lists[p], t)
    BY DEF AllListed, Listed
  <1>3. ASSUME NEW t \in Tasks, NEW r \in Places \ {p}
        PROVE  StaysAt(t, r)
    <2>1. CASE t = c
      BY <2>1 DEF StaysAt, Places
    <2>2. CASE t # c
      BY <2>2 DEF StaysAt, SamePlace, SameWait, OnlySwitched
    <2> QED  BY <2>1, <2>2
  <1>4. q \in Seq(Tasks)' /\ NoRepeats(q)' /\ ~Linked(q, c)
        /\ \A t \in Tasks \ {c} : Linked(q, t) <=> Linked(lists[p], t)
    <2>1. CASE waitResult[c] = "OK" /\ lists'[p] = lists[p]
      <3>1. ~Linked(lists[p], c)
        BY <1>2, <2>1 DEF Unserved, StillWaiting
      <3>2. lists[p] \in Seq(Tasks) /\ NoRepeats(lists[p])
        BY DEF AllListed, Listed
      <3> QED  BY <1>1, <2>1, <3>1, <3>2 DEF NoRepeats
    <2>2. CASE Removed(lists'[p], lists[p], c)
      BY <1>1, <2>2 DEF Removed, NoRepeats
    <2> QED  BY <2>1, <2>2
  <1>5. ASSUME NEW t \in Tasks
        PROVE  /\ Linked(q, t) => (Place(t) = p /\ Unserved(t))'
               /\ (Place(t) = p /\ StillWaiting(t))' => Linked(q, t)
    <2>1. CASE t = c
      BY <1>4, <2>1 DEF Places
    <2>2. CASE t # c
      BY <1>2, <1>4, <2>2 DEF SamePlace, SameWait, Unserved, StillWaiting
    <2> QED  BY <2>1, <2>2
  <1>6. Listed(q, p)'
    BY <1>4, <1>5 DEF Listed, Linked
  <1> QED  BY <1>1, <1>3, <1>6, OneListChanges
-------------------------------------------------------------------------------
(* Which calls a task can be in, and what its wait type and state then are.     *)
Points == {"start", "lock", "relock", "send", "unlock", "reunlock", "sleep", "recv",
           "self", "sem", "events", "alloc", "free", "poll", "notify", "create",
           "schedlock", "yield", "schedunlock", "counted", "exit"}
ArgTypes ==
    /\ at \in [Slots -> Points]
    /\ want \in [Slots -> {<<>>, LockArgs}]
    /\ call \in [Slots -> {Queue!NoCall, SendArgs, RecvArgs}]
    /\ mutexWaiters = [m \in {AppMutex} |-> mutexWaiters[AppMutex]]
InRetry(t) == InWaitCode(t) \/ pc[t] = "retry"
CallOf(t) ==
    /\ at[t] \in {"sem", "events", "alloc"} => t = TimeoutTask
    /\ want[t] # <<>> => t \in {Producer, Consumer} /\ call[t] = Queue!NoCall
    /\ call[t] # Queue!NoCall =>
          (t = Producer /\ call[t] = SendArgs) \/ (t = Consumer /\ call[t] = RecvArgs)
NoArgs(t) == want[t] = <<>> /\ call[t] = Queue!NoCall
Placed(t) ==
    /\ CallOf(t)
    /\ NoArgs(t) \/ InRetry(t)
    /\ waitType[t] = "NOTIFICATION" <=> Place(t) = "notify"
    /\ state[t] = "BLOCKED" => waitType[t] = "SLEEP" \/ Place(t) # "none"
    /\ state[t] = "STOPPED" => pc[t] \in {"exit", "dead"}
WaitInv ==
    /\ KernelInv /\ ArgTypes /\ AllListed
    /\ \A t \in Slots : Placed(t)

LEMMA DemoFacts ==
    /\ Slots = 1 .. 6 /\ Idle = 6
    /\ {WorkTask, Producer, Consumer, TimeoutTask, OneShot} \subseteq Slots
    /\ LockArgs # <<>> /\ LockArgs[1] = AppMutex /\ LockArgs[2] = FOREVER
    /\ Queue!NoCall # SendArgs /\ Queue!NoCall # RecvArgs /\ SendArgs # RecvArgs
    /\ SendArgs.op = "send" /\ RecvArgs.op = "recv"
    /\ SendArgs.ms = FOREVER /\ RecvArgs.ms = FOREVER /\ SendArgs.msg = Message
    /\ FOREVER \in Nat
  <1>1. /\ Queue!NoCall.op = "none" /\ SendArgs.op = "send" /\ RecvArgs.op = "recv"
        /\ SendArgs.ms = FOREVER /\ RecvArgs.ms = FOREVER /\ SendArgs.msg = Message
    BY DEF Queue!NoCall, SendArgs, RecvArgs
  <1>2. Slots = 1 .. 6 /\ Idle = 6
    BY DemoAssumption DEF Slots, Idle
  <1>3. FOREVER \in Nat
    BY WordAssumption DEF FOREVER
  <1>4. LockArgs # <<>> /\ LockArgs[1] = AppMutex /\ LockArgs[2] = FOREVER
    BY DEF LockArgs
  <1> QED
    BY <1>1, <1>2, <1>3, <1>4
    DEF WorkTask, Producer, Consumer, TimeoutTask, OneShot

LEMMA TasksAreSlots ==
    ASSUME RingIsWhole
    PROVE  Tasks = Slots
  BY DemoFacts, TaskFacts

(* A task that a step leaves alone, or only switches or times out.              *)
SameArgs(t) == at'[t] = at[t] /\ want'[t] = want[t] /\ call'[t] = call[t]
Untouched(t) == SameArgs(t) /\ SameWait(t) /\ SameCode(t)

LEMMA UntouchedKeeps ==
    ASSUME NEW t \in Slots, Untouched(t)
    PROVE  SamePlace(t) /\ (Placed(t) => Placed(t)')
  <1>1. SamePlace(t) /\ (InWaitCode(t)' <=> InWaitCode(t))
    BY DEF Untouched, SameArgs, SameCode, SamePlace, Place, InWaitCode
  <1> QED
    BY <1>1 DEF Untouched, SameArgs, SameWait, SameCode, SamePlace, Placed, CallOf, NoArgs,
           InRetry

(* The step of one task that leaves the others alone.                           *)
LEMMA WaitInvAfterCall ==
    ASSUME WaitInv, KernelInv', ArgTypes', AllListed', NEW c \in Slots, Placed(c)',
           \A t \in Slots \ {c} : Untouched(t)
    PROVE  WaitInv'
  <1>1. ASSUME NEW t \in Slots PROVE Placed(t)'
    BY <1>1, UntouchedKeeps DEF WaitInv
  <1> QED  BY <1>1 DEF WaitInv

(* ... which is on no list before and after.                                    *)
LEMMA WaitInvOffLists ==
    ASSUME WaitInv, KernelInv', ArgTypes', lists' = lists, ring' = ring,
           NEW c \in Slots, Placed(c)', Place(c) \notin Places, Place(c)' \notin Places,
           \A t \in Slots \ {c} : Untouched(t)
    PROVE  WaitInv'
  <1>1. Tasks' = Tasks /\ Tasks = Slots
    BY TasksAreSlots, TasksHold DEF WaitInv, KernelInv
  <1>2. ASSUME NEW t \in Tasks, NEW p \in Places PROVE StaysAt(t, p)
    BY <1>1, UntouchedKeeps
    DEF StaysAt, Untouched, SamePlace, SameWait, OnlySwitched
  <1>3. AllListed'
    BY <1>1, <1>2, AllListsKept DEF WaitInv
  <1> QED  BY <1>3, WaitInvAfterCall

(* The running task goes on the list of the place p.                            *)
LEMMA WaitInvAfterBlock ==
    ASSUME WaitInv, KernelInv', ArgTypes', ring' = ring, NEW p \in Places, OnlyList(p),
           NEW c \in Slots, c = current, c # Idle, Placed(c)',
           Place(c) = "none", Place(c)' = p, NEW type,
           \A t \in Slots : BlockEffect(type, "block", t),
           \A t \in Slots \ {c} : SameArgs(t),
           NEW prio, lists'[p] = WaitPush(lists[p], c, prio)
    PROVE  WaitInv'
  <1>1. Tasks' = Tasks /\ Tasks = Slots /\ RingIsWhole
    BY TasksAreSlots, TasksHold DEF WaitInv, KernelInv
  <1>2. \A t \in Slots \ {c} : Untouched(t)
    BY DEF BlockEffect, Untouched
  <1>3. lists[p] \in Seq(Tasks) /\ NoRepeats(lists[p]) /\ ~Linked(lists[p], c)
    BY <1>1 DEF WaitInv, AllListed, Listed, Places
  <1>4. Pushed(lists'[p], lists[p], c)
    BY <1>1, <1>3, PushLinksAny
  <1>5. state'[c] = "BLOCKED" /\ waitResult'[c] = "OK"
    BY DEF BlockEffect
  <1>6. \A t \in Tasks \ {c} : SamePlace(t) /\ SameWait(t)
    BY <1>1, <1>2, UntouchedKeeps DEF Untouched
  <1>7. AllListed'
    BY <1>1, <1>4, <1>5, <1>6, ListsAfterBlock DEF WaitInv
  <1> QED  BY <1>2, <1>7, WaitInvAfterCall

(* A task c, or an interrupt in its place, wakes the first waiter of the place  *)
(* p; c itself is on no list.                                                   *)
LEMMA WaitInvAfterWake ==
    ASSUME WaitInv, KernelInv', ArgTypes', ring' = ring, NEW p \in Places, OnlyList(p),
           NEW c \in Slots, Placed(c)' \/ (SameCode(c) /\ SameArgs(c)),
           (Place(c) = "none" /\ Place(c)' = "none") \/ (SameCode(c) /\ SameArgs(c)),
           \A t \in Slots : WakeEffect(lists[p], t),
           \A t \in Slots \ {c} : SameCode(t) /\ SameArgs(t),
           lists'[p] = WaitPop(lists[p], Waiting) \/ Popped(lists'[p], lists[p])
    PROVE  WaitInv'
  <1>1. Tasks' = Tasks /\ Tasks = Slots /\ RingIsWhole
    BY TasksAreSlots, TasksHold DEF WaitInv, KernelInv
  <1>2. lists[p] \in Seq(Tasks) /\ NoRepeats(lists[p])
    BY DEF WaitInv, AllListed, Listed
  <1>3. Popped(lists'[p], lists[p])
    BY <1>2, PopLinks
  <1>4. ~NobodyWaits(lists[p]) => Linked(lists[p], Chosen(lists[p]))
    BY <1>2, ChosenWaits DEF WaitInv
  <1>5. ASSUME NEW t \in Slots, SameCode(t), SameArgs(t)
        PROVE  SamePlace(t) /\ (InWaitCode(t)' <=> InWaitCode(t))
    BY <1>5 DEF SameArgs, SameCode, SamePlace, Place, InWaitCode
  <1>6. \A t \in Tasks : SamePlace(t)
    BY <1>1, <1>5 DEF SamePlace
  <1>7. AllListed'
    BY <1>1, <1>3, <1>4, <1>6, ListsAfterWake DEF WaitInv
  <1>8. ASSUME NEW t \in Slots, SameCode(t), SameArgs(t) PROVE Placed(t)'
    <2>1. CASE SameWait(t)
      BY <1>8, <2>1, UntouchedKeeps DEF Untouched, WaitInv
    <2>2. CASE ~NobodyWaits(lists[p]) /\ t = Chosen(lists[p])
      <3>1. Place(t) = p /\ Placed(t)
        BY <1>1, <1>4, <2>2 DEF WaitInv, AllListed, Listed
      <3>2. /\ state'[t] = "READY" /\ waitType'[t] = "NONE"
            /\ Place(t)' # "notify" /\ (InRetry(t)' <=> InRetry(t))
        BY <1>5, <1>8, <2>2, <3>1
        DEF WakeEffect, SamePlace, Places, SameCode, InRetry
      <3> QED  BY <1>8, <3>1, <3>2 DEF Placed, CallOf, NoArgs, SameArgs
    <2>3. SameWait(t) \/ (~NobodyWaits(lists[p]) /\ t = Chosen(lists[p]))
      BY DEF WakeEffect
    <2> QED  BY <2>1, <2>2, <2>3
  <1>9. ASSUME NEW t \in Slots PROVE Placed(t)'
    BY <1>8
  <1> QED  BY <1>7, <1>9 DEF WaitInv

(* The running task ends its wait at the place p.                               *)
LEMMA WaitInvAfterWait ==
    ASSUME WaitInv, KernelInv', ArgTypes', ring' = ring, NEW p \in Places, OnlyList(p),
           NEW c \in Slots, Placed(c)', Place(c) = p, Place(c)' = "none",
           state[c] = "RUNNING", \A t \in Slots \ {c} : Untouched(t),
           \/ waitResult[c] = "OK" /\ lists'[p] = lists[p]
           \/ lists'[p] = WaitRemove(lists[p], c)
    PROVE  WaitInv'
  <1>1. Tasks' = Tasks /\ Tasks = Slots /\ RingIsWhole
    BY TasksAreSlots, TasksHold DEF WaitInv, KernelInv
  <1>2. lists[p] \in Seq(Tasks) /\ NoRepeats(lists[p])
    BY DEF WaitInv, AllListed, Listed
  <1>3. lists'[p] = WaitRemove(lists[p], c) => Removed(lists'[p], lists[p], c)
    BY <1>2, RemoveUnlinks
  <1>4. \A t \in Tasks \ {c} : SamePlace(t) /\ SameWait(t)
    BY <1>1, UntouchedKeeps DEF Untouched
  <1>5. AllListed'
    BY <1>1, <1>3, <1>4, ListsAfterWait DEF WaitInv
  <1> QED  BY <1>5, WaitInvAfterCall

(* A switch, a yield or a tick.                                                 *)
LEMMA WaitInvAfterSwitch ==
    ASSUME WaitInv, KernelInv', ArgTypes', ring' = ring, lists' = lists,
           \A t \in Slots :
               /\ SameArgs(t) /\ KernelEffect(t) /\ waitType'[t] = waitType[t]
               /\ pc[t] \in {"exit", "dead"} => pc'[t] \in {"exit", "dead"}
    PROVE  WaitInv'
  <1>1. Tasks' = Tasks /\ Tasks = Slots /\ RingIsWhole
    BY TasksAreSlots, TasksHold DEF WaitInv, KernelInv
  <1>2. ASSUME NEW t \in Slots
        PROVE  /\ SamePlace(t) /\ (InWaitCode(t)' <=> InWaitCode(t))
               /\ InRetry(t)' <=> InRetry(t)
    BY <1>2 DEF SameArgs, KernelEffect, SamePlace, Place, InRetry
  <1>3. ASSUME NEW t \in Tasks, NEW p \in Places PROVE StaysAt(t, p)
    BY <1>1, <1>2 DEF StaysAt, SamePlace, KernelEffect
  <1>4. AllListed'
    BY <1>1, <1>3, AllListsKept DEF WaitInv
  <1>5. ASSUME NEW t \in Slots PROVE Placed(t)'
    <2>1. Placed(t) /\ SamePlace(t) /\ (InRetry(t)' <=> InRetry(t)) /\ SameArgs(t)
      BY <1>2 DEF WaitInv
    <2>2. /\ state'[t] = "BLOCKED" => state[t] = "BLOCKED"
          /\ state'[t] = "STOPPED" => state[t] = "STOPPED"
      BY DEF KernelEffect, OnlySwitched, TimesOut, Runnable
    <2> QED  BY <2>1, <2>2 DEF Placed, CallOf, NoArgs, SamePlace, SameArgs
  <1> QED  BY <1>4, <1>5 DEF WaitInv

LEMMA ArgsKept ==
    ASSUME ArgTypes, UNCHANGED <<at, want, call, mutexWaiters>>
    PROVE  ArgTypes' /\ \A t \in Slots : SameArgs(t)
  BY DEF ArgTypes, SameArgs

LEMMA ListVarsKept ==
    ASSUME UNCHANGED <<mutexWaiters, recvWaiters, sendWaiters, timeoutWaiters,
                       isrWaiters, eventWaiters, poolWaiters>>
    PROVE  lists' = lists
  BY DEF lists

LEMMA SwitchKeepsWaitInv ==
    ASSUME WaitInv, PendSV \/ Yield,
           UNCHANGED <<at, want, call, mutexWaiters, recvWaiters, sendWaiters,
                       timeoutWaiters, isrWaiters, eventWaiters, poolWaiters>>
    PROVE  WaitInv'
  <1>1. /\ KernelInv' /\ ring' = ring /\ UNCHANGED waitType
        /\ \A t \in Slots : KernelEffect(t)
    BY KernelStepEffect DEF WaitInv, KernelStep
  <1>2. ASSUME NEW t \in Slots, pc[t] \in {"exit", "dead"}
        PROVE  pc'[t] \in {"exit", "dead"}
    <2>1. CASE PendSV
      BY <1>2, <2>1 DEF PendSV
    <2>2. CASE Yield
      <3>1. pc \in [Slots -> PCs]
        BY DEF WaitInv, KernelInv, KernelTypes
      <3> QED  BY <1>2, <2>2, <3>1 DEF Yield, AfterYield
    <2> QED  BY <2>1, <2>2
  <1>3. ArgTypes' /\ (\A t \in Slots : SameArgs(t)) /\ lists' = lists
    BY ArgsKept, ListVarsKept DEF WaitInv
  <1> QED  BY <1>1, <1>2, <1>3, WaitInvAfterSwitch

(* The first half of the handler of SysTick, and the end of it.                 *)
LEMMA TaskTickEffect ==
    ASSUME KernelInv, TaskTick, pendsv' \in {pendsv, TRUE}, ring' = ring,
           UNCHANGED <<current, waitType, pc>>
    PROVE  KernelInv' /\ \A t \in Slots : KernelEffect(t)
  <1>1. /\ KernelTypes /\ RingIsWhole /\ ServedRuns /\ IdleStaysOut
        /\ current \in Slots /\ Idle \in Slots
    BY TasksAreSlots, DemoFacts DEF KernelInv, KernelTypes
  <1>2. Tasks' = Tasks /\ RingIsWhole'
    BY <1>1, TasksHold
  <1>3. ASSUME NEW t \in Slots
        PROVE  OnlySwitched(t) \/ TimesOut(t)
    BY DEF TaskTick, Counting, Expiring, OnlySwitched, TimesOut
  <1>4. \A t \in Slots : KernelEffect(t)
    BY <1>3 DEF KernelEffect, InWaitCode
  <1>5. state' \in [Slots -> States] /\ waitResult' \in [Slots -> Results]
    BY <1>1 DEF TaskTick, KernelTypes, States, Results
  <1>6. delay' \in [Slots -> Nat]
    <2>1. ASSUME NEW t \in Slots
          PROVE  (IF Counting(t) THEN delay[t] - 1 ELSE delay[t]) \in Nat
      BY <1>1 DEF Counting, KernelTypes
    <2> QED  BY <2>1 DEF TaskTick
  <1>7. KernelTypes'
    BY <1>1, <1>2, <1>5, <1>6 DEF KernelTypes
  <1>8. state[current] = "RUNNING" => state'[current] = "RUNNING"
    BY <1>1 DEF TaskTick, Counting, Expiring
  <1>9. ServedRuns' /\ IdleStaysOut'
    BY <1>1, <1>3, <1>8 DEF ServedRuns, IdleStaysOut, OnlySwitched, TimesOut, Runnable
  <1> QED  BY <1>2, <1>4, <1>7, <1>9 DEF KernelInv

LEMMA TickKeepsWaitInv ==
    ASSUME WaitInv, TickBegins \/ TickEnds,
           UNCHANGED at
    PROVE  WaitInv'
  <1>1. /\ UNCHANGED <<ring, current, waitType, pc>>
        /\ UNCHANGED <<want, call, mutexWaiters, recvWaiters, sendWaiters,
                       timeoutWaiters, isrWaiters, eventWaiters, poolWaiters>>
    BY DEF TickBegins, TickEnds, OnKernel, OnWork, ringVars, tcbVars, mutexVars, queueVars,
           semVars, eventVars, poolVars
  <1>2. ArgTypes' /\ (\A t \in Slots : SameArgs(t)) /\ lists' = lists
    BY <1>1, ArgsKept, ListVarsKept DEF WaitInv
  <1>3. KernelInv' /\ \A t \in Slots : KernelEffect(t)
    <2>1. CASE TickBegins
      <3>1. TaskTick /\ pendsv' = pendsv
        BY <2>1 DEF TickBegins, OnKernel, OnWork
      <3> QED  BY <1>1, <3>1, TaskTickEffect DEF WaitInv
    <2>2. CASE TickEnds
      <3>1. pendsv' = TRUE /\ UNCHANGED <<state, delay, waitResult>>
        BY <2>2 DEF TickEnds, OnKernel, OnWork, tcbVars
      <3>2. Tasks' = Tasks /\ (RingIsWhole' <=> RingIsWhole)
        BY <1>1, TasksHold
      <3> QED
        BY <1>1, <3>1, <3>2
        DEF WaitInv, KernelInv, KernelTypes, ServedRuns, IdleStaysOut, KernelEffect,
            OnlySwitched, InWaitCode
    <2> QED  BY <2>1, <2>2
  <1> QED  BY <1>1, <1>2, <1>3, WaitInvAfterSwitch
-------------------------------------------------------------------------------
(* The ends of the running task's critical sections: it goes on, or it blocks.  *)
LEMMA WaitInvAfterReturn ==
    ASSUME WaitInv, ~pendsv, current # Idle, pc[current] \in {"app", "retry"},
           UNCHANGED <<ring, current, pendsv, state, delay, waitType, waitResult>>,
           NEW point \in PCs \ {"block", "resume"}, GoTo(point),
           ArgTypes', lists' = lists, NEW c \in Slots, c = current, CallOf(c)',
           NoArgs(c)' \/ point = "retry", \A t \in Slots \ {c} : SameArgs(t)
    PROVE  WaitInv'
  <1>1. /\ KernelTypes /\ RingIsWhole /\ IdleStaysOut /\ state[c] = "RUNNING" /\ Idle \in Slots
    BY CallerFacts, DemoFacts DEF WaitInv, KernelInv
  <1>2. /\ pc' \in [Slots -> PCs] /\ pc'[c] = point
        /\ \A t \in Slots \ {c} : pc'[t] = pc[t]
    BY <1>1 DEF GoTo, KernelTypes
  <1>3. Tasks' = Tasks /\ RingIsWhole'
    BY <1>1, TasksHold
  <1>4. KernelInv'
    BY <1>1, <1>2, <1>3 DEF KernelInv, KernelTypes, ServedRuns, IdleStaysOut
  <1>5. \A t \in Slots \ {c} : Untouched(t)
    BY <1>2 DEF Untouched, SameWait, SameCode
  <1>6. Place(c) = "none" /\ Place(c)' = "none"
    BY <1>2 DEF Place, InWaitCode
  <1>7. Placed(c)'
    <2>1. waitType[c] # "NOTIFICATION"
      BY <1>6 DEF WaitInv, Placed
    <2> QED  BY <1>1, <1>2, <1>6, <2>1 DEF Placed, InRetry
  <1> QED  BY <1>4, <1>5, <1>6, <1>7, WaitInvOffLists DEF Places

LEMMA WaitInvAfterBlocking ==
    ASSUME WaitInv, ~pendsv, current # Idle, pc[current] \in {"app", "retry"},
           UNCHANGED <<ring, current, pendsv>>,
           NEW type \in WaitTypes \ {"NOTIFICATION"}, NEW ms \in Nat,
           BlockCurrent(type, ms, "block"),
           ArgTypes', NEW c \in Slots, c = current, CallOf(c)',
           \A t \in Slots \ {c} : SameArgs(t),
           NEW p \in Places, OnlyList(p), Place(c)' = p,
           NEW prio, lists'[p] = WaitPush(lists[p], c, prio)
    PROVE  WaitInv'
  <1>1. KernelInv' /\ \A t \in Slots : BlockEffect(type, "block", t)
    BY BlockCurrentEffect DEF WaitInv
  <1>2. Place(c) = "none"
    BY DEF Place, InWaitCode
  <1>3. state'[c] = "BLOCKED" /\ waitType'[c] = type /\ pc'[c] = "block"
    BY <1>1 DEF BlockEffect
  <1>4. Placed(c)'
    BY <1>3 DEF Placed, InRetry, InWaitCode, Places
  <1> QED  BY <1>1, <1>2, <1>4, WaitInvAfterBlock

(* It wakes a waiter, or none, and goes on.                                     *)
LEMMA WaitInvAfterWaking ==
    ASSUME WaitInv, ~pendsv, current # Idle, pc[current] \in {"app", "retry"},
           UNCHANGED <<ring, current, pendsv>>, NEW p \in Places, OnlyList(p),
           WakeFirst(lists[p]), ReturnAfterWake(lists[p]),
           lists'[p] = WaitPop(lists[p], Waiting),
           ArgTypes', NEW c \in Slots, c = current, CallOf(c)', NoArgs(c)',
           \A t \in Slots \ {c} : SameArgs(t)
    PROVE  WaitInv'
  <1>1. lists[p] \in Seq(Tasks)
    BY DEF WaitInv, AllListed, Listed
  <1>2. /\ KernelInv'
        /\ \A t \in Slots : WakeEffect(lists[p], t)
        /\ \A t \in Slots \ {c} : SameCode(t)
        /\ pc'[c] \in {"app", "kick"}
        /\ ~NobodyWaits(lists[p]) => c # Chosen(lists[p])
    BY <1>1, TaskWakesEffect DEF WaitInv
  <1>3. Place(c) = "none" /\ Place(c)' = "none"
    BY <1>2 DEF Place, InWaitCode
  <1>4. Placed(c)'
    <2>1. SameWait(c) /\ state[c] = "RUNNING" /\ waitType[c] # "NOTIFICATION"
      BY <1>2, <1>3, CallerFacts DEF WakeEffect, WaitInv, Placed
    <2> QED  BY <1>3, <2>1 DEF Placed, SameWait
  <1>5. \A t \in Slots \ {c} : SameCode(t) /\ SameArgs(t)
    <2> SUFFICES ASSUME NEW t \in Slots \ {c} PROVE SameCode(t) /\ SameArgs(t)
      OBVIOUS
    <2> QED  BY <1>2
  <1>6. /\ KernelInv' /\ \A t \in Slots : WakeEffect(lists[p], t)
        /\ ring' = ring
    BY <1>2
  <1> QED  BY <1>3, <1>4, <1>5, <1>6, WaitInvAfterWake

(* It comes back from its wait.                                                 *)
LEMMA WaitInvAfterResuming ==
    ASSUME WaitInv, Resuming, UNCHANGED <<ring, current, pendsv, state, delay, waitResult>>,
           NEW point \in {"app", "retry"}, GoTo(point), NEW p \in Places, OnlyList(p),
           \/ /\ waitResult[current] = "OK" /\ lists'[p] = lists[p]
              /\ waitType' = waitType
           \/ /\ lists'[p] = WaitRemove(lists[p], current)
              /\ waitType' = [waitType EXCEPT ![current] = "NONE"],
           ArgTypes', NEW c \in Slots, c = current, CallOf(c)', Place(c) = p,
           NoArgs(c)' \/ point = "retry", \A t \in Slots \ {c} : SameArgs(t)
    PROVE  WaitInv'
  <1>1. /\ KernelInv'
        /\ \A t \in Slots \ {c} : SameWait(t) /\ SameCode(t)
        /\ state[c] = "RUNNING" /\ pc'[c] = point
    BY EndWaitEffect DEF WaitInv
  <1>2. Place(c)' = "none"
    BY <1>1 DEF Place, InWaitCode
  <1>3. Placed(c)'
    <2>1. waitType[c] # "NOTIFICATION" /\ waitType'[c] \in {waitType[c], "NONE"}
      BY DEF WaitInv, Placed, Places, KernelInv, KernelTypes
    <2> QED  BY <1>1, <1>2, <2>1 DEF Placed, InRetry
  <1>4. \A t \in Slots \ {c} : Untouched(t)
    BY <1>1 DEF Untouched
  <1> QED  BY <1>1, <1>2, <1>3, <1>4, WaitInvAfterWait
-------------------------------------------------------------------------------
(* What the calls of one object leave alone.                                    *)
KernelRest == UNCHANGED <<ring, current, pendsv>>
Moves(c) ==
    /\ at' \in [Slots -> Points] /\ \A t \in Slots \ {c} : at'[t] = at[t]
    /\ at'[c] \in {"sem", "events", "alloc"} => c = TimeoutTask
ListsBut(p) == \A r \in Places \ {p} : lists'[r] = lists[r]

LEMMA OneList ==
    ASSUME NEW p \in Places, ListsBut(p)
    PROVE  OnlyList(p) /\ (lists'[p] = lists[p] => lists' = lists)
  <1>1. lists = [r \in Places |-> lists[r]] /\ lists' = [r \in Places |-> lists'[r]]
    BY DEF lists
  <1> QED  BY <1>1 DEF OnlyList, ListsBut

LEMMA AllListsSame ==
    ASSUME \A r \in Places : lists'[r] = lists[r]
    PROVE  lists' = lists
  BY DEF lists

LEMMA MutexListOnly ==
    ASSUME UNCHANGED <<recvWaiters, sendWaiters, timeoutWaiters, isrWaiters, eventWaiters,
                       poolWaiters>>
    PROVE  ListsBut("mutex")
  BY DEF lists, ListsBut, Places

(* One pass through rtos_mutex_lock_timeout() by the producer or the consumer.  *)
LEMMA LockPassKeeps ==
    ASSUME WaitInv, NEW c \in {Producer, Consumer}, c = current, ~pendsv, current # Idle,
           pc[current] \in {"app", "retry"}, call[c] = Queue!NoCall,
           pc[current] = "app" => want[c] = <<>>,
           \/ Mutex!Acquire(AppMutex) \/ Mutex!Relock(AppMutex)
           \/ Mutex!StartWait(AppMutex, FOREVER),
           KernelRest, Moves(c), call' = call, ListsBut("mutex")
    PROVE  WaitInv'
  <1>1. /\ c \in Slots /\ "mutex" \in Places /\ OnlyList("mutex")
        /\ lists["mutex"] = mutexWaiters[AppMutex]
        /\ lists'["mutex"] = mutexWaiters'[AppMutex]
    BY DemoFacts, OneList DEF Places, lists
  <1>2. ArgTypes /\ KernelTypes /\ UNCHANGED <<ring, current, pendsv>>
    BY DEF WaitInv, KernelInv, KernelRest
  <1>3. CASE Mutex!Acquire(AppMutex) \/ Mutex!Relock(AppMutex)
    <2>1. /\ UNCHANGED <<state, delay, waitType, waitResult, mutexWaiters>>
          /\ \/ GoTo("app") /\ want' = [want EXCEPT ![c] = <<>>]
             \/ pc' = pc /\ want' = want
      BY <1>3, MutexOnKernel DEF Mutex!Acquire, Mutex!Relock, Mutex!tcbVars
    <2>2. PICK point \in {"app", "retry"} : GoTo(point) /\ (want'[c] = <<>> \/ point = "retry")
      BY <1>1, <1>2, <2>1 DEF ArgTypes, KernelTypes, GoTo
    <2>3. /\ ArgTypes' /\ \A t \in Slots \ {c} : SameArgs(t)
      BY <1>1, <1>2, <2>1 DEF ArgTypes, Moves, SameArgs
    <2>4. CallOf(c)' /\ (NoArgs(c)' \/ point = "retry")
      BY <2>2 DEF CallOf, NoArgs, Moves
    <2>5. lists' = lists
      BY <1>1, <2>1, OneList
    <2>6. point \in PCs \ {"block", "resume"}
      BY DEF PCs
    <2> QED
      BY <1>1, <1>2, <2>1, <2>2, <2>3, <2>4, <2>5, <2>6, WaitInvAfterReturn
  <1>4. CASE Mutex!StartWait(AppMutex, FOREVER)
    <2>1. /\ BlockCurrent("MUTEX", FOREVER, "block")
          /\ want' = [want EXCEPT ![c] = LockArgs]
          /\ mutexWaiters' =
                [mutexWaiters EXCEPT ![AppMutex] = WaitPush(@, c, priority)]
      BY <1>4, MutexOnKernel DEF Mutex!StartWait, LockArgs
    <2>2. /\ mutexWaiters' = [m \in {AppMutex} |-> WaitPush(mutexWaiters[AppMutex], c, priority)]
      BY <1>2, <2>1 DEF ArgTypes
    <2>3. lists'["mutex"] = WaitPush(lists["mutex"], c, priority)
      BY <1>1, <2>2
    <2>4. want' \in [Slots -> {<<>>, LockArgs}]
      BY <1>2, <2>1 DEF ArgTypes
    <2>5. want'[c] = LockArgs /\ \A t \in Slots \ {c} : want'[t] = want[t]
      BY <1>1, <1>2, <2>1 DEF ArgTypes
    <2>6. mutexWaiters' = [m \in {AppMutex} |-> mutexWaiters'[AppMutex]]
      BY <2>2
    <2>7. ArgTypes'
      BY <1>2, <2>4, <2>6 DEF ArgTypes, Moves
    <2>8. CallOf(c)' /\ \A t \in Slots \ {c} : SameArgs(t)
      BY <2>5 DEF CallOf, Moves, SameArgs
    <2>9. Place(c)' = "mutex"
      <3>1. pc'[c] = "block"
        BY <1>1, <1>2, <2>1 DEF BlockCurrent, KernelTypes
      <3> QED  BY <2>5, <3>1, DemoFacts DEF Place, InWaitCode
    <2>10. "MUTEX" \in WaitTypes \ {"NOTIFICATION"} /\ FOREVER \in Nat
      BY DemoFacts DEF WaitTypes
    <2> QED
      BY <1>1, <1>2, <2>1, <2>3, <2>7, <2>8, <2>9, <2>10, WaitInvAfterBlocking
  <1> QED  BY <1>3, <1>4

(* ... and what is left of one of its calls, or its unlock.                     *)
LEMMA LockCallKeeps ==
    ASSUME WaitInv, NEW c \in {Producer, Consumer}, c = current, Moves(c), call' = call,
           ListsBut("mutex"), Mutex!Lock(AppMutex, FOREVER)
    PROVE  WaitInv'
  <1>1. /\ InApp /\ KernelRest
        /\ \/ Mutex!Acquire(AppMutex) \/ Mutex!Relock(AppMutex)
           \/ Mutex!StartWait(AppMutex, FOREVER)
    BY MutexOnKernel DEF Mutex!Lock, Mutex!ringVars, KernelRest
  <1>2. c \in Slots /\ NoArgs(c)
    BY <1>1, DemoFacts DEF WaitInv, Placed, InRetry, InWaitCode, InApp
  <1> QED  BY <1>1, <1>2, LockPassKeeps DEF InApp, NoArgs

LEMMA UnlockKeeps ==
    ASSUME WaitInv, NEW c \in {Producer, Consumer}, c = current, Moves(c), call' = call,
           ListsBut("mutex"), Mutex!Unlock(AppMutex)
    PROVE  WaitInv'
  <1>1. /\ InApp /\ UNCHANGED <<ring, current, pendsv, want>>
        /\ Mutex!UnlockInner(AppMutex) \/ Mutex!UnlockOuter(AppMutex)
    BY MutexOnKernel DEF Mutex!Unlock, Mutex!ringVars
  <1>2. /\ c \in Slots /\ NoArgs(c) /\ "mutex" \in Places /\ OnlyList("mutex")
        /\ lists["mutex"] = mutexWaiters[AppMutex]
        /\ lists'["mutex"] = mutexWaiters'[AppMutex]
        /\ ArgTypes /\ KernelTypes
    BY <1>1, DemoFacts, OneList
    DEF WaitInv, KernelInv, Placed, InRetry, InWaitCode, InApp, Places, lists
  <1>3. CallOf(c)' /\ NoArgs(c)' /\ \A t \in Slots \ {c} : SameArgs(t)
    BY <1>1, <1>2 DEF CallOf, NoArgs, Moves, SameArgs
  <1>4. CASE Mutex!UnlockInner(AppMutex)
    <2>1. UNCHANGED <<state, delay, waitType, waitResult, pc, mutexWaiters>>
      BY <1>4 DEF Mutex!UnlockInner, Mutex!tcbVars
    <2>2. GoTo("app") /\ ArgTypes' /\ "app" \in PCs \ {"block", "resume"}
      BY <1>1, <1>2, <2>1 DEF KernelTypes, GoTo, InApp, ArgTypes, Moves, PCs
    <2>3. lists' = lists
      BY <1>2, <2>1, OneList
    <2> QED  BY <1>1, <1>2, <1>3, <2>1, <2>2, <2>3, WaitInvAfterReturn DEF InApp
  <1>5. CASE Mutex!UnlockOuter(AppMutex)
    <2>1. /\ WakeFirst(mutexWaiters[AppMutex]) /\ ReturnAfterWake(mutexWaiters[AppMutex])
          /\ mutexWaiters' = [mutexWaiters EXCEPT ![AppMutex] = WaitPop(@, Waiting)]
      BY <1>5, MutexOnKernel DEF Mutex!UnlockOuter
    <2>2. mutexWaiters' = [m \in {AppMutex} |-> WaitPop(mutexWaiters[AppMutex], Waiting)]
      BY <1>2, <2>1 DEF ArgTypes
    <2>3. mutexWaiters' = [m \in {AppMutex} |-> mutexWaiters'[AppMutex]]
      BY <2>2
    <2>4. ArgTypes'
      BY <1>1, <1>2, <2>3 DEF ArgTypes, Moves
    <2>5. /\ lists'["mutex"] = WaitPop(lists["mutex"], Waiting)
          /\ WakeFirst(lists["mutex"]) /\ ReturnAfterWake(lists["mutex"])
      BY <1>2, <2>1, <2>2
    <2> QED  BY <1>1, <1>2, <1>3, <2>4, <2>5, WaitInvAfterWaking DEF InApp
  <1> QED  BY <1>1, <1>4, <1>5

LEMMA LockRestKeeps ==
    ASSUME WaitInv, want[current] # <<>>, UNCHANGED <<at, call>>, ListsBut("mutex"),
           Mutex!EndWait \/ Mutex!Retry
    PROVE  WaitInv'
  <1> DEFINE c == current
  <1>1. /\ c \in Slots /\ KernelTypes /\ ArgTypes /\ Placed(c)
        /\ "mutex" \in Places /\ OnlyList("mutex")
        /\ lists["mutex"] = mutexWaiters[AppMutex]
        /\ lists'["mutex"] = mutexWaiters'[AppMutex]
    BY DemoFacts, TasksAreSlots, OneList DEF WaitInv, KernelInv, KernelTypes, Places, lists
  <1>2. /\ c \in {Producer, Consumer} /\ call[c] = Queue!NoCall
        /\ want[c] = LockArgs /\ want[c][1] = AppMutex /\ want[c][2] = FOREVER
    BY <1>1, DemoFacts DEF Placed, CallOf, ArgTypes
  <1>3. PICK d \in {Producer, Consumer} : d = current
    BY <1>2
  <1>4. Moves(d)
    BY <1>1, <1>2, <1>3 DEF Moves, ArgTypes, Placed, CallOf
  <1>5. CASE Mutex!Retry
    <2>1. /\ ~pendsv /\ pc[current] = "retry" /\ KernelRest
          /\ \/ Mutex!Acquire(AppMutex) \/ Mutex!Relock(AppMutex)
             \/ Mutex!StartWait(AppMutex, FOREVER)
      BY <1>2, <1>5 DEF Mutex!Retry, Mutex!ringVars, KernelRest
    <2>2. current # Idle
      BY <2>1, CallerFacts DEF WaitInv
    <2> QED  BY <1>2, <1>3, <1>4, <2>1, <2>2, LockPassKeeps
  <1>6. CASE Mutex!EndWait
    <2>1. /\ Resuming
          /\ UNCHANGED <<ring, current, pendsv, state, delay, waitResult>>
          /\ Mutex!TimedOut \/ Mutex!Woken
      BY <1>6, MutexOnKernel DEF Mutex!EndWait, Mutex!ringVars
    <2>2. Place(d) = "mutex" /\ d \in Slots /\ \A t \in Slots \ {d} : at'[t] = at[t]
      BY <1>1, <1>2, <1>3, <2>1 DEF Place, InWaitCode, Resuming
    <2>3. CASE Mutex!Woken
      <3>1. /\ waitResult[current] = "OK" /\ GoTo("retry")
            /\ UNCHANGED <<mutexWaiters, waitType, want>>
        BY <2>3, MutexOnKernel DEF Mutex!Woken
      <3>2. /\ ArgTypes' /\ lists'["mutex"] = lists["mutex"] /\ CallOf(d)'
            /\ \A t \in Slots \ {d} : SameArgs(t)
        BY <1>1, <1>3, <2>2, <3>1 DEF ArgTypes, Placed, CallOf, SameArgs
      <3> QED  BY <1>1, <1>3, <2>1, <2>2, <3>1, <3>2, WaitInvAfterResuming
    <2>4. CASE Mutex!TimedOut
      <3>1. /\ GoTo("app")
            /\ waitType' = [waitType EXCEPT ![current] = "NONE"]
            /\ want' = [want EXCEPT ![d] = <<>>]
            /\ mutexWaiters' = [mutexWaiters EXCEPT ![AppMutex] = WaitRemove(@, current)]
        BY <1>2, <1>3, <2>4, MutexOnKernel DEF Mutex!TimedOut
      <3>2. mutexWaiters' =
                [m \in {AppMutex} |-> WaitRemove(mutexWaiters[AppMutex], current)]
        BY <1>1, <3>1 DEF ArgTypes
      <3>3. mutexWaiters' = [m \in {AppMutex} |-> mutexWaiters'[AppMutex]]
        BY <3>2
      <3>4. /\ want' \in [Slots -> {<<>>, LockArgs}] /\ want'[d] = <<>>
            /\ \A t \in Slots \ {d} : want'[t] = want[t]
        BY <1>1, <2>2, <3>1 DEF ArgTypes
      <3>5. ArgTypes' /\ lists'["mutex"] = WaitRemove(lists["mutex"], current)
        BY <1>1, <3>2, <3>3, <3>4 DEF ArgTypes
      <3>6. CallOf(d)' /\ NoArgs(d)' /\ \A t \in Slots \ {d} : SameArgs(t)
        BY <1>1, <1>2, <1>3, <2>2, <3>4 DEF Placed, CallOf, NoArgs, SameArgs
      <3> QED  BY <1>1, <1>3, <2>1, <2>2, <3>1, <3>5, <3>6, WaitInvAfterResuming
    <2> QED  BY <2>1, <2>3, <2>4
  <1> QED  BY <1>5, <1>6

(* One pass through the loop of a send or a receive, in either order of lists.  *)
LEMMA QueueListsOnly ==
    ASSUME UNCHANGED <<mutexWaiters, timeoutWaiters, isrWaiters, eventWaiters, poolWaiters>>
    PROVE  /\ sendWaiters' = sendWaiters => ListsBut("recv")
           /\ recvWaiters' = recvWaiters => ListsBut("send")
  BY DEF lists, ListsBut, Places

IsCall(c, k) == (c = Producer /\ k = SendArgs) \/ (c = Consumer /\ k = RecvArgs)
OtherLists ==
    UNCHANGED <<mutexWaiters, timeoutWaiters, isrWaiters, eventWaiters, poolWaiters>>

LEMMA QueuePassKeeps ==
    ASSUME WaitInv, NEW c \in {Producer, Consumer}, c = current, ~pendsv, current # Idle,
           pc[current] \in {"app", "retry"}, NEW k \in {SendArgs, RecvArgs}, IsCall(c, k),
           want[c] = <<>>, want' = want, Queue!Pass(k),
           KernelRest, Moves(c), OtherLists
    PROVE  WaitInv'
  <1>1. /\ c \in Slots /\ ArgTypes /\ KernelTypes /\ UNCHANGED <<ring, current, pendsv>>
        /\ mutexWaiters' = mutexWaiters /\ {"recv", "send"} \subseteq Places
        /\ lists["recv"] = recvWaiters /\ lists["send"] = sendWaiters
        /\ lists'["recv"] = recvWaiters' /\ lists'["send"] = sendWaiters'
    BY DemoFacts DEF WaitInv, KernelInv, KernelRest, Places, lists, OtherLists
  <1>2. /\ sendWaiters' = sendWaiters => OnlyList("recv")
        /\ recvWaiters' = recvWaiters => OnlyList("send")
    BY <1>1, QueueListsOnly, OneList DEF OtherLists
  <1>3. ASSUME NEW p \in {"recv", "send"}, OnlyList(p), WakeFirst(lists[p]),
               ReturnAfterWake(lists[p]), lists'[p] = WaitPop(lists[p], Waiting),
               call' = [call EXCEPT ![c] = Queue!NoCall]
        PROVE  WaitInv'
    <2>1. /\ call' \in [Slots -> {Queue!NoCall, SendArgs, RecvArgs}]
          /\ call'[c] = Queue!NoCall /\ \A t \in Slots \ {c} : call'[t] = call[t]
      BY <1>1, <1>3 DEF ArgTypes
    <2>2. ArgTypes'
      BY <1>1, <2>1 DEF ArgTypes, Moves
    <2>3. CallOf(c)' /\ NoArgs(c)' /\ \A t \in Slots \ {c} : SameArgs(t)
      BY <1>1, <2>1 DEF CallOf, NoArgs, Moves, SameArgs
    <2>4. p \in Places
      BY <1>1
    <2> QED  BY <1>1, <1>3, <2>2, <2>3, <2>4, WaitInvAfterWaking
  <1>4. ASSUME NEW p \in {"recv", "send"}, OnlyList(p), k.op = p,
               BlockCurrent("QUEUE", k.ms, "block"),
               lists'[p] = WaitPush(lists[p], c, priority),
               call' = [call EXCEPT ![c] = k]
        PROVE  WaitInv'
    <2>1. /\ call' \in [Slots -> {Queue!NoCall, SendArgs, RecvArgs}]
          /\ call'[c] = k /\ \A t \in Slots \ {c} : call'[t] = call[t]
      BY <1>1, <1>4 DEF ArgTypes
    <2>2. ArgTypes'
      BY <1>1, <2>1 DEF ArgTypes, Moves
    <2>3. CallOf(c)' /\ \A t \in Slots \ {c} : SameArgs(t)
      BY <1>1, <2>1 DEF CallOf, Moves, SameArgs, IsCall
    <2>4. Place(c)' = p
      <3>1. pc'[c] = "block"
        BY <1>1, <1>4 DEF BlockCurrent, KernelTypes
      <3>2. k # Queue!NoCall
        BY DemoFacts
      <3> QED  BY <1>4, <2>1, <3>1, <3>2 DEF Place, InWaitCode
    <2>5. "QUEUE" \in WaitTypes \ {"NOTIFICATION"} /\ k.ms \in Nat /\ p \in Places
      BY <1>1, DemoFacts DEF WaitTypes
    <2> QED
      BY <1>1, <1>4, <2>2, <2>3, <2>4, <2>5, WaitInvAfterBlocking
  <1>5. CASE k = SendArgs
    <2>1. /\ k.op = "send" /\ k.ms = FOREVER
          /\ \/ Queue!Enqueue(Message) /\ Queue!FinishCall(recvWaiters)
             \/ /\ Queue!StartWait(k) /\ recvWaiters' = recvWaiters
                /\ sendWaiters' = WaitPush(sendWaiters, c, priority)
      BY <1>5, DemoFacts, QueueOnKernel DEF Queue!Pass, Queue!SendPass
    <2>2. CASE Queue!Enqueue(Message) /\ Queue!FinishCall(recvWaiters)
      <3>1. /\ WakeFirst(recvWaiters) /\ ReturnAfterWake(recvWaiters)
            /\ recvWaiters' = WaitPop(recvWaiters, Waiting) /\ sendWaiters' = sendWaiters
            /\ call' = [call EXCEPT ![c] = Queue!NoCall]
        BY <2>2, QueueOnKernel DEF Queue!Enqueue, Queue!FinishCall
      <3> QED  BY <1>1, <1>2, <1>3, <3>1
    <2>3. CASE /\ Queue!StartWait(k) /\ recvWaiters' = recvWaiters
               /\ sendWaiters' = WaitPush(sendWaiters, c, priority)
      <3>1. BlockCurrent("QUEUE", k.ms, "block") /\ call' = [call EXCEPT ![c] = k]
        BY <2>3, QueueOnKernel DEF Queue!StartWait
      <3> QED  BY <1>1, <1>2, <1>4, <2>1, <2>3, <3>1
    <2> QED  BY <2>1, <2>2, <2>3
  <1>6. CASE k = RecvArgs
    <2>1. /\ k.op = "recv" /\ k.ms = FOREVER
          /\ \/ Queue!Dequeue /\ Queue!FinishCall(sendWaiters)
             \/ /\ Queue!StartWait(k) /\ sendWaiters' = sendWaiters
                /\ recvWaiters' = WaitPush(recvWaiters, c, priority)
      BY <1>6, DemoFacts, QueueOnKernel DEF Queue!Pass, Queue!RecvPass
    <2>2. CASE Queue!Dequeue /\ Queue!FinishCall(sendWaiters)
      <3>1. /\ WakeFirst(sendWaiters) /\ ReturnAfterWake(sendWaiters)
            /\ sendWaiters' = WaitPop(sendWaiters, Waiting) /\ recvWaiters' = recvWaiters
            /\ call' = [call EXCEPT ![c] = Queue!NoCall]
        BY <2>2, QueueOnKernel DEF Queue!Dequeue, Queue!FinishCall
      <3> QED  BY <1>1, <1>2, <1>3, <3>1
    <2>3. CASE /\ Queue!StartWait(k) /\ sendWaiters' = sendWaiters
               /\ recvWaiters' = WaitPush(recvWaiters, c, priority)
      <3>1. BlockCurrent("QUEUE", k.ms, "block") /\ call' = [call EXCEPT ![c] = k]
        BY <2>3, QueueOnKernel DEF Queue!StartWait
      <3> QED  BY <1>1, <1>2, <1>4, <2>1, <2>3, <3>1
    <2> QED  BY <2>1, <2>2, <2>3
  <1> QED  BY <1>5, <1>6

LEMMA QueueCallKeeps ==
    ASSUME WaitInv, NEW c \in {Producer, Consumer}, c = current,
           NEW k \in {SendArgs, RecvArgs}, IsCall(c, k), Queue!Call(k),
           want' = want, Moves(c), OtherLists
    PROVE  WaitInv'
  <1>1. InApp /\ KernelRest /\ Queue!Pass(k)
    BY QueueOnKernel DEF Queue!Call, Queue!ringVars, KernelRest
  <1>2. c \in Slots /\ NoArgs(c)
    BY <1>1, DemoFacts DEF WaitInv, Placed, InRetry, InWaitCode, InApp
  <1> QED  BY <1>1, <1>2, QueuePassKeeps DEF InApp, NoArgs

LEMMA QueueRestKeeps ==
    ASSUME WaitInv, call[current] # Queue!NoCall, UNCHANGED <<at, want>>, OtherLists,
           Queue!EndWait \/ Queue!Retry
    PROVE  WaitInv'
  <1>1. /\ current \in Slots /\ KernelTypes /\ ArgTypes /\ Placed(current)
        /\ mutexWaiters' = mutexWaiters /\ {"recv", "send"} \subseteq Places
        /\ lists["recv"] = recvWaiters /\ lists["send"] = sendWaiters
        /\ lists'["recv"] = recvWaiters' /\ lists'["send"] = sendWaiters'
    BY DemoFacts, TasksAreSlots DEF WaitInv, KernelInv, KernelTypes, Places, lists, OtherLists
  <1>2. /\ sendWaiters' = sendWaiters => OnlyList("recv")
        /\ recvWaiters' = recvWaiters => OnlyList("send")
    BY <1>1, QueueListsOnly, OneList DEF OtherLists
  <1>3. PICK d \in {Producer, Consumer}, k \in {SendArgs, RecvArgs} :
            d = current /\ IsCall(d, k) /\ call[d] = k /\ want[d] = <<>>
    BY <1>1 DEF Placed, CallOf, IsCall
  <1>4. Moves(d) /\ d \in Slots
    BY <1>1, <1>3 DEF Moves, ArgTypes, Placed, CallOf
  <1>5. CASE Queue!Retry
    <2>1. ~pendsv /\ pc[current] = "retry" /\ KernelRest /\ Queue!Pass(k)
      BY <1>3, <1>5 DEF Queue!Retry, Queue!ringVars, KernelRest
    <2>2. current # Idle
      BY <2>1, CallerFacts DEF WaitInv
    <2> QED  BY <1>3, <1>4, <2>1, <2>2, QueuePassKeeps
  <1>6. CASE Queue!EndWait
    <2>1. /\ Resuming
          /\ UNCHANGED <<ring, current, pendsv, state, delay, waitResult>>
          /\ Queue!TimedOut \/ Queue!Woken
      BY <1>6, QueueOnKernel DEF Queue!EndWait, Queue!ringVars
    <2>2. Place(d) = k.op /\ k.op \in {"recv", "send"} /\ \A t \in Slots \ {d} : at'[t] = at[t]
      BY <1>1, <1>3, <2>1, DemoFacts DEF Place, InWaitCode, Resuming
    <2>3. CASE Queue!Woken
      <3>1. /\ waitResult[current] = "OK" /\ GoTo("retry")
            /\ UNCHANGED <<recvWaiters, sendWaiters, waitType, call>>
        BY <2>3, QueueOnKernel DEF Queue!Woken
      <3>2. /\ ArgTypes' /\ CallOf(d)' /\ \A t \in Slots \ {d} : SameArgs(t)
        BY <1>1, <1>3, <2>2, <3>1 DEF ArgTypes, Placed, CallOf, SameArgs
      <3>3. OnlyList(k.op) /\ lists'[k.op] = lists[k.op] /\ k.op \in Places
        BY <1>1, <1>2, <2>2, <3>1
      <3> QED  BY <1>1, <1>3, <1>4, <2>1, <2>2, <3>1, <3>2, <3>3, WaitInvAfterResuming
    <2>4. CASE Queue!TimedOut
      <3>1. /\ GoTo("app")
            /\ waitType' = [waitType EXCEPT ![current] = "NONE"]
            /\ call' = [call EXCEPT ![d] = Queue!NoCall]
            /\ IF k.op = "send"
               THEN /\ sendWaiters' = WaitRemove(sendWaiters, current)
                    /\ recvWaiters' = recvWaiters
               ELSE /\ recvWaiters' = WaitRemove(recvWaiters, current)
                    /\ sendWaiters' = sendWaiters
        BY <1>3, <2>4, QueueOnKernel DEF Queue!TimedOut
      <3>2. /\ OnlyList(k.op) /\ lists'[k.op] = WaitRemove(lists[k.op], current)
            /\ k.op \in Places
        BY <1>1, <1>2, <2>2, <3>1
      <3>3. /\ call' \in [Slots -> {Queue!NoCall, SendArgs, RecvArgs}]
            /\ call'[d] = Queue!NoCall /\ \A t \in Slots \ {d} : call'[t] = call[t]
        BY <1>1, <1>4, <3>1 DEF ArgTypes
      <3>4. ArgTypes'
        BY <1>1, <3>3 DEF ArgTypes
      <3>5. CallOf(d)' /\ NoArgs(d)' /\ \A t \in Slots \ {d} : SameArgs(t)
        BY <1>1, <1>3, <2>2, <3>3 DEF Placed, CallOf, NoArgs, SameArgs
      <3> QED
        BY <1>1, <1>3, <1>4, <2>1, <2>2, <3>1, <3>2, <3>4, <3>5, WaitInvAfterResuming
    <2> QED  BY <2>1, <2>3, <2>4
  <1> QED  BY <1>5, <1>6
-------------------------------------------------------------------------------
(* The calls that touch no list, and the waits of the timeout task.             *)
NoListMoves ==
    UNCHANGED <<mutexWaiters, recvWaiters, sendWaiters, timeoutWaiters, isrWaiters,
                eventWaiters, poolWaiters>>

LEMMA PlainCallKeeps ==
    ASSUME WaitInv, InApp, NEW c \in Slots, c = current, Moves(c), KernelRest,
           UNCHANGED <<state, delay, waitType, waitResult, want, call>>, NoListMoves,
           NEW point \in {"app", "kick"}, GoTo(point)
    PROVE  WaitInv'
  <1>1. /\ ~pendsv /\ current # Idle /\ pc[current] \in {"app", "retry"}
        /\ UNCHANGED <<ring, current, pendsv, state, delay, waitType, waitResult>>
        /\ point \in PCs \ {"block", "resume"}
    BY DEF InApp, KernelRest, PCs
  <1>2. ArgTypes' /\ \A t \in Slots \ {c} : SameArgs(t)
    BY DEF WaitInv, ArgTypes, Moves, SameArgs, NoListMoves
  <1>3. lists' = lists
    BY ListVarsKept DEF NoListMoves
  <1>4. CallOf(c)' /\ NoArgs(c)'
    BY DEF WaitInv, Placed, InRetry, InWaitCode, InApp, CallOf, NoArgs, Moves
  <1> QED  BY <1>1, <1>2, <1>3, <1>4, WaitInvAfterReturn

LEMMA SilentCallKeeps ==
    ASSUME WaitInv, InApp, NEW c \in Slots, c = current, Moves(c),
           UNCHANGED kernelVars, UNCHANGED <<want, call>>, NoListMoves
    PROVE  WaitInv'
  <1>1. KernelRest /\ UNCHANGED <<state, delay, waitType, waitResult>> /\ GoTo("app")
    BY DEF kernelVars, ringVars, tcbVars, KernelRest, GoTo, InApp, WaitInv, KernelInv,
           KernelTypes
  <1> QED  BY <1>1, PlainCallKeeps

Waits == {"sem", "events", "alloc"}
WaitTypeAt(p) == IF p = "sem" THEN "SEM" ELSE IF p = "events" THEN "EVENT" ELSE "MEMPOOL"

LEMMA WaiterBlocks ==
    ASSUME WaitInv, InApp, current = TimeoutTask, NEW p \in Waits, NEW ms \in Nat,
           BlockCurrent(WaitTypeAt(p), ms, "block"), KernelRest,
           Moves(TimeoutTask), at'[TimeoutTask] = p, UNCHANGED <<want, call, mutexWaiters>>,
           ListsBut(p), lists'[p] = WaitPush(lists[p], current, priority)
    PROVE  WaitInv'
  <1> DEFINE c == TimeoutTask
  <1>1. /\ c \in Slots /\ p \in Places /\ OnlyList(p) /\ ArgTypes /\ KernelTypes
        /\ ~pendsv /\ current # Idle /\ pc[current] = "app" /\ NoArgs(c)
        /\ UNCHANGED <<ring, current, pendsv>>
    BY DemoFacts, OneList
    DEF Waits, Places, WaitInv, KernelInv, InApp, KernelRest, Placed, InRetry, InWaitCode
  <1>2. ArgTypes' /\ CallOf(c)' /\ \A t \in Slots \ {c} : SameArgs(t)
    BY <1>1 DEF ArgTypes, Moves, CallOf, NoArgs, SameArgs
  <1>3. Place(c)' = p
    <2>1. pc'[c] = "block"
      BY <1>1 DEF BlockCurrent, KernelTypes
    <2> QED  BY <1>1, <2>1 DEF Place, InWaitCode, NoArgs, Waits
  <1>4. WaitTypeAt(p) \in WaitTypes \ {"NOTIFICATION"}
    BY DEF WaitTypeAt, WaitTypes
  <1>5. lists'[p] = WaitPush(lists[p], c, priority)
    OBVIOUS
  <1> QED  BY <1>1, <1>2, <1>3, <1>4, <1>5, WaitInvAfterBlocking

LEMMA WaiterReturns ==
    ASSUME WaitInv, Resuming, NEW p \in Waits, at[current] = p, at' = at,
           UNCHANGED <<ring, current, pendsv, state, delay, waitResult>>,
           NEW point \in {"app", "retry"}, GoTo(point),
           \/ /\ waitResult[current] = "OK" /\ lists'[p] = lists[p]
              /\ waitType' = waitType
           \/ /\ lists'[p] = WaitRemove(lists[p], current)
              /\ waitType' = [waitType EXCEPT ![current] = "NONE"],
           UNCHANGED <<want, call, mutexWaiters>>, ListsBut(p)
    PROVE  WaitInv'
  <1>1. /\ current \in Slots /\ p \in Places /\ OnlyList(p) /\ ArgTypes /\ pc[current] = "resume"
        /\ Placed(current)
    BY DemoFacts, TasksAreSlots, OneList
    DEF Waits, Places, WaitInv, KernelInv, KernelTypes, Resuming
  <1>2. current = TimeoutTask /\ NoArgs(current)
    BY <1>1, DemoFacts DEF Placed, CallOf, Waits, NoArgs, TimeoutTask, Producer, Consumer
  <1>3. PICK c \in Slots : c = current
    BY <1>1
  <1>4. ArgTypes' /\ CallOf(c)' /\ NoArgs(c)' /\ \A t \in Slots \ {c} : SameArgs(t)
    BY <1>1, <1>2, <1>3 DEF ArgTypes, Placed, CallOf, NoArgs, SameArgs
  <1>5. Place(c) = p
    BY <1>1, <1>2, <1>3 DEF Place, InWaitCode, NoArgs, Waits
  <1> QED  BY <1>1, <1>3, <1>4, <1>5, WaitInvAfterResuming

(* rtos_sem_wait_timeout(), rtos_event_flags_wait() and the two calls on the    *)
(* pool, and their second halves.                                               *)
LEMMA TimeoutSemKeeps ==
    ASSUME WaitInv, UNCHANGED <<want, call, mutexWaiters, recvWaiters, sendWaiters,
                                isrWaiters, eventWaiters, poolWaiters>>,
           \/ /\ TimeoutSem!TakeToken \/ TimeoutSem!StartWait(SemTimeout)
              /\ current = TimeoutTask /\ at' = [at EXCEPT ![TimeoutTask] = "sem"]
           \/ TimeoutSem!EndWait /\ at[current] = "sem" /\ at' = at
    PROVE  WaitInv'
  <1>1. /\ ListsBut("sem") /\ lists["sem"] = timeoutWaiters /\ lists'["sem"] = timeoutWaiters'
        /\ "sem" \in Waits /\ WaitTypeAt("sem") = "SEM" /\ TimeoutTask \in Slots
        /\ ArgTypes /\ KernelTypes /\ SemTimeout \in Nat
    BY DemoFacts, DemoAssumption
    DEF ListsBut, lists, Places, Waits, WaitTypeAt, WaitInv, KernelInv
  <1>2. CASE /\ TimeoutSem!TakeToken \/ TimeoutSem!StartWait(SemTimeout)
             /\ current = TimeoutTask /\ at' = [at EXCEPT ![TimeoutTask] = "sem"]
    <2>1. Moves(TimeoutTask) /\ at'[TimeoutTask] = "sem"
      BY <1>1, <1>2 DEF Moves, ArgTypes, Points
    <2>2. CASE TimeoutSem!TakeToken
      <3>1. InApp /\ UNCHANGED kernelVars /\ NoListMoves
        BY <2>2, TimeoutSemOnKernel
        DEF TimeoutSem!TakeToken, TimeoutSem!kernelVars, kernelVars, NoListMoves,
            TimeoutSem!ringVars, TimeoutSem!lockVars, TimeoutSem!tcbVars, ringVars, lockVars,
            tcbVars
      <3> QED  BY <1>1, <1>2, <2>1, <3>1, SilentCallKeeps
    <2>3. CASE TimeoutSem!StartWait(SemTimeout)
      <3>1. /\ InApp /\ BlockCurrent("SEM", SemTimeout, "block") /\ KernelRest
            /\ lists'["sem"] = WaitPush(lists["sem"], current, priority)
        BY <1>1, <2>3, TimeoutSemOnKernel
        DEF TimeoutSem!StartWait, TimeoutSem!ringVars, KernelRest
      <3>2. BlockCurrent(WaitTypeAt("sem"), SemTimeout, "block")
        BY <1>1, <3>1
      <3> QED  BY <1>1, <1>2, <2>1, <3>1, <3>2, WaiterBlocks
    <2> QED  BY <1>2, <2>2, <2>3
  <1>3. CASE TimeoutSem!EndWait /\ at[current] = "sem" /\ at' = at
    <2>1. /\ Resuming /\ GoTo("app")
          /\ UNCHANGED <<ring, current, pendsv, state, delay, waitResult>>
          /\ IF waitResult[current] = "TIMEOUT"
             THEN /\ lists'["sem"] = WaitRemove(lists["sem"], current)
                  /\ waitType' = [waitType EXCEPT ![current] = "NONE"]
             ELSE lists'["sem"] = lists["sem"] /\ waitType' = waitType
      BY <1>1, <1>3, TimeoutSemOnKernel DEF TimeoutSem!EndWait, TimeoutSem!ringVars
    <2>2. waitResult[current] \in {"OK", "TIMEOUT"}
      BY <1>1, TasksAreSlots DEF KernelTypes, Results, WaitInv, KernelInv
    <2> QED  BY <1>1, <1>3, <2>1, <2>2, WaiterReturns
  <1> QED  BY <1>2, <1>3

LEMMA EventsKeep ==
    ASSUME WaitInv, UNCHANGED <<want, call, mutexWaiters, recvWaiters, sendWaiters,
                                isrWaiters, timeoutWaiters, poolWaiters>>,
           \/ /\ Events!TakeFlags(OneFlag) \/ Events!StartWait(OneFlag, WaitTimeout)
              /\ current = TimeoutTask /\ at' = [at EXCEPT ![TimeoutTask] = "events"]
           \/ Events!EndWait /\ at[current] = "events" /\ at' = at
    PROVE  WaitInv'
  <1>1. /\ ListsBut("events") /\ lists["events"] = eventWaiters
        /\ lists'["events"] = eventWaiters'
        /\ "events" \in Waits /\ WaitTypeAt("events") = "EVENT" /\ TimeoutTask \in Slots
        /\ ArgTypes /\ KernelTypes /\ WaitTimeout \in Nat
    BY DemoFacts, DemoAssumption
    DEF ListsBut, lists, Places, Waits, WaitTypeAt, WaitInv, KernelInv
  <1>2. CASE /\ Events!TakeFlags(OneFlag) \/ Events!StartWait(OneFlag, WaitTimeout)
             /\ current = TimeoutTask /\ at' = [at EXCEPT ![TimeoutTask] = "events"]
    <2>1. Moves(TimeoutTask) /\ at'[TimeoutTask] = "events"
      BY <1>1, <1>2 DEF Moves, ArgTypes, Points
    <2>2. CASE Events!TakeFlags(OneFlag)
      <3>1. InApp /\ UNCHANGED kernelVars /\ NoListMoves
        BY <2>2, EventsOnKernel
        DEF Events!TakeFlags, Events!kernelVars, kernelVars, NoListMoves,
            Events!ringVars, Events!lockVars, Events!tcbVars, ringVars, lockVars, tcbVars
      <3> QED  BY <1>1, <1>2, <2>1, <3>1, SilentCallKeeps
    <2>3. CASE Events!StartWait(OneFlag, WaitTimeout)
      <3>1. /\ InApp /\ BlockCurrent("EVENT", WaitTimeout, "block") /\ KernelRest
            /\ lists'["events"] = WaitPush(lists["events"], current, priority)
        BY <1>1, <2>3, EventsOnKernel DEF Events!StartWait, Events!ringVars, KernelRest
      <3>2. BlockCurrent(WaitTypeAt("events"), WaitTimeout, "block")
        BY <1>1, <3>1
      <3> QED  BY <1>1, <1>2, <2>1, <3>1, <3>2, WaiterBlocks
    <2> QED  BY <1>2, <2>2, <2>3
  <1>3. CASE Events!EndWait /\ at[current] = "events" /\ at' = at
    <2>1. /\ Resuming /\ GoTo("app")
          /\ UNCHANGED <<ring, current, pendsv, state, delay, waitResult>>
          /\ IF waitResult[current] = "TIMEOUT"
             THEN /\ lists'["events"] = WaitRemove(lists["events"], current)
                  /\ waitType' = [waitType EXCEPT ![current] = "NONE"]
             ELSE lists'["events"] = lists["events"] /\ waitType' = waitType
      BY <1>1, <1>3, EventsOnKernel DEF Events!EndWait, Events!ringVars
    <2>2. waitResult[current] \in {"OK", "TIMEOUT"}
      BY <1>1, TasksAreSlots DEF KernelTypes, Results, WaitInv, KernelInv
    <2> QED  BY <1>1, <1>3, <2>1, <2>2, WaiterReturns
  <1> QED  BY <1>2, <1>3

LEMMA PoolKeeps ==
    ASSUME WaitInv, UNCHANGED <<want, call, mutexWaiters, recvWaiters, sendWaiters,
                                isrWaiters, timeoutWaiters, eventWaiters>>,
           \/ /\ Pool!Alloc \/ Pool!StartWait(Pause)
              /\ current = TimeoutTask /\ at' = [at EXCEPT ![TimeoutTask] = "alloc"]
           \/ /\ \E b \in inUse : Pool!Free(b)
              /\ current = TimeoutTask /\ at' = [at EXCEPT ![TimeoutTask] = "free"]
           \/ Pool!EndWait /\ at[current] = "alloc" /\ at' = at
    PROVE  WaitInv'
  <1>1. /\ ListsBut("alloc") /\ lists["alloc"] = poolWaiters
        /\ lists'["alloc"] = poolWaiters'
        /\ "alloc" \in Waits /\ WaitTypeAt("alloc") = "MEMPOOL" /\ TimeoutTask \in Slots
        /\ ArgTypes /\ KernelTypes /\ Pause \in Nat
    BY DemoFacts, DemoAssumption
    DEF ListsBut, lists, Places, Waits, WaitTypeAt, WaitInv, KernelInv
  <1>2. CASE /\ Pool!Alloc \/ Pool!StartWait(Pause)
             /\ current = TimeoutTask /\ at' = [at EXCEPT ![TimeoutTask] = "alloc"]
    <2>1. Moves(TimeoutTask) /\ at'[TimeoutTask] = "alloc"
      BY <1>1, <1>2 DEF Moves, ArgTypes, Points
    <2>2. CASE Pool!Alloc
      <3>1. InApp /\ UNCHANGED kernelVars /\ NoListMoves
        BY <2>2, PoolOnKernel
        DEF Pool!Alloc, Pool!kernelVars, kernelVars, NoListMoves,
            Pool!ringVars, Pool!lockVars, Pool!tcbVars, ringVars, lockVars, tcbVars
      <3> QED  BY <1>1, <1>2, <2>1, <3>1, SilentCallKeeps
    <2>3. CASE Pool!StartWait(Pause)
      <3>1. /\ InApp /\ BlockCurrent("MEMPOOL", Pause, "block") /\ KernelRest
            /\ lists'["alloc"] = WaitPush(lists["alloc"], current, priority)
        BY <1>1, <2>3, PoolOnKernel DEF Pool!StartWait, Pool!ringVars, KernelRest
      <3>2. BlockCurrent(WaitTypeAt("alloc"), Pause, "block")
        BY <1>1, <3>1
      <3> QED  BY <1>1, <1>2, <2>1, <3>1, <3>2, WaiterBlocks
    <2> QED  BY <1>2, <2>2, <2>3
  <1>3. CASE /\ \E b \in inUse : Pool!Free(b)
             /\ current = TimeoutTask /\ at' = [at EXCEPT ![TimeoutTask] = "free"]
    <2>1. /\ InApp /\ UNCHANGED <<ring, current, pendsv>>
          /\ WakeFirst(lists["alloc"]) /\ ReturnAfterWake(lists["alloc"])
          /\ lists'["alloc"] = WaitPop(lists["alloc"], Waiting)
      BY <1>1, <1>3, PoolOnKernel DEF Pool!Free, Pool!FreeTo, Pool!ringVars
    <2>2. /\ ArgTypes' /\ at'[TimeoutTask] = "free"
          /\ \A t \in Slots \ {TimeoutTask} : SameArgs(t)
      BY <1>1, <1>3 DEF ArgTypes, Points, SameArgs
    <2>3. CallOf(TimeoutTask)' /\ NoArgs(TimeoutTask)'
      BY <1>1, <1>3, <2>1, <2>2
      DEF WaitInv, Placed, InRetry, InWaitCode, InApp, CallOf, NoArgs
    <2>4. "alloc" \in Places /\ OnlyList("alloc")
      BY <1>1, OneList DEF Places
    <2> QED  BY <1>1, <1>3, <2>1, <2>2, <2>3, <2>4, WaitInvAfterWaking DEF InApp
  <1>4. CASE Pool!EndWait /\ at[current] = "alloc" /\ at' = at
    <2>1. /\ Resuming
          /\ UNCHANGED <<ring, current, pendsv, state, delay, waitResult>>
          /\ Pool!GiveUp \/ Pool!Collect
      BY <1>4, PoolOnKernel DEF Pool!EndWait, Pool!ringVars
    <2>2. CASE Pool!GiveUp
      <3>1. /\ GoTo("app") /\ lists'["alloc"] = WaitRemove(lists["alloc"], current)
            /\ waitType' = [waitType EXCEPT ![current] = "NONE"]
        BY <1>1, <2>2, PoolOnKernel DEF Pool!GiveUp
      <3> QED  BY <1>1, <1>4, <2>1, <3>1, WaiterReturns
    <2>3. CASE Pool!Collect
      <3>1. /\ waitResult[current] = "OK" /\ lists'["alloc"] = lists["alloc"]
            /\ waitType' = waitType
        BY <1>1, <2>3 DEF Pool!Collect
      <3>2. PICK point \in {"app", "retry"} : GoTo(point)
        BY <2>3, PoolOnKernel DEF Pool!Collect
      <3> QED  BY <1>1, <1>4, <2>1, <3>1, <3>2, WaiterReturns
    <2> QED  BY <2>1, <2>2, <2>3
  <1> QED  BY <1>2, <1>3, <1>4
-------------------------------------------------------------------------------
(* The calls of timer_callback().                                               *)
LEMMA NoWakeKeeps ==
    ASSUME WaitInv, pendsv' = pendsv, NoListMoves,
           UNCHANGED <<ring, current, state, delay, waitType, waitResult, pc, at, want, call>>
    PROVE  WaitInv'
  <1>1. KernelInv'
    BY TasksHold DEF WaitInv, KernelInv, KernelTypes, ServedRuns, IdleStaysOut
  <1>2. ArgTypes' /\ (\A t \in Slots : SameArgs(t)) /\ lists' = lists
    BY ArgsKept, ListVarsKept DEF WaitInv, NoListMoves
  <1>3. \A t \in Slots : KernelEffect(t)
    BY DEF KernelEffect, OnlySwitched, InWaitCode
  <1> QED  BY <1>1, <1>2, <1>3, WaitInvAfterSwitch

LEMMA NotifyIsrKeeps ==
    ASSUME WaitInv, NEW t \in Slots, NEW bits, Work!NotifyIsr(t, bits),
           UNCHANGED <<at, want, call>>, NoListMoves
    PROVE  WaitInv'
  <1>1. /\ UNCHANGED <<ring, current, pc, waitType, waitResult>>
        /\ \/ /\ StillWaiting(t) /\ waitType[t] = "NOTIFICATION" /\ pendsv' = TRUE
              /\ state' = [state EXCEPT ![t] = "READY"]
              /\ delay' = [delay EXCEPT ![t] = 0]
           \/ pendsv' = pendsv /\ UNCHANGED <<state, delay>>
    <2>1. pendsv \in BOOLEAN
      BY DEF WaitInv, KernelInv, KernelTypes
    <2> QED
      BY <2>1, WorkOnKernel
      DEF Work!NotifyIsr, Work!NotifyCommon, Work!ringVars, Work!WokenBy,
          Work!AwaitsNotification
  <1>2. CASE pendsv' = pendsv /\ UNCHANGED <<state, delay>>
    BY <1>1, <1>2, NoWakeKeeps
  <1>3. CASE /\ StillWaiting(t) /\ waitType[t] = "NOTIFICATION" /\ pendsv' = TRUE
             /\ state' = [state EXCEPT ![t] = "READY"]
             /\ delay' = [delay EXCEPT ![t] = 0]
    <2>1. /\ KernelTypes /\ RingIsWhole /\ IdleStaysOut /\ Tasks = Slots /\ Idle \in Slots
          /\ Tasks' = Tasks /\ RingIsWhole'
      BY <1>1, DemoFacts, TasksAreSlots, TasksHold DEF WaitInv, KernelInv
    <2>2. /\ state'[t] = "READY" /\ \A u \in Slots \ {t} : state'[u] = state[u]
          /\ state' \in [Slots -> States] /\ delay' \in [Slots -> Nat]
      BY <1>3, <2>1 DEF KernelTypes, States
    <2>3. KernelInv'
      BY <1>1, <1>3, <2>1, <2>2
      DEF KernelInv, KernelTypes, ServedRuns, IdleStaysOut, StillWaiting
    <2>4. ArgTypes' /\ (\A u \in Slots : SameArgs(u)) /\ lists' = lists
      BY ArgsKept, ListVarsKept DEF WaitInv, NoListMoves
    <2>5. ASSUME NEW u \in Slots PROVE SamePlace(u)
      BY <1>1, <2>4 DEF SamePlace, Place, InWaitCode, SameArgs
    <2>6. Place(t) = "notify"
      BY <1>3 DEF WaitInv, Placed
    <2>7. ASSUME NEW u \in Tasks, NEW p \in Places PROVE StaysAt(u, p)
      BY <1>1, <2>1, <2>2, <2>5, <2>6
      DEF StaysAt, SamePlace, Places, OnlySwitched
    <2>8. AllListed'
      BY <2>1, <2>4, <2>7, AllListsKept DEF WaitInv
    <2>9. ASSUME NEW u \in Slots PROVE Placed(u)'
      <3>1. Placed(u) /\ SameArgs(u) /\ SamePlace(u) /\ waitType'[u] = waitType[u]
            /\ pc'[u] = pc[u] /\ (state'[u] = state[u] \/ state'[u] = "READY")
        BY <1>1, <2>2, <2>4, <2>5 DEF WaitInv
      <3> QED
        BY <3>1 DEF Placed, CallOf, NoArgs, InRetry, InWaitCode, SameArgs, SamePlace
    <2> QED  BY <2>3, <2>4, <2>8, <2>9 DEF WaitInv
  <1> QED  BY <1>1, <1>2, <1>3

LEMMA PostIsrKeeps ==
    ASSUME WaitInv, IsrSem!PostIsr,
           UNCHANGED <<at, want, call, mutexWaiters, recvWaiters, sendWaiters,
                       timeoutWaiters, eventWaiters, poolWaiters>>
    PROVE  WaitInv'
  <1>1. /\ ListsBut("isr") /\ lists["isr"] = isrWaiters /\ lists'["isr"] = isrWaiters'
        /\ "isr" \in Places /\ OnlyList("isr") /\ lists["isr"] \in Seq(Tasks)
    <2>1. ListsBut("isr") /\ "isr" \in Places
      BY DEF ListsBut, lists, Places
    <2> QED  BY <2>1, OneList DEF lists, WaitInv, AllListed, Listed
  <1>2. /\ WakeFirst(lists["isr"]) /\ pendsv' = (pendsv \/ ~NobodyWaits(lists["isr"]))
        /\ lists'["isr"] = WaitPop(lists["isr"], Waiting)
        /\ UNCHANGED <<ring, current, pc>>
    BY <1>1, IsrSemOnKernel DEF IsrSem!PostIsr, IsrSem!PostCommon, IsrSem!ringVars
  <1>3. KernelInv' /\ \A t \in Slots : WakeEffect(lists["isr"], t)
    BY <1>1, <1>2, IsrWakesEffect DEF WaitInv
  <1>4. ArgTypes' /\ \A t \in Slots : SameCode(t) /\ SameArgs(t)
    BY <1>2, ArgsKept DEF WaitInv, SameCode
  <1>5. PICK c \in Slots : c = TimeoutTask
    BY DemoFacts
  <1> QED  BY <1>1, <1>2, <1>3, <1>4, <1>5, WaitInvAfterWake

(* Nobody but the timeout task waits for the flag, so the loop of set_common()  *)
(* meets one waiter at most.                                                    *)
LEMMA OneEventWaiter ==
    ASSUME WaitInv
    PROVE  \/ eventWaiters = <<>>
           \/ /\ eventWaiters = <<TimeoutTask>> /\ Place(TimeoutTask) = "events"
  <1>1. /\ eventWaiters \in Seq(Tasks) /\ NoRepeats(eventWaiters)
        /\ \A t \in Tasks : Linked(eventWaiters, t) => Place(t) = "events"
    BY ListsByPlace DEF WaitInv, AllListed, Listed, Places
  <1>2. \A t \in Tasks : Linked(eventWaiters, t) => t = TimeoutTask
    BY <1>1, TasksAreSlots
    DEF Place, WaitInv, KernelInv, Placed, CallOf, ArgTypes, RecvArgs, SendArgs
  <1>3. \A i \in 1 .. Len(eventWaiters) :
            eventWaiters[i] \in Tasks /\ Linked(eventWaiters, eventWaiters[i])
    BY <1>1, ElementOfSeq DEF Linked
  <1>4. \A i, j \in 1 .. Len(eventWaiters) : i = j
    BY <1>2, <1>3, <1>1 DEF NoRepeats
  <1>5. Len(eventWaiters) \in Nat
    BY <1>1, LenProperties
  <1>6. CASE Len(eventWaiters) = 0
    BY <1>1, <1>6, EmptySeq
  <1>7. CASE Len(eventWaiters) # 0
    <2>1. 1 \in 1 .. Len(eventWaiters) /\ Len(eventWaiters) \in 1 .. Len(eventWaiters)
      BY <1>5, <1>7
    <2>2. Len(eventWaiters) = 1
      BY <1>4, <2>1
    <2>3. eventWaiters[1] = TimeoutTask /\ Place(TimeoutTask) = "events"
      BY <1>1, <1>2, <1>3, <2>1
    <2>4. eventWaiters = <<TimeoutTask>>
      BY <1>1, <2>2, <2>3
    <2> QED  BY <2>3, <2>4
  <1> QED  BY <1>6, <1>7

Begun(raised) ==
    [flags |-> flags \cup raised, kept |-> <<>>, result |-> result, woken |-> {}]
LEMMA ScanOfOne ==
    ASSUME NEW raised
    PROVE  /\ eventWaiters = <<>> => Events!Scanned(raised) = Begun(raised)
           /\ eventWaiters = <<TimeoutTask>> =>
                 Events!Scanned(raised) = Events!ScanWaiter(Begun(raised), TimeoutTask)
  <1> DEFINE Is(f, n) ==
          f = [k \in 0 .. n |->
                  IF k = 0 THEN Begun(raised)
                  ELSE Events!ScanWaiter(f[k - 1], eventWaiters[k])]
  <1>1. Events!Scan(raised) = CHOOSE f : Is(f, Len(eventWaiters))
    BY DEF Events!Scan, Begun
  <1>2. CASE eventWaiters = <<>>
    <2>1. Is([k \in 0 .. 0 |-> Begun(raised)], 0)
      OBVIOUS
    <2>2. Len(eventWaiters) = 0
      BY <1>2
    <2> HIDE DEF Is
    <2>3. Is(Events!Scan(raised), 0)
      BY <1>1, <2>1, <2>2
    <2> USE DEF Is
    <2>4. Events!Scan(raised)[0] = Begun(raised)
      BY <2>3
    <2> QED  BY <1>2, <2>2, <2>4 DEF Events!Scanned
  <1>3. CASE eventWaiters = <<TimeoutTask>>
    <2>1. Len(eventWaiters) = 1 /\ eventWaiters[1] = TimeoutTask
      BY <1>3
    <2> DEFINE g == [k \in 0 .. 1 |->
                        IF k = 0 THEN Begun(raised)
                        ELSE Events!ScanWaiter(Begun(raised), TimeoutTask)]
    <2>2. \A k \in 0 .. 1 :
              g[k] = IF k = 0 THEN Begun(raised)
                     ELSE Events!ScanWaiter(g[k - 1], eventWaiters[k])
      BY <2>1
    <2>3. Is(g, 1)
      BY <2>2
    <2> HIDE DEF Is
    <2>4. Is(Events!Scan(raised), 1)
      BY <1>1, <2>1, <2>3
    <2> USE DEF Is
    <2>5. Events!Scan(raised)[1] = Events!ScanWaiter(Begun(raised), TimeoutTask)
      BY <2>1, <2>4
    <2> QED  BY <1>3, <2>1, <2>5 DEF Events!Scanned
  <1> QED  BY <1>2, <1>3

LEMMA SetIsrServes ==
    ASSUME WaitInv, NEW raised, Events!SetIsr(raised), NEW s, s = Events!Scanned(raised)
    PROVE  /\ eventWaiters' = s.kept /\ pendsv' = (pendsv \/ s.woken # {})
           /\ UNCHANGED <<ring, basePriority, lockCount, schedPending, current, priority, pc>>
           /\ state' = [t \in Slots |-> IF t \in s.woken THEN "READY" ELSE state[t]]
           /\ delay' = [t \in Slots |-> IF t \in s.woken THEN 0 ELSE delay[t]]
           /\ waitType' = [t \in Slots |-> IF t \in s.woken THEN "NONE" ELSE waitType[t]]
           /\ waitResult' = [t \in Slots |-> IF t \in s.woken THEN "OK" ELSE waitResult[t]]
           /\ \/ s.woken = {} /\ s.kept = eventWaiters
              \/ /\ s.woken = {TimeoutTask} /\ s.kept = <<>> /\ StillWaiting(TimeoutTask)
                 /\ eventWaiters = <<TimeoutTask>> /\ Place(TimeoutTask) = "events"
  <1>1. /\ eventWaiters' = s.kept /\ pendsv' = (pendsv \/ s.woken # {})
        /\ UNCHANGED <<ring, basePriority, lockCount, schedPending, current, priority, pc>>
        /\ state' = [t \in Slots |-> IF t \in s.woken THEN "READY" ELSE state[t]]
        /\ delay' = [t \in Slots |-> IF t \in s.woken THEN 0 ELSE delay[t]]
        /\ waitType' = [t \in Slots |-> IF t \in s.woken THEN "NONE" ELSE waitType[t]]
        /\ waitResult' = [t \in Slots |-> IF t \in s.woken THEN "OK" ELSE waitResult[t]]
    BY DEF Events!SetIsr, Events!SetCommon, Events!ringVars, Events!lockVars, Events!Slots, Slots
  <1>2. CASE eventWaiters = <<>>
    BY <1>1, <1>2, ScanOfOne DEF Begun
  <1>3. CASE /\ eventWaiters = <<TimeoutTask>> /\ Place(TimeoutTask) = "events"
    <2>1. s = Events!ScanWaiter(Begun(raised), TimeoutTask)
      BY <1>3, ScanOfOne
    <2>2. CASE s = Events!ServeWaiter(Begun(raised), TimeoutTask) /\ StillWaiting(TimeoutTask)
      BY <1>1, <1>3, <2>2 DEF Events!ServeWaiter, Begun
    <2>3. CASE s = Events!KeepWaiter(Begun(raised), TimeoutTask)
      <3>1. s.woken = {} /\ s.kept = Append(<<>>, TimeoutTask)
        BY <2>3 DEF Events!KeepWaiter, Begun
      <3> QED  BY <1>1, <1>3, <3>1
    <2> QED  BY <2>1, <2>2, <2>3, EventsOnKernel DEF Events!ScanWaiter
  <1> QED  BY <1>2, <1>3, OneEventWaiter

LEMMA SetIsrKeeps ==
    ASSUME WaitInv, NEW raised, Events!SetIsr(raised),
           UNCHANGED <<at, want, call, mutexWaiters, recvWaiters, sendWaiters,
                       isrWaiters, timeoutWaiters, poolWaiters>>
    PROVE  WaitInv'
  <1>0. PICK s : s = Events!Scanned(raised)
    OBVIOUS
  <1>1. /\ eventWaiters' = s.kept /\ UNCHANGED <<ring, current, pc>>
        /\ pendsv' = (pendsv \/ s.woken # {})
        /\ state' = [t \in Slots |-> IF t \in s.woken THEN "READY" ELSE state[t]]
        /\ delay' = [t \in Slots |-> IF t \in s.woken THEN 0 ELSE delay[t]]
        /\ waitType' = [t \in Slots |-> IF t \in s.woken THEN "NONE" ELSE waitType[t]]
        /\ waitResult' = [t \in Slots |-> IF t \in s.woken THEN "OK" ELSE waitResult[t]]
    BY <1>0, SetIsrServes
  <1>2. KernelTypes /\ TimeoutTask \in Slots /\ Tasks = Slots /\ RingIsWhole
    BY DemoFacts, TasksAreSlots DEF WaitInv, KernelInv
  <1>3. \/ s.woken = {} /\ s.kept = eventWaiters
        \/ /\ s.woken = {TimeoutTask} /\ s.kept = <<>> /\ StillWaiting(TimeoutTask)
           /\ eventWaiters = <<TimeoutTask>> /\ Place(TimeoutTask) = "events"
    BY <1>0, SetIsrServes
  <1>4. CASE s.woken = {} /\ s.kept = eventWaiters
    <2>1. /\ pendsv' = pendsv /\ UNCHANGED <<state, delay, waitType, waitResult>>
          /\ NoListMoves
      BY <1>1, <1>2, <1>4 DEF KernelTypes, NoListMoves
    <2> QED  BY <1>1, <2>1, NoWakeKeeps
  <1>5. CASE /\ s.woken = {TimeoutTask} /\ s.kept = <<>> /\ StillWaiting(TimeoutTask)
             /\ eventWaiters = <<TimeoutTask>> /\ Place(TimeoutTask) = "events"
    <2>1. /\ ListsBut("events") /\ "events" \in Places /\ OnlyList("events")
          /\ lists["events"] = <<TimeoutTask>> /\ lists'["events"] = <<>>
      <3>1. ListsBut("events") /\ "events" \in Places
        BY DEF ListsBut, lists, Places
      <3> QED  BY <1>1, <1>5, <3>1, OneList DEF lists
    <2>2. /\ ~NobodyWaits(<<TimeoutTask>>) /\ Chosen(<<TimeoutTask>>) = TimeoutTask
      <3>1. /\ <<TimeoutTask>> \in Seq(Tasks) /\ Len(<<TimeoutTask>>) = 1
            /\ <<TimeoutTask>>[1] \in Waiting
        BY <1>2, <1>5 DEF Waiting
      <3>2. FirstIndex(<<TimeoutTask>>, Waiting) = 1
        <4>1. PICK q \in Seq(Tasks) : q = <<TimeoutTask>>
          BY <3>1
        <4>2. PICK i : i = FirstIndex(q, Waiting)
          OBVIOUS
        <4>3. /\ i \in 1 .. Len(q) + 1
              /\ \A j \in 1 .. i - 1 : q[j] \notin Waiting
          BY <4>2, FirstIndexFinds
        <4>4. Len(q) = 1 /\ q[1] \in Waiting
          BY <3>1, <4>1
        <4>5. i = 1
          BY <4>3, <4>4
        <4> QED  BY <4>1, <4>2, <4>5
      <3> QED  BY <3>1, <3>2 DEF NobodyWaits, Chosen
    <2>3. /\ \A t \in Slots : WakeEffect(lists["events"], t)
      BY <1>1, <1>5, <2>1, <2>2 DEF WakeEffect, SameWait
    <2>4. Popped(lists'["events"], lists["events"])
      <3>1. \A t : Linked(<<TimeoutTask>>, t) <=> t = TimeoutTask
        BY DEF Linked
      <3>2. \A t : ~Linked(<<>>, t)
        BY DEF Linked
      <3>3. <<>> \in Seq(Tasks) /\ NoRepeats(<<>>)
        BY DEF NoRepeats
      <3> QED  BY <2>1, <2>2, <3>1, <3>2, <3>3 DEF Popped
    <2>5. KernelInv'
      <3>0. pendsv' = TRUE /\ IdleStaysOut
        BY <1>1, <1>5 DEF WaitInv, KernelInv
      <3>1. Tasks' = Tasks /\ RingIsWhole' /\ Idle # TimeoutTask /\ Idle \in Slots
        BY <1>1, <1>2, TasksHold, DemoFacts DEF TimeoutTask
      <3>2. KernelTypes'
        <4>1. /\ state' \in [Slots -> States] /\ delay' \in [Slots -> Nat]
              /\ waitType' \in [Slots -> WaitTypes] /\ waitResult' \in [Slots -> Results]
          BY <1>1, <1>2 DEF KernelTypes, States, WaitTypes, Results
        <4> QED  BY <1>1, <1>2, <3>0, <3>1, <4>1 DEF KernelTypes
      <3> QED
        BY <1>1, <1>5, <3>0, <3>1, <3>2 DEF KernelInv, ServedRuns, IdleStaysOut
    <2>6. ArgTypes' /\ \A t \in Slots : SameCode(t) /\ SameArgs(t)
      BY <1>1, ArgsKept DEF WaitInv, SameCode
    <2>7. PICK c \in Slots : c = TimeoutTask
      BY <1>2
    <2> QED  BY <1>1, <2>1, <2>3, <2>4, <2>5, <2>6, <2>7, WaitInvAfterWake
  <1> QED  BY <1>3, <1>4, <1>5
-------------------------------------------------------------------------------
(* The waits that need no list: for a notification, and for a time to pass.     *)
LEMMA BlockOffListsKeeps ==
    ASSUME WaitInv, InApp, NEW c \in Slots, c = current, Moves(c), KernelRest,
           NEW type \in {"NOTIFICATION", "SLEEP"}, NEW ms \in Nat,
           NEW point \in {"kick", "block"}, BlockCurrent(type, ms, point),
           type = "NOTIFICATION" =>
               point = "block" /\ ~(c = TimeoutTask /\ at'[c] \in Waits),
           type = "SLEEP" => point = "kick",
           UNCHANGED <<want, call>>, NoListMoves
    PROVE  WaitInv'
  <1>1. /\ type \in WaitTypes /\ ~pendsv /\ current # Idle /\ pc[current] = "app"
        /\ UNCHANGED <<ring, current, pendsv>>
    BY DEF WaitTypes, InApp, KernelRest
  <1>2. KernelInv' /\ \A t \in Slots : BlockEffect(type, point, t)
    BY <1>1, BlockCurrentEffect DEF WaitInv
  <1>3. ArgTypes' /\ \A t \in Slots \ {c} : SameArgs(t)
    BY DEF WaitInv, ArgTypes, Moves, SameArgs, NoListMoves
  <1>4. lists' = lists
    BY ListVarsKept DEF NoListMoves
  <1>5. CallOf(c)' /\ NoArgs(c)'
    BY DEF WaitInv, Placed, InRetry, InWaitCode, InApp, CallOf, NoArgs, Moves
  <1>6. \A t \in Slots \ {c} : Untouched(t)
    <2> SUFFICES ASSUME NEW t \in Slots \ {c} PROVE Untouched(t)
      OBVIOUS
    <2> QED  BY <1>2, <1>3 DEF BlockEffect, Untouched
  <1>7. /\ state'[c] = "BLOCKED" /\ waitType'[c] = type /\ pc'[c] = point
    BY <1>2 DEF BlockEffect
  <1>8. Place(c) = "none" /\ Place(c)' = IF type = "SLEEP" THEN "none" ELSE "notify"
    BY <1>1, <1>5, <1>7 DEF Place, InWaitCode, NoArgs, Waits
  <1>9. Placed(c)'
    BY <1>5, <1>7, <1>8 DEF Placed
  <1>10. Place(c) \notin Places /\ Place(c)' \notin Places
    BY <1>8 DEF Places
  <1> QED  BY <1>1, <1>2, <1>3, <1>4, <1>6, <1>9, <1>10, WaitInvOffLists

LEMMA NotifyWaitKeeps ==
    ASSUME WaitInv, NEW c \in Slots, c = current, Moves(c),
           ~(c = TimeoutTask /\ at'[c] \in Waits),
           NEW onEntry, NEW onExit, NEW ms \in Nat, Work!NotifyWait(onEntry, onExit, ms),
           UNCHANGED <<want, call>>, NoListMoves
    PROVE  WaitInv'
  <1>1. /\ InApp /\ KernelRest
        /\ \/ UNCHANGED <<state, delay, waitType, waitResult, pc>>
           \/ BlockCurrent("NOTIFICATION", ms, "block")
    BY WorkOnKernel DEF Work!NotifyWait, Work!tcbVars, Work!ringVars, KernelRest
  <1>2. CASE UNCHANGED <<state, delay, waitType, waitResult, pc>>
    <2>1. GoTo("app")
      BY <1>1, <1>2 DEF GoTo, InApp, WaitInv, KernelInv, KernelTypes
    <2> QED  BY <1>1, <1>2, <2>1, PlainCallKeeps
  <1>3. CASE BlockCurrent("NOTIFICATION", ms, "block")
    BY <1>1, <1>3, BlockOffListsKeeps
  <1> QED  BY <1>1, <1>2, <1>3

LEMMA SleepKeeps ==
    ASSUME WaitInv, NEW c \in Slots, c = current, Moves(c), NEW ms \in Nat, Sleep(ms),
           UNCHANGED <<want, call>>, NoListMoves
    PROVE  WaitInv'
  <1>1. InApp /\ KernelRest /\ BlockCurrent("SLEEP", ms, "kick")
    BY DEF Sleep, ringVars, KernelRest
  <1> QED  BY <1>1, BlockOffListsKeeps

LEMMA EndNotifyWaitKeeps ==
    ASSUME WaitInv, Work!EndNotifyWait, UNCHANGED <<at, want, call>>, NoListMoves
    PROVE  WaitInv'
  <1>1. /\ Resuming /\ waitType[current] = "NOTIFICATION"
        /\ waitType' = [waitType EXCEPT ![current] = "NONE"] /\ GoTo("app")
        /\ UNCHANGED <<ring, current, pendsv, state, delay, waitResult>>
    BY WorkOnKernel DEF Work!EndNotifyWait, Work!ringVars
  <1>2. /\ KernelInv'
        /\ \A t \in Slots : t # current => SameWait(t) /\ SameCode(t)
        /\ state[current] = "RUNNING" /\ pc'[current] = "app"
    BY <1>1, EndWaitEffect DEF WaitInv
  <1>3. PICK c \in Slots : c = current
    BY TasksAreSlots DEF WaitInv, KernelInv, KernelTypes
  <1>4. ArgTypes' /\ (\A t \in Slots : SameArgs(t)) /\ lists' = lists
    BY ArgsKept, ListVarsKept DEF WaitInv, NoListMoves
  <1>5. Placed(c) /\ Place(c) = "notify" /\ pc'[c] = "app" /\ waitType'[c] = "NONE"
        /\ state'[c] = "RUNNING"
    BY <1>1, <1>2, <1>3 DEF WaitInv, Placed, KernelInv, KernelTypes
  <1>6. CallOf(c)' /\ NoArgs(c)' /\ Place(c)' = "none"
    BY <1>4, <1>5 DEF Placed, Place, InWaitCode, CallOf, NoArgs, SameArgs, ArgTypes,
        SendArgs, RecvArgs, WaitInv
  <1>7. Placed(c)'
    BY <1>5, <1>6 DEF Placed
  <1>8. \A t \in Slots \ {c} : Untouched(t)
    <2> SUFFICES ASSUME NEW t \in Slots \ {c} PROVE Untouched(t)
      OBVIOUS
    <2> QED  BY <1>2, <1>3, <1>4 DEF Untouched
  <1>9. Place(c) \notin Places /\ Place(c)' \notin Places
    BY <1>5, <1>6 DEF Places
  <1> QED  BY <1>1, <1>2, <1>4, <1>7, <1>8, <1>9, WaitInvOffLists

(* The worker's loop, and the scheduler's calls.                                *)
LEMMA WorkerStepKeeps ==
    ASSUME WaitInv, Work!WorkerStep, UNCHANGED <<at, want, call>>, NoListMoves
    PROVE  WaitInv'
  <1>1. PICK c \in Slots : c = current
    BY TasksAreSlots DEF WaitInv, KernelInv, KernelTypes
  <1>2. Moves(c)
    BY <1>1 DEF Moves, WaitInv, ArgTypes, Placed, CallOf
  <1>3. CASE Work!WorkerAwaits
    <2>1. c = 1 /\ Work!NotifyWait({}, {Bit}, Work!FOREVER) /\ Work!FOREVER \in Nat
      BY <1>1, <1>3, DemoFacts DEF Work!WorkerAwaits, Work!Worker, Work!FOREVER, FOREVER
    <2>2. ~(c = TimeoutTask /\ at'[c] \in Waits)
      BY <2>1 DEF TimeoutTask
    <2> QED  BY <1>1, <1>2, <2>1, <2>2, NotifyWaitKeeps
  <1>4. CASE Work!WorkerPops \/ Work!HandlerReturns
    <2>1. InApp /\ UNCHANGED kernelVars
      BY <1>4, WorkOnKernel
      DEF Work!WorkerPops, Work!HandlerReturns, Work!kernelVars, kernelVars, Work!ringVars,
          Work!lockVars, Work!tcbVars, ringVars, lockVars, tcbVars
    <2> QED  BY <1>1, <1>2, <2>1, SilentCallKeeps
  <1> QED  BY <1>3, <1>4 DEF Work!WorkerStep

LEMMA SchedCallKeeps ==
    ASSUME WaitInv, Sched!SchedLock \/ Sched!SchedUnlock \/ YieldCall,
           NEW c \in Slots, c = current, Moves(c), UNCHANGED <<want, call>>, NoListMoves
    PROVE  WaitInv'
  <1>1. /\ InApp /\ KernelRest /\ UNCHANGED <<state, delay, waitType, waitResult>>
        /\ pc' = pc \/ GoTo("kick")
    BY SchedOnKernel
    DEF Sched!SchedLock, Sched!SchedUnlock, YieldCall, Sched!ringVars, Sched!tcbVars,
        ringVars, tcbVars, KernelRest
  <1>2. PICK point \in {"app", "kick"} : GoTo(point)
    BY <1>1 DEF GoTo, InApp, WaitInv, KernelInv, KernelTypes
  <1> QED  BY <1>1, <1>2, PlainCallKeeps

LEMMA ExitKeeps ==
    ASSUME WaitInv, Sched!Exit, NEW c \in Slots, c = current, Moves(c),
           UNCHANGED <<want, call>>, NoListMoves
    PROVE  WaitInv'
  <1>1. /\ InApp /\ KernelRest /\ pc' = [pc EXCEPT ![c] = "exit"]
        /\ state' = [state EXCEPT ![c] = "STOPPED"]
        /\ delay' = [delay EXCEPT ![c] = 0]
        /\ waitType' = [waitType EXCEPT ![c] = "NONE"]
        /\ waitResult' = [waitResult EXCEPT ![c] = "OK"]
    BY SchedOnKernel DEF Sched!Exit, Sched!ringVars, KernelRest, GoTo
  <1>2. /\ KernelTypes /\ RingIsWhole /\ IdleStaysOut /\ Idle \in Slots
        /\ Tasks' = Tasks /\ RingIsWhole' /\ UNCHANGED <<ring, current, pendsv>>
    BY <1>1, DemoFacts, TasksHold DEF WaitInv, KernelInv, KernelRest
  <1>3. /\ state' \in [Slots -> States] /\ delay' \in [Slots -> Nat]
        /\ waitType' \in [Slots -> WaitTypes] /\ waitResult' \in [Slots -> Results]
        /\ pc' \in [Slots -> PCs]
    BY <1>1, <1>2 DEF KernelTypes, States, WaitTypes, Results, PCs
  <1>4. /\ state'[c] = "STOPPED" /\ waitType'[c] = "NONE" /\ pc'[c] = "exit"
        /\ \A t \in Slots \ {c} : SameWait(t) /\ SameCode(t)
    BY <1>1, <1>2 DEF KernelTypes, SameWait, SameCode
  <1>5. KernelInv'
    BY <1>1, <1>2, <1>3, <1>4
    DEF KernelInv, KernelTypes, ServedRuns, IdleStaysOut, SameWait, SameCode, InApp
  <1>6. ArgTypes' /\ \A t \in Slots \ {c} : SameArgs(t)
    BY DEF WaitInv, ArgTypes, Moves, SameArgs, NoListMoves
  <1>7. lists' = lists
    BY ListVarsKept DEF NoListMoves
  <1>8. CallOf(c)' /\ NoArgs(c)'
    BY <1>1 DEF WaitInv, Placed, InRetry, InWaitCode, InApp, CallOf, NoArgs, Moves
  <1>9. Place(c) = "none" /\ Place(c)' = "none"
    BY <1>1, <1>4 DEF Place, InWaitCode, InApp
  <1>10. Placed(c)'
    BY <1>4, <1>8, <1>9 DEF Placed
  <1>11. \A t \in Slots \ {c} : Untouched(t)
    <2> SUFFICES ASSUME NEW t \in Slots \ {c} PROVE Untouched(t)
      OBVIOUS
    <2> QED  BY <1>4, <1>6 DEF Untouched
  <1>12. Place(c) \notin Places /\ Place(c)' \notin Places
    BY <1>9 DEF Places
  <1> QED  BY <1>2, <1>5, <1>6, <1>7, <1>10, <1>11, <1>12, WaitInvOffLists

(* The table is full, so the second one-shot task gets the slot of the first.   *)
LEMMA CreateKeeps ==
    ASSUME WaitInv, NEW t \in Slots, Sched!Create(t, 1), current = TimeoutTask,
           at' = [at EXCEPT ![TimeoutTask] = "create", ![t] = "start"],
           UNCHANGED <<want, call>>, NoListMoves
    PROVE  WaitInv'
  <1>1. TaskCount = 6 /\ MaxTasks = 6 /\ Sched!TaskCount = TaskCount
    BY DemoFacts, DemoAssumption
    DEF WaitInv, KernelInv, RingIsWhole, TaskCount, Sched!TaskCount
  <1>2. ~Sched!FreshSlot(t)
    BY <1>1 DEF Sched!FreshSlot
  <1>3. /\ InApp /\ UNCHANGED <<ring, current, pendsv>> /\ state[t] = "STOPPED"
        /\ WakeTask(t) /\ pc' = [pc EXCEPT ![t] = "app"]
    BY <1>2, SchedOnKernel
    DEF Sched!Create, Sched!ReusableSlot, Sched!RingAfterCreate
  <1>4. /\ KernelTypes /\ RingIsWhole /\ IdleStaysOut /\ Idle \in Slots /\ ArgTypes
        /\ Tasks' = Tasks /\ RingIsWhole' /\ Tasks = Slots /\ TimeoutTask \in Slots
        /\ state[current] = "RUNNING" /\ t # current
    BY <1>3, DemoFacts, TasksHold, TasksAreSlots, CallerFacts
    DEF WaitInv, KernelInv, InApp
  <1>5. /\ state' \in [Slots -> States] /\ delay' \in [Slots -> Nat]
        /\ waitType' \in [Slots -> WaitTypes] /\ waitResult' \in [Slots -> Results]
        /\ pc' \in [Slots -> PCs]
    BY <1>3, <1>4 DEF WakeTask, KernelTypes, States, WaitTypes, Results, PCs
  <1>6. /\ state'[t] = "READY" /\ waitType'[t] = "NONE" /\ pc'[t] = "app"
        /\ \A u \in Slots \ {t} : SameWait(u) /\ SameCode(u)
    BY <1>3, <1>4 DEF WakeTask, KernelTypes, SameWait, SameCode
  <1>7. KernelInv'
    BY <1>3, <1>4, <1>5, <1>6
    DEF KernelInv, KernelTypes, ServedRuns, IdleStaysOut, SameWait, SameCode
  <1>8. /\ ArgTypes' /\ at'[t] = "start"
        /\ at'[TimeoutTask] = "create"
        /\ \A u \in Slots \ {t, TimeoutTask} : SameArgs(u)
    BY <1>4 DEF ArgTypes, Points, SameArgs, NoListMoves
  <1>9. lists' = lists
    BY ListVarsKept DEF NoListMoves
  <1>10. NoArgs(t) /\ NoArgs(TimeoutTask) /\ pc[t] \in {"exit", "dead"}
         /\ waitType[TimeoutTask] # "NOTIFICATION" /\ state[TimeoutTask] = "RUNNING"
         /\ Place(t) = "none" /\ Place(TimeoutTask) = "none" /\ pc[TimeoutTask] = "app"
    BY <1>3, <1>4 DEF WaitInv, Placed, InRetry, InWaitCode, InApp, Place
  <1>11. /\ CallOf(t)' /\ NoArgs(t)' /\ Place(t)' = "none"
         /\ CallOf(TimeoutTask)' /\ NoArgs(TimeoutTask)' /\ Place(TimeoutTask)' = "none"
    BY <1>4, <1>6, <1>8, <1>10 DEF CallOf, NoArgs, Place, InWaitCode, SameCode
  <1>12. ASSUME NEW u \in Slots \ {t, TimeoutTask} PROVE Untouched(u)
    BY <1>6, <1>8 DEF Untouched
  <1>13. ASSUME NEW u \in Tasks, NEW p \in Places PROVE StaysAt(u, p)
    <2>1. CASE u \in {t, TimeoutTask}
      BY <1>10, <1>11, <2>1 DEF StaysAt, Places
    <2>2. CASE u \notin {t, TimeoutTask}
      BY <1>4, <1>12, <2>2, UntouchedKeeps
      DEF StaysAt, Untouched, SamePlace, SameWait, OnlySwitched
    <2> QED  BY <2>1, <2>2
  <1>14. AllListed'
    BY <1>4, <1>9, <1>13, AllListsKept DEF WaitInv
  <1>15. ASSUME NEW u \in Slots PROVE Placed(u)'
    <2>1. CASE u = t
      BY <1>6, <1>11, <2>1 DEF Placed
    <2>2. CASE u = TimeoutTask
      BY <1>4, <1>6, <1>10, <1>11, <2>2 DEF Placed, SameWait
    <2>3. CASE u \notin {t, TimeoutTask}
      BY <1>12, <2>3, UntouchedKeeps DEF WaitInv
    <2> QED  BY <2>1, <2>2, <2>3
  <1> QED  BY <1>7, <1>8, <1>14, <1>15 DEF WaitInv
-------------------------------------------------------------------------------
(* Every step of the application.                                               *)
LEMMA ProceedMoves ==
    ASSUME WaitInv, NEW t \in Slots, NEW from, NEW to \in Points, Proceed(t, from, to),
           to \in Waits => t = TimeoutTask
    PROVE  t = current /\ Moves(t) /\ at'[t] = to
  BY DEF Proceed, Moves, WaitInv, ArgTypes, Waits

LEMMA ProducerKeepsWaitInv ==
    ASSUME WaitInv, Produce
    PROVE  WaitInv'
  <1> DEFINE c == Producer
  <1>1. c \in Slots /\ c # TimeoutTask
    BY DemoFacts DEF Producer, TimeoutTask
  <1>2. ASSUME NEW from, NEW to \in Points \ Waits, Proceed(c, from, to)
        PROVE  c = current /\ Moves(c)
    BY <1>1, <1>2, ProceedMoves
  <1>3. ASSUME c = current, Moves(c), Lock \/ Unlock
        PROVE  WaitInv'
    <2>1. /\ ListsBut("mutex") /\ call' = call
          /\ Mutex!Lock(AppMutex, FOREVER) \/ Mutex!Unlock(AppMutex)
      BY <1>3, MutexListOnly
      DEF Lock, Unlock, OnMutex, queueVars, semVars, eventVars, poolVars
    <2> QED  BY <1>3, <2>1, LockCallKeeps, UnlockKeeps
  <1>4. CASE \/ Proceed(c, "start", "lock") /\ Lock
             \/ Proceed(c, "sleep", "lock") /\ Lock
             \/ Proceed(c, "lock", "relock") /\ Lock
             \/ Proceed(c, "send", "unlock") /\ Unlock
             \/ Proceed(c, "unlock", "reunlock") /\ Unlock
    <2>1. {"lock", "relock", "unlock", "reunlock"} \subseteq Points \ Waits
      BY DEF Points, Waits
    <2> QED  BY <1>2, <1>3, <1>4, <2>1
  <1>5. CASE /\ Proceed(c, "relock", "send")
             /\ OnQueue(Queue!Call([op |-> "send", ms |-> FOREVER, msg |-> Message]))
    <2>1. c = current /\ Moves(c)
      BY <1>2, <1>5 DEF Points, Waits
    <2>2. Queue!Call(SendArgs) /\ want' = want /\ OtherLists /\ IsCall(c, SendArgs)
      BY <1>5 DEF OnQueue, mutexVars, semVars, eventVars, poolVars, OtherLists, SendArgs, IsCall
    <2> QED  BY <2>1, <2>2, QueueCallKeeps
  <1>6. CASE Proceed(c, "reunlock", "sleep") /\ OnKernel(Sleep(SendPeriod))
    <2>1. c = current /\ Moves(c)
      BY <1>2, <1>6 DEF Points, Waits
    <2>2. Sleep(SendPeriod) /\ UNCHANGED <<want, call>> /\ NoListMoves /\ SendPeriod \in Nat
      BY <1>6, DemoAssumption
      DEF OnKernel, OnWork, mutexVars, queueVars, semVars, eventVars, poolVars, NoListMoves
    <2> QED  BY <1>1, <2>1, <2>2, SleepKeeps
  <1> QED  BY <1>4, <1>5, <1>6 DEF Produce

LEMMA ConsumerKeepsWaitInv ==
    ASSUME WaitInv, Consume
    PROVE  WaitInv'
  <1> DEFINE c == Consumer
  <1>1. c \in Slots /\ c # TimeoutTask
    BY DemoFacts DEF Consumer, TimeoutTask
  <1>2. ASSUME NEW from, NEW to \in Points \ Waits, Proceed(c, from, to)
        PROVE  c = current /\ Moves(c)
    BY <1>1, <1>2, ProceedMoves
  <1>3. ASSUME c = current, Moves(c), Lock \/ Unlock
        PROVE  WaitInv'
    <2>1. /\ ListsBut("mutex") /\ call' = call
          /\ Mutex!Lock(AppMutex, FOREVER) \/ Mutex!Unlock(AppMutex)
      BY <1>3, MutexListOnly
      DEF Lock, Unlock, OnMutex, queueVars, semVars, eventVars, poolVars
    <2> QED  BY <1>3, <2>1, LockCallKeeps, UnlockKeeps
  <1>4. CASE \/ Proceed(c, "recv", "lock") /\ Lock
             \/ Proceed(c, "lock", "relock") /\ Lock
             \/ Proceed(c, "relock", "unlock") /\ Unlock
             \/ Proceed(c, "unlock", "reunlock") /\ Unlock
    <2>1. {"lock", "relock", "unlock", "reunlock"} \subseteq Points \ Waits
      BY DEF Points, Waits
    <2> QED  BY <1>2, <1>3, <1>4, <2>1
  <1>5. CASE /\ Proceed(c, "start", "recv") \/ Proceed(c, "reunlock", "recv")
             /\ OnQueue(Queue!Call([op |-> "recv", ms |-> FOREVER]))
    <2>1. c = current /\ Moves(c)
      BY <1>2, <1>5 DEF Points, Waits
    <2>2. Queue!Call(RecvArgs) /\ want' = want /\ OtherLists /\ IsCall(c, RecvArgs)
      BY <1>5 DEF OnQueue, mutexVars, semVars, eventVars, poolVars, OtherLists, RecvArgs, IsCall
    <2> QED  BY <2>1, <2>2, QueueCallKeeps
  <1> QED  BY <1>4, <1>5 DEF Consume

LEMMA TryObjectsKeepsWaitInv ==
    ASSUME WaitInv, TryObjects
    PROVE  WaitInv'
  <1> DEFINE c == TimeoutTask
  <1>1. c \in Slots /\ c = current
    BY DemoFacts DEF TryObjects, Proceed
  <1>2. ASSUME NEW from, NEW to \in Points, Proceed(c, from, to)
        PROVE  Moves(c) /\ at'[c] = to
    BY <1>1, <1>2, ProceedMoves
  <1>3. CASE Proceed(c, "start", "self") /\ InApp /\ OnKernel(UNCHANGED kernelVars)
    <2>1. Moves(c)
      BY <1>2, <1>3 DEF Points
    <2>2. UNCHANGED kernelVars /\ UNCHANGED <<want, call>> /\ NoListMoves
      BY <1>3
      DEF OnKernel, OnWork, mutexVars, queueVars, semVars, eventVars, poolVars, NoListMoves
    <2> QED  BY <1>1, <1>3, <2>1, <2>2, SilentCallKeeps
  <1>4. CASE /\ Proceed(c, "self", "sem") \/ Proceed(c, "sleep", "sem")
             /\ OnTimeoutSem(TimeoutSem!TakeToken \/ TimeoutSem!StartWait(SemTimeout))
    <2>1. at' = [at EXCEPT ![TimeoutTask] = "sem"]
      BY <1>4 DEF Proceed
    <2> QED
      BY <1>1, <1>4, <2>1, TimeoutSemKeeps
      DEF OnTimeoutSem, OnSems, mutexVars, queueVars, eventVars, poolVars
  <1>5. CASE /\ Proceed(c, "sem", "events")
             /\ OnEvents(Events!TakeFlags(OneFlag) \/ Events!StartWait(OneFlag, WaitTimeout))
    <2>1. at' = [at EXCEPT ![TimeoutTask] = "events"]
      BY <1>5 DEF Proceed
    <2> QED
      BY <1>1, <1>5, <2>1, EventsKeep DEF OnEvents, mutexVars, queueVars, semVars, poolVars
  <1>6. CASE \/ Proceed(c, "events", "alloc") /\ OnPool(Pool!Alloc \/ Pool!StartWait(Pause))
             \/ Proceed(c, "alloc", "free") /\ \E b \in inUse : OnPool(Pool!Free(b))
    <2>1. \/ /\ Pool!Alloc \/ Pool!StartWait(Pause)
             /\ at' = [at EXCEPT ![TimeoutTask] = "alloc"]
          \/ /\ \E b \in inUse : Pool!Free(b)
             /\ at' = [at EXCEPT ![TimeoutTask] = "free"]
      BY <1>6 DEF Proceed, OnPool
    <2>2. UNCHANGED <<mutexVars, queueVars, semVars, eventVars>>
      BY <1>6 DEF OnPool
    <2> QED
      BY <1>1, <2>1, <2>2, PoolKeeps DEF mutexVars, queueVars, semVars, eventVars
  <1>7. CASE /\ Proceed(c, "free", "poll") \/ (Proceed(c, "alloc", "poll") /\ inUse = {})
             /\ OnIsrSem(PollIsrSem)
    <2>1. Moves(c)
      BY <1>2, <1>7 DEF Points
    <2>2. InApp /\ UNCHANGED kernelVars /\ UNCHANGED <<want, call>> /\ NoListMoves
      BY <1>7, IsrSemOnKernel
      DEF OnIsrSem, OnSems, PollIsrSem, IsrSem!TakeToken, IsrSem!kernelVars, kernelVars,
          IsrSem!ringVars, IsrSem!lockVars, IsrSem!tcbVars, ringVars, lockVars, tcbVars,
          mutexVars, queueVars, eventVars, poolVars, NoListMoves
    <2> QED  BY <1>1, <2>1, <2>2, SilentCallKeeps
  <1>8. CASE /\ Proceed(c, "poll", "notify")
             /\ OnNotify(Work!NotifyWait({}, {Bit}, WaitTimeout))
    <2>1. Moves(c) /\ at'[c] = "notify"
      BY <1>2, <1>8 DEF Points
    <2>2. Work!NotifyWait({}, {Bit}, WaitTimeout) /\ UNCHANGED <<want, call>> /\ NoListMoves
          /\ WaitTimeout \in Nat
      BY <1>8, DemoAssumption
      DEF OnNotify, OnWork, mutexVars, queueVars, semVars, eventVars, poolVars, NoListMoves
    <2>3. ~(c = TimeoutTask /\ at'[c] \in Waits)
      BY <2>1 DEF Waits
    <2> QED  BY <1>1, <2>1, <2>2, <2>3, NotifyWaitKeeps
  <1> QED  BY <1>3, <1>4, <1>5, <1>6, <1>7, <1>8 DEF TryObjects

LEMMA TrySchedulerKeepsWaitInv ==
    ASSUME WaitInv, TryScheduler
    PROVE  WaitInv'
  <1> DEFINE c == TimeoutTask
  <1>1. c \in Slots
    BY DemoFacts
  <1>2. ASSUME NEW from, NEW to \in Points, Proceed(c, from, to)
        PROVE  c = current /\ Moves(c)
    BY <1>1, <1>2, ProceedMoves
  <1>3. ASSUME NEW t \in Slots, current = c, Recreate(t)
        PROVE  WaitInv'
    <2>1. /\ Sched!Create(t, 1) /\ UNCHANGED <<want, call>> /\ NoListMoves
          /\ at' = [at EXCEPT ![TimeoutTask] = "create", ![t] = "start"]
      BY <1>3
      DEF Recreate, mutexVars, queueVars, semVars, eventVars, poolVars, NoListMoves
    <2> QED  BY <1>3, <2>1, CreateKeeps
  <1>4. CASE Proceed(c, "notify", "create") /\ InApp /\ OnKernel(UNCHANGED kernelVars)
    <2>1. c = current /\ Moves(c)
      BY <1>2, <1>4 DEF Points
    <2>2. UNCHANGED kernelVars /\ UNCHANGED <<want, call>> /\ NoListMoves
      BY <1>4
      DEF OnKernel, OnWork, mutexVars, queueVars, semVars, eventVars, poolVars, NoListMoves
    <2> QED  BY <1>1, <1>4, <2>1, <2>2, SilentCallKeeps
  <1>5. CASE \/ Proceed(c, "create", "schedlock") /\ OnKernel(Sched!SchedLock)
             \/ Proceed(c, "schedlock", "yield") /\ OnKernel(YieldCall)
             \/ Proceed(c, "yield", "schedunlock") /\ OnKernel(Sched!SchedUnlock)
    <2>1. c = current /\ Moves(c)
      BY <1>2, <1>5 DEF Points
    <2>2. /\ Sched!SchedLock \/ Sched!SchedUnlock \/ YieldCall
          /\ UNCHANGED <<want, call>> /\ NoListMoves
      BY <1>5
      DEF OnKernel, OnWork, mutexVars, queueVars, semVars, eventVars, poolVars, NoListMoves
    <2> QED  BY <1>1, <2>1, <2>2, SchedCallKeeps
  <1>6. CASE Proceed(c, "schedunlock", "sleep") /\ OnKernel(Sleep(Pause))
    <2>1. c = current /\ Moves(c)
      BY <1>2, <1>6 DEF Points
    <2>2. Sleep(Pause) /\ UNCHANGED <<want, call>> /\ NoListMoves /\ Pause \in Nat
      BY <1>6, DemoAssumption
      DEF OnKernel, OnWork, mutexVars, queueVars, semVars, eventVars, poolVars, NoListMoves
    <2> QED  BY <1>1, <2>1, <2>2, SleepKeeps
  <1> QED  BY <1>3, <1>4, <1>5, <1>6 DEF TryScheduler

LEMMA RunOnceKeepsWaitInv ==
    ASSUME WaitInv, RunOnce
    PROVE  WaitInv'
  <1> DEFINE c == OneShot
  <1>1. c \in Slots /\ c # TimeoutTask
    BY DemoFacts DEF OneShot, TimeoutTask
  <1>2. ASSUME NEW from, NEW to \in Points \ Waits, Proceed(c, from, to)
        PROVE  c = current /\ Moves(c)
    BY <1>1, <1>2, ProceedMoves
  <1>3. CASE Proceed(c, "start", "counted") /\ InApp /\ OnKernel(UNCHANGED kernelVars)
    <2>1. c = current /\ Moves(c)
      BY <1>2, <1>3 DEF Points, Waits
    <2>2. UNCHANGED kernelVars /\ UNCHANGED <<want, call>> /\ NoListMoves
      BY <1>3
      DEF OnKernel, OnWork, mutexVars, queueVars, semVars, eventVars, poolVars, NoListMoves
    <2> QED  BY <1>1, <1>3, <2>1, <2>2, SilentCallKeeps
  <1>4. CASE Proceed(c, "counted", "exit") /\ OnKernel(Sched!Exit)
    <2>1. c = current /\ Moves(c)
      BY <1>2, <1>4 DEF Points, Waits
    <2>2. Sched!Exit /\ UNCHANGED <<want, call>> /\ NoListMoves
      BY <1>4
      DEF OnKernel, OnWork, mutexVars, queueVars, semVars, eventVars, poolVars, NoListMoves
    <2> QED  BY <1>1, <2>1, <2>2, ExitKeeps
  <1> QED  BY <1>3, <1>4 DEF RunOnce

LEMMA FinishCallKeepsWaitInv ==
    ASSUME WaitInv, FinishCall, at' = at
    PROVE  WaitInv'
  <1>1. CASE want[current] # <<>> /\ OnMutex(Mutex!EndWait \/ Mutex!Retry)
    <2>1. ListsBut("mutex") /\ call' = call
      BY <1>1, MutexListOnly DEF OnMutex, queueVars, semVars, eventVars, poolVars
    <2> QED  BY <1>1, <2>1, LockRestKeeps DEF OnMutex
  <1>2. CASE call[current] # Queue!NoCall /\ OnQueue(Queue!EndWait \/ Queue!Retry)
    BY <1>2, QueueRestKeeps DEF OnQueue, mutexVars, semVars, eventVars, poolVars, OtherLists
  <1>3. CASE at[current] = "sem" /\ OnTimeoutSem(TimeoutSem!EndWait)
    BY <1>3, TimeoutSemKeeps
    DEF OnTimeoutSem, OnSems, mutexVars, queueVars, eventVars, poolVars
  <1>4. CASE at[current] = "events" /\ OnEvents(Events!EndWait)
    BY <1>4, EventsKeep DEF OnEvents, mutexVars, queueVars, semVars, poolVars
  <1>5. CASE at[current] = "alloc" /\ OnPool(Pool!EndWait)
    BY <1>5, PoolKeeps DEF OnPool, mutexVars, queueVars, semVars, eventVars
  <1>6. CASE OnNotify(Work!EndNotifyWait)
    BY <1>6, EndNotifyWaitKeeps
    DEF OnNotify, OnWork, mutexVars, queueVars, semVars, eventVars, poolVars, NoListMoves
  <1> QED  BY <1>1, <1>2, <1>3, <1>4, <1>5, <1>6 DEF FinishCall

LEMMA CallbackKeepsWaitInv ==
    ASSUME WaitInv, CallbackStep, at' = at
    PROVE  WaitInv'
  <1>1. CASE OnEvents(Events!SetIsr({Flag}))
    BY <1>1, SetIsrKeeps DEF OnEvents, mutexVars, queueVars, semVars, poolVars
  <1>2. CASE OnIsrSem(IsrSem!PostIsr)
    BY <1>2, PostIsrKeeps DEF OnIsrSem, OnSems, mutexVars, queueVars, eventVars, poolVars
  <1>3. ASSUME NEW t \in Slots, NEW bits, OnWork(Work!NotifyIsr(t, bits))
        PROVE  WaitInv'
    <2>1. Work!NotifyIsr(t, bits) /\ UNCHANGED <<want, call>> /\ NoListMoves
      BY <1>3
      DEF OnWork, mutexVars, queueVars, semVars, eventVars, poolVars, NoListMoves
    <2> QED  BY <2>1, NotifyIsrKeeps
  <1>4. CASE OnNotify(Work!NotifyIsr(TimeoutTask, {Bit}))
    BY <1>3, <1>4, DemoFacts DEF OnNotify, OnWork
  <1>5. CASE OnWork(Work!SubmitIsr(Item))
    BY <1>3, <1>5, DemoFacts DEF OnWork, Work!SubmitIsr, Work!Worker, WorkTask
  <1>6. CASE OnKernel(UNCHANGED kernelVars)
    <2>1. UNCHANGED kernelVars /\ UNCHANGED <<want, call>> /\ NoListMoves
      BY <1>6
      DEF OnKernel, OnWork, mutexVars, queueVars, semVars, eventVars, poolVars, NoListMoves
    <2> QED  BY <2>1, NoWakeKeeps DEF kernelVars, ringVars, tcbVars
  <1> QED  BY <1>1, <1>2, <1>4, <1>5, <1>6 DEF CallbackStep

LEMMA NextKeepsWaitInv ==
    ASSUME WaitInv, [Next]_vars
    PROVE  WaitInv'
  <1>1. CASE TickStep /\ at' = at
    <2>1. CASE Walks
      <3>1. UNCHANGED kernelVars /\ UNCHANGED <<want, call>> /\ NoListMoves
        BY <2>1
        DEF Walks, OnKernel, OnWork, mutexVars, queueVars, semVars, eventVars, poolVars,
            NoListMoves
      <3> QED  BY <1>1, <3>1, NoWakeKeeps DEF kernelVars, ringVars, tcbVars
    <2> QED  BY <1>1, <2>1, TickKeepsWaitInv, CallbackKeepsWaitInv DEF TickStep
  <1>2. CASE TaskStep
    <2>1. CASE (FinishCall \/ OnWork(Work!WorkerStep)) /\ at' = at
      <3>1. CASE OnWork(Work!WorkerStep)
        BY <2>1, <3>1, WorkerStepKeeps
        DEF OnWork, mutexVars, queueVars, semVars, eventVars, poolVars, NoListMoves
      <3> QED  BY <2>1, <3>1, FinishCallKeepsWaitInv
    <2> QED
      BY <1>2, <2>1, ProducerKeepsWaitInv, ConsumerKeepsWaitInv, RunOnceKeepsWaitInv,
         TrySchedulerKeepsWaitInv, TryObjectsKeepsWaitInv DEF TaskStep
  <1>3. CASE OnKernel(PendSV \/ Yield) /\ at' = at
    BY <1>3, SwitchKeepsWaitInv
    DEF OnKernel, OnWork, mutexVars, queueVars, semVars, eventVars, poolVars
  <1>4. CASE UNCHANGED vars
    <2>1. /\ UNCHANGED <<ring, current, state, delay, waitType, waitResult, pc, pendsv>>
          /\ UNCHANGED <<at, want, call>> /\ NoListMoves
      BY <1>4
      DEF vars, kernelVars, ringVars, tcbVars, mutexVars, queueVars, semVars, eventVars,
          poolVars, NoListMoves
    <2> QED  BY <2>1, NoWakeKeeps
  <1> QED  BY <1>1, <1>2, <1>3, <1>4 DEF Next

LEMMA InitWaitInv ==
    ASSUME Init
    PROVE  WaitInv
  <1>1. KernelInit
    BY DEF Init, Mutex!Init, Mutex!KernelInit, KernelInit, Mutex!Slots, Slots, Mutex!Idle, Idle
  <1>2. KernelInv /\ \A t \in Slots : state[t] # "BLOCKED" /\ pc[t] = "app"
    BY <1>1, KernelInitHolds
  <1>3. ArgTypes
    BY DEF Init, Mutex!Init, Queue!Init, ArgTypes, Points, Mutex!Slots, Queue!Slots, Slots
  <1>4. /\ \A p \in Places : lists[p] = <<>>
        /\ \A t \in Slots : waitType[t] # "NOTIFICATION" /\ NoArgs(t) /\ at[t] = "start"
        /\ \A t \in Slots : state[t] # "STOPPED"
    BY <1>1
    DEF Init, Mutex!Init, Queue!Init, TimeoutSem!SemInit, IsrSem!SemInit, Events!EventsInit, Pool!Init,
        lists, Places, KernelInit, NoArgs, Mutex!Slots, Queue!Slots, Slots
  <1>5. \A t \in Slots : Place(t) = "none"
    BY <1>2 DEF Place, InWaitCode
  <1>6. AllListed
    <2> SUFFICES ASSUME NEW p \in Places PROVE Listed(<<>>, p)
      BY <1>4 DEF AllListed
    <2>1. <<>> \in Seq(Tasks) /\ NoRepeats(<<>>) /\ \A t : ~Linked(<<>>, t)
      BY DEF NoRepeats, Linked
    <2>2. Tasks = Slots
      BY <1>2, TasksAreSlots DEF KernelInv
    <2> QED  BY <1>5, <2>1, <2>2 DEF Listed, Places
  <1>7. \A t \in Slots : Placed(t)
    BY <1>2, <1>4, <1>5 DEF Placed, CallOf, NoArgs
  <1> QED  BY <1>2, <1>3, <1>6, <1>7 DEF WaitInv

LEMMA WaitInvMeansListsAgree ==
    ASSUME WaitInv
    PROVE  ListsAgree
  <1>1. Tasks = Slots /\ \A t \in Slots : Placed(t)
    BY TasksAreSlots DEF WaitInv, KernelInv
  <1>2. ArgTypes
    BY DEF WaitInv
  <1>3. ASSUME NEW t \in Tasks, NEW p \in Places, Place(t) = p
        PROVE  ListOf(t) = lists[p] /\ pc[t] \in {"block", "resume"}
    <2>1. InWaitCode(t) /\ CallOf(t) /\ want[t] \in {<<>>, LockArgs}
          /\ call[t] \in {Queue!NoCall, SendArgs, RecvArgs}
      BY <1>1, <1>2, <1>3 DEF Place, Placed, Places, ArgTypes
    <2>2. CASE want[t] # <<>>
      <3>1. t \in {Producer, Consumer} /\ p = "mutex"
        BY <1>3, <2>1, <2>2 DEF CallOf, Place
      <3>2. ListOf(t) = mutexWaiters[AppMutex]
        BY <2>1, <2>2, <3>1 DEF ListOf, CallOf, Producer, Consumer, TimeoutTask
      <3> QED  BY <2>1, <3>1, <3>2, ListsByPlace DEF InWaitCode
    <2>3. CASE want[t] = <<>> /\ call[t] # Queue!NoCall
      <3>1. \/ t = Producer /\ p = "send"
            \/ t = Consumer /\ p = "recv"
        BY <1>3, <2>1, <2>3, DemoFacts DEF CallOf, Place
      <3>2. /\ t = Producer => ListOf(t) = sendWaiters
            /\ t = Consumer => ListOf(t) = recvWaiters
        BY <2>1, <2>3 DEF ListOf, CallOf, Producer, Consumer, TimeoutTask
      <3> QED  BY <2>1, <3>1, <3>2, ListsByPlace DEF InWaitCode
    <2>4. CASE want[t] = <<>> /\ call[t] = Queue!NoCall
      <3>1. t = TimeoutTask /\ p = at[t] /\ p \in {"sem", "events", "alloc"}
        BY <1>3, <2>1, <2>4 DEF Place, Places
      <3>2. /\ p = "sem" => ListOf(t) = timeoutWaiters
            /\ p = "events" => ListOf(t) = eventWaiters
            /\ p = "alloc" => ListOf(t) = poolWaiters
        BY <3>1 DEF ListOf, TimeoutTask, Producer, Consumer
      <3> QED  BY <2>1, <3>1, <3>2, ListsByPlace DEF InWaitCode
    <2> QED  BY <2>2, <2>3, <2>4
  <1>4. ASSUME NEW t \in Tasks, NEW p \in Places
        PROVE  /\ Linked(lists[p], t) => Place(t) = p /\ Unserved(t)
               /\ Place(t) = p /\ StillWaiting(t) => Linked(lists[p], t)
    BY DEF WaitInv, AllListed, Listed
  <1>5. ASSUME NEW t \in Tasks, StillWaiting(t), waitType[t] \notin {"SLEEP", "NOTIFICATION"}
        PROVE  Linked(ListOf(t), t)
    <2>1. Place(t) \in Places
      <3>1. Place(t) \notin {"none", "notify"}
        BY <1>1, <1>5 DEF Placed, StillWaiting
      <3>2. Place(t) \in Places \cup {"none", "notify"}
        BY <1>1, <1>2, DemoFacts DEF Place, Places, ArgTypes
      <3> QED  BY <3>1, <3>2
    <2> QED  BY <1>3, <1>4, <1>5, <2>1
  <1>6. ASSUME NEW t \in Tasks, NEW q \in AllLists, Linked(q, t)
        PROVE  /\ q = ListOf(t) /\ pc[t] \in {"block", "resume"}
               /\ StillWaiting(t) \/ waitResult[t] = "TIMEOUT"
    <2>1. PICK p \in Places : q = lists[p]
      BY ListsByPlace DEF AllLists, Places
    <2>2. Place(t) = p /\ Unserved(t)
      BY <1>4, <1>6, <2>1
    <2> QED  BY <1>3, <2>1, <2>2 DEF Unserved
  <1> QED  BY <1>5, <1>6 DEF ListsAgree

(* In the demo, whatever the periods and the length of the ticks: every blocked *)
(* task is linked in the list of the object it waits for, and nowhere else.     *)
THEOREM TasksAreOnTheirLists == Spec => []ListsAgree
  <1>1. Init => WaitInv
    BY InitWaitInv
  <1>2. WaitInv /\ [Next]_vars => WaitInv'
    BY NextKeepsWaitInv
  <1>3. WaitInv => ListsAgree
    BY WaitInvMeansListsAgree
  <1> QED  BY <1>1, <1>2, <1>3, PTL DEF Spec
===============================================================================
