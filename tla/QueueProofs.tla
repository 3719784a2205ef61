------------------------------ MODULE QueueProofs ------------------------------
(* The safety properties of Queue, and the refinement of the first-in first-out *)
(* channel, for every number of tasks and messages and every capacity.          *)
EXTENDS Queue, KernelProofs, FiniteSetTheorems

Cells == Messages \cup {Blank}
BufferTypes ==
    /\ buffer \in [0 .. Capacity - 1 -> Cells]
    /\ head \in 0 .. Capacity - 1 /\ tail \in 0 .. Capacity - 1
    /\ count \in 0 .. Capacity /\ delivered \in Cells
ListTypes ==
    /\ recvWaiters \in Seq(Tasks) /\ sendWaiters \in Seq(Tasks)
    /\ call \in [Slots -> Calls \cup {NoCall}]

(* The place behind the newest message.                                         *)
TailInStep == tail = (head + count) % Capacity

(* The two directions, with what each of them waits for.                        *)
Ops == {"recv", "send"}
WaitersOf(op) == IF op = "recv" THEN recvWaiters ELSE sendWaiters
Units(op) == IF op = "recv" THEN count ELSE Capacity - count

(* A blocked task is linked in the list of its own call; one that is linked     *)
(* without being blocked has timed out and will unlink itself; and a task that  *)
(* is about to try again was woken, not timed out.                              *)
BlockedIsLinked ==
    \A t \in Tasks : state[t] = "BLOCKED" =>
        /\ waitResult[t] = "OK" /\ InWaitCode(t)
        /\ call[t].op \in Ops /\ Linked(WaitersOf(call[t].op), t)
LinkedIsInWait ==
    \A op \in Ops : \A t \in Tasks : Linked(WaitersOf(op), t) =>
        /\ InWaitCode(t) /\ call[t].op = op
        /\ state[t] = "BLOCKED" \/ waitResult[t] = "TIMEOUT"
NobodyTwice == \A op \in Ops : NoRepeats(WaitersOf(op))
CallsAreKnown ==
    \A t \in Tasks :
        /\ pc[t] \in {"block", "resume", "retry"} => call[t] \in Calls
        /\ pc[t] = "retry" => state[t] # "BLOCKED" /\ waitResult[t] = "OK"
WaitersInvariant == BlockedIsLinked /\ LinkedIsInWait /\ NobodyTwice /\ CallsAreKnown

(* While a task waits, whatever it waits for has a task on its way to it.       *)
SomeoneWaits(op) == \E t \in Tasks : InCall(t, op) /\ StillWaiting(t)
SpokenFor(op) == SomeoneWaits(op) => Units(op) <= Cardinality(OnTheWay(op))

(* The inductive invariant.                                                     *)
IInv ==
    /\ KernelInv /\ PrioritiesAreBase
    /\ BufferTypes /\ TailInStep
    /\ ListTypes /\ WaitersInvariant
    /\ \A op \in Ops : SpokenFor(op)

LEMMA ConstantTypes ==
    /\ Capacity \in Nat \ {0} /\ Timeouts \subseteq Nat
    /\ "recv" \in Ops /\ "send" \in Ops /\ "recv" # "send"
  BY QueueAssumption DEF Ops

LEMMA CallTypes ==
    /\ \A c \in Calls : c.op \in Ops /\ c.ms \in Timeouts
    /\ \A c \in Calls : c.op = "send" => c.msg \in Messages
    /\ NoCall.op \notin Ops /\ NoCall \notin Calls
  BY DEF Calls, NoCall, Ops

LEMMA IInvFacts ==
    ASSUME IInv
    PROVE  /\ RingIsWhole /\ Tasks \subseteq Slots /\ current \in Tasks /\ current \in Slots
           /\ priority \in [Slots -> Nat] /\ IsFiniteSet(Tasks)
           /\ \A op \in Ops : WaitersOf(op) \in Seq(Tasks) /\ NoRepeats(WaitersOf(op))
  <1>1. /\ RingIsWhole /\ Tasks \subseteq Slots /\ current \in Tasks /\ current \in Slots
        /\ priority \in [Slots -> Nat] /\ Tasks = 1 .. Idle /\ Idle \in Nat
    BY TaskFacts, ConstantsLemma
    DEF IInv, KernelInv, KernelTypes, PrioritiesAreBase, Slots, Idle
  <1>2. IsFiniteSet(Tasks)
    BY <1>1, FS_Interval
  <1> QED
    BY <1>1, <1>2 DEF IInv, ListTypes, WaitersInvariant, NobodyTwice, WaitersOf

LEMMA InitHolds == Init => IInv
  <1> SUFFICES ASSUME Init PROVE IInv
    OBVIOUS
  <1> USE ConstantTypes
  <1>1. /\ KernelInv /\ PrioritiesAreBase
        /\ \A t \in Slots : state[t] # "BLOCKED" /\ pc[t] = "app"
    BY KernelInitHolds DEF Init
  <1>2. Tasks \subseteq Slots
    BY <1>1, TaskFacts DEF KernelInv
  <1>3. BufferTypes /\ TailInStep
    <2>1. 0 \in 0 .. Capacity - 1 /\ 0 \in 0 .. Capacity /\ 0 + 0 = 0 /\ 0 % Capacity = 0
      BY Wrap
    <2> QED  BY <2>1 DEF Init, BufferTypes, TailInStep, Cells
  <1>4. ListTypes /\ WaitersInvariant
    <2>1. /\ recvWaiters = <<>> /\ sendWaiters = <<>>
          /\ \A op \in Ops : WaitersOf(op) = <<>>
      BY DEF Init, WaitersOf
    <2>2. \A op \in Ops : NoRepeats(WaitersOf(op)) /\ \A t : ~Linked(WaitersOf(op), t)
      BY <2>1 DEF Linked, NoRepeats
    <2> QED
      BY <1>1, <1>2, <2>1, <2>2
      DEF Init, ListTypes, WaitersInvariant, BlockedIsLinked, LinkedIsInWait, NobodyTwice,
          CallsAreKnown
  <1>5. \A op \in Ops : SpokenFor(op)
    BY <1>1, <1>2 DEF SpokenFor, SomeoneWaits, StillWaiting
  <1> QED  BY <1>1, <1>3, <1>4, <1>5 DEF IInv
-------------------------------------------------------------------------------
(* Counting the tasks on the way.                                               *)
LEMMA OnTheWayIsFinite ==
    ASSUME IInv, NEW A \in SUBSET Tasks
    PROVE  IsFiniteSet(A) /\ Cardinality(A) \in Nat
  BY IInvFacts, FS_Subset, FS_CardinalityType

LEMMA AtLeastAsMany ==
    ASSUME IInv, NEW A \in SUBSET Tasks, NEW B \in SUBSET Tasks, A \subseteq B
    PROVE  Cardinality(A) <= Cardinality(B)
  <1>1. IsFiniteSet(B) /\ A \in SUBSET B
    BY OnTheWayIsFinite
  <1> QED  BY <1>1, FS_Subset

LEMMA AtLeastOneMore ==
    ASSUME IInv, NEW A \in SUBSET Tasks, NEW B \in SUBSET Tasks, A \subseteq B,
           NEW c \in B, c \notin A
    PROVE  Cardinality(A) + 1 <= Cardinality(B)
  <1>1. IsFiniteSet(A) /\ Cardinality(A \cup {c}) = Cardinality(A) + 1
    BY OnTheWayIsFinite, FS_AddElement
  <1>2. A \cup {c} \in SUBSET Tasks /\ A \cup {c} \subseteq B
    OBVIOUS
  <1>3. Cardinality(A \cup {c}) <= Cardinality(B)
    BY <1>2, AtLeastAsMany
  <1> QED  BY <1>1, <1>3

LEMMA AtMostOneLess ==
    ASSUME IInv, NEW A \in SUBSET Tasks, NEW B \in SUBSET Tasks, NEW x, A \ {x} \subseteq B
    PROVE  Cardinality(A) - 1 <= Cardinality(B)
  <1>1. /\ IsFiniteSet(A) /\ Cardinality(A) \in Nat
        /\ Cardinality(A \ {x}) = IF x \in A THEN Cardinality(A) - 1 ELSE Cardinality(A)
    BY OnTheWayIsFinite, FS_RemoveElement
  <1>2. A \ {x} \in SUBSET Tasks
    OBVIOUS
  <1>3. Cardinality(A \ {x}) <= Cardinality(B) /\ Cardinality(B) \in Nat
    BY <1>2, AtLeastAsMany, OnTheWayIsFinite
  <1> QED  BY <1>1, <1>3

LEMMA UnitsType ==
    ASSUME BufferTypes
    PROVE  \A op \in Ops : Units(op) \in 0 .. Capacity
  BY ConstantTypes DEF BufferTypes, Units

(* Nobody starts to wait, nothing arrives, and nobody on the way is lost.       *)
LEMMA StaysSpokenFor ==
    ASSUME IInv, Tasks' = Tasks, NEW op \in Ops, SomeoneWaits(op)' => SomeoneWaits(op),
           Units(op)' = Units(op), OnTheWay(op) \subseteq OnTheWay(op)'
    PROVE  SpokenFor(op)'
  <1>1. OnTheWay(op) \in SUBSET Tasks /\ OnTheWay(op)' \in SUBSET Tasks
    BY DEF OnTheWay
  <1>2. Cardinality(OnTheWay(op)) <= Cardinality(OnTheWay(op)')
    BY <1>1, AtLeastAsMany
  <1>3. /\ Cardinality(OnTheWay(op)) \in Nat /\ Cardinality(OnTheWay(op)') \in Nat
        /\ Units(op) \in Nat
    BY <1>1, OnTheWayIsFinite, UnitsType, ConstantTypes DEF IInv
  <1>4. SpokenFor(op)
    BY DEF IInv
  <1> QED  BY <1>2, <1>3, <1>4 DEF SpokenFor
-------------------------------------------------------------------------------
(* SysTick, PendSV and the yields.                                              *)
LEMMA KernelStepHolds ==
    ASSUME IInv, KernelStep, UNCHANGED queueVars
    PROVE  IInv'
  <1>1. /\ KernelInv' /\ ring' = ring
        /\ UNCHANGED <<basePriority, priority>> /\ call' = call
        /\ \A t \in Slots : KernelEffect(t)
    BY KernelStepEffect DEF IInv, queueVars
  <1>2. Tasks' = Tasks /\ Tasks \subseteq Slots
    BY <1>1, TasksHold, IInvFacts
  <1>3. \A op \in Ops : WaitersOf(op)' = WaitersOf(op) /\ Units(op)' = Units(op)
    BY DEF queueVars, WaitersOf, Units
  <1>4. BlockedIsLinked' /\ NobodyTwice'
    BY <1>1, <1>2, <1>3
    DEF IInv, WaitersInvariant, BlockedIsLinked, NobodyTwice, KernelEffect, OnlySwitched,
        TimesOut, Runnable
  <1>5. LinkedIsInWait'
    BY <1>1, <1>2, <1>3
    DEF IInv, WaitersInvariant, LinkedIsInWait, KernelEffect, OnlySwitched, TimesOut, Runnable
  <1>6. CallsAreKnown'
    BY <1>1, <1>2
    DEF IInv, WaitersInvariant, CallsAreKnown, KernelEffect, OnlySwitched, TimesOut,
        Runnable, InWaitCode
  <1>7. ASSUME NEW op \in Ops PROVE SpokenFor(op)'
    <2>1. SomeoneWaits(op)' => SomeoneWaits(op)
      BY <1>1, <1>2
      DEF SomeoneWaits, InCall, StillWaiting, KernelEffect, OnlySwitched, TimesOut,
          Runnable, InWaitCode
    <2>2. OnTheWay(op) \subseteq OnTheWay(op)'
      BY <1>1, <1>2
      DEF OnTheWay, InCall, KernelEffect, OnlySwitched, TimesOut, Runnable, InWaitCode
    <2> QED  BY <1>2, <1>3, <2>1, <2>2, StaysSpokenFor
  <1>8. BufferTypes' /\ TailInStep' /\ ListTypes'
    BY <1>2 DEF IInv, BufferTypes, TailInStep, ListTypes, queueVars
  <1> QED
    BY <1>1, <1>4, <1>5, <1>6, <1>7, <1>8 DEF IInv, PrioritiesAreBase, WaitersInvariant

(* The task that comes back from its wait leaves the call, or tries again.      *)
LEMMA EndWaitUnlinks ==
    ASSUME IInv, EndWait
    PROVE  /\ KernelInv' /\ state[current] = "RUNNING" /\ pc[current] = "resume"
           /\ \A t \in Slots : t # current => SameWait(t) /\ SameCode(t)
           /\ \A t \in Slots : t # current => call'[t] = call[t]
           /\ \A op \in Ops : Removed(WaitersOf(op)', WaitersOf(op), current)
           /\ call' \in [Slots -> Calls \cup {NoCall}]
           /\ \/ pc'[current] = "app" /\ waitResult[current] = "TIMEOUT"
              \/ pc'[current] = "retry" /\ waitResult[current] = "OK" /\ call' = call
           /\ UNCHANGED <<ring, current, state, basePriority, priority, waitResult,
                          buffer, head, tail, count, delivered>>
  <1>1. /\ Resuming
        /\ UNCHANGED <<ring, current, pendsv, state, delay, basePriority, priority,
                       waitResult, buffer, head, tail, count, delivered>>
    BY DEF EndWait, ringVars
  <1>2. /\ state[current] = "RUNNING" /\ current \in Slots /\ current \in Tasks
        /\ pc[current] = "resume"
    BY <1>1, CallerFacts DEF IInv, Resuming
  <1>3. call \in [Slots -> Calls \cup {NoCall}] /\ call[current] \in Calls
    BY <1>2 DEF IInv, ListTypes, WaitersInvariant, CallsAreKnown
  <1>4. CASE TimedOut
    <2>1. /\ waitResult[current] = "TIMEOUT" /\ GoTo("app")
          /\ waitType' = [waitType EXCEPT ![current] = "NONE"]
          /\ call' = [call EXCEPT ![current] = NoCall]
      BY <1>4 DEF TimedOut
    <2>2. /\ KernelInv' /\ pc'[current] = "app"
          /\ \A t \in Slots : t # current => SameWait(t) /\ SameCode(t)
      BY <1>1, <2>1, EndWaitEffect DEF IInv
    <2>3. ASSUME NEW op \in Ops
          PROVE  Removed(WaitersOf(op)', WaitersOf(op), current)
      <3>1. call[current].op \in Ops
        BY <1>3, CallTypes
      <3>2. \/ WaitersOf(op)' = WaitRemove(WaitersOf(op), current)
            \/ WaitersOf(op)' = WaitersOf(op) /\ op # call[current].op
        <4>1. CASE call[current].op = "send"
          <5>1. sendWaiters' = WaitRemove(sendWaiters, current) /\ recvWaiters' = recvWaiters
            BY <1>4, <4>1 DEF TimedOut
          <5> QED  BY <4>1, <5>1 DEF WaitersOf, Ops
        <4>2. CASE call[current].op # "send"
          <5>1. recvWaiters' = WaitRemove(recvWaiters, current) /\ sendWaiters' = sendWaiters
            BY <1>4, <4>2 DEF TimedOut
          <5> QED  BY <4>2, <5>1 DEF WaitersOf, Ops
        <4> QED  BY <4>1, <4>2
      <3>3. WaitersOf(op) \in Seq(Tasks) /\ NoRepeats(WaitersOf(op))
        BY IInvFacts
      <3>4. CASE WaitersOf(op)' = WaitRemove(WaitersOf(op), current)
        BY <3>3, <3>4, RemoveUnlinks
      <3>5. CASE WaitersOf(op)' = WaitersOf(op) /\ op # call[current].op
        <4>1. ~Linked(WaitersOf(op), current)
          BY <1>2, <3>5 DEF IInv, WaitersInvariant, LinkedIsInWait
        <4> QED  BY <3>3, <3>5, <4>1 DEF Removed
      <3> QED  BY <3>2, <3>4, <3>5
    <2>4. call' \in [Slots -> Calls \cup {NoCall}]
          /\ \A t \in Slots : t # current => call'[t] = call[t]
      BY <1>3, <2>1
    <2> QED  BY <1>1, <1>2, <2>1, <2>2, <2>3, <2>4
  <1>5. CASE Woken
    <2>1. /\ waitResult[current] = "OK" /\ GoTo("retry")
          /\ UNCHANGED <<recvWaiters, sendWaiters, waitType, call>>
      BY <1>5 DEF Woken
    <2>2. /\ KernelInv' /\ pc'[current] = "retry"
          /\ \A t \in Slots : t # current => SameWait(t) /\ SameCode(t)
      BY <1>1, <2>1, EndWaitEffect DEF IInv
    <2>3. \A op \in Ops : ~Linked(WaitersOf(op), current)
      BY <1>2, <2>1 DEF IInv, WaitersInvariant, LinkedIsInWait
    <2>4. \A op \in Ops : WaitersOf(op)' = WaitersOf(op)
      BY <2>1 DEF WaitersOf
    <2>5. \A op \in Ops : Removed(WaitersOf(op)', WaitersOf(op), current)
      BY <2>3, <2>4, IInvFacts DEF Removed
    <2> QED  BY <1>1, <1>2, <1>3, <2>1, <2>2, <2>5
  <1> QED  BY <1>4, <1>5 DEF EndWait

LEMMA EndWaitHolds ==
    ASSUME IInv, EndWait
    PROVE  IInv'
  <1>1. /\ KernelInv' /\ state[current] = "RUNNING" /\ pc[current] = "resume"
        /\ \A t \in Slots : t # current => SameWait(t) /\ SameCode(t)
        /\ \A t \in Slots : t # current => call'[t] = call[t]
        /\ \A op \in Ops : Removed(WaitersOf(op)', WaitersOf(op), current)
        /\ call' \in [Slots -> Calls \cup {NoCall}]
        /\ \/ pc'[current] = "app" /\ waitResult[current] = "TIMEOUT"
           \/ pc'[current] = "retry" /\ waitResult[current] = "OK" /\ call' = call
        /\ UNCHANGED <<ring, current, state, basePriority, priority, waitResult,
                       buffer, head, tail, count, delivered>>
    BY EndWaitUnlinks
  <1>2. Tasks' = Tasks /\ Tasks \subseteq Slots /\ current \in Tasks
    BY <1>1, TasksHold, IInvFacts
  <1>3. BlockedIsLinked'
    <2> SUFFICES ASSUME NEW t \in Tasks, state'[t] = "BLOCKED"
                 PROVE  /\ waitResult'[t] = "OK" /\ InWaitCode(t)'
                        /\ call'[t].op \in Ops /\ Linked(WaitersOf(call[t].op)', t)
                        /\ call'[t] = call[t]
      BY <1>2 DEF BlockedIsLinked, WaitersOf
    <2>1. t # current /\ state[t] = "BLOCKED" /\ t \in Slots
      BY <1>1, <1>2
    <2> QED
      BY <1>1, <2>1
      DEF IInv, WaitersInvariant, BlockedIsLinked, SameWait, SameCode, InWaitCode, Removed
  <1>4. LinkedIsInWait' /\ NobodyTwice'
    BY <1>1, <1>2
    DEF IInv, WaitersInvariant, LinkedIsInWait, NobodyTwice, SameWait, SameCode,
        InWaitCode, Removed
  <1>5. CallsAreKnown'
    BY <1>1, <1>2
    DEF IInv, WaitersInvariant, CallsAreKnown, SameWait, SameCode
  <1>6. ASSUME NEW op \in Ops PROVE SpokenFor(op)'
    <2>1. SomeoneWaits(op)' => SomeoneWaits(op)
      BY <1>1, <1>2 DEF SomeoneWaits, InCall, StillWaiting, SameWait, SameCode
    <2>2. OnTheWay(op) \subseteq OnTheWay(op)'
      BY <1>1, <1>2 DEF OnTheWay, InCall, SameWait, SameCode
    <2>3. Units(op)' = Units(op)
      BY <1>1 DEF Units
    <2> QED  BY <1>2, <2>1, <2>2, <2>3, StaysSpokenFor
  <1>7. BufferTypes' /\ TailInStep'
    BY <1>1 DEF IInv, BufferTypes, TailInStep
  <1>8. ListTypes'
    <2>1. \A op \in Ops : WaitersOf(op)' \in Seq(Tasks)
      BY <1>1 DEF Removed
    <2> QED  BY <1>1, <1>2, <2>1, ConstantTypes DEF ListTypes, WaitersOf
  <1> QED
    BY <1>1, <1>3, <1>4, <1>5, <1>6, <1>7, <1>8 DEF IInv, PrioritiesAreBase, WaitersInvariant
-------------------------------------------------------------------------------
(* A pass through the loop of a call, the first one or a later one.             *)
Passing(c) == \/ c \in Calls /\ Call(c)
              \/ c = call[current] /\ Retry

LEMMA PassingFacts ==
    ASSUME IInv, NEW c, Passing(c)
    PROVE  /\ c \in Calls /\ ~pendsv /\ current # Idle /\ pc[current] \in {"app", "retry"}
           /\ state[current] = "RUNNING" /\ Pass(c)
           /\ UNCHANGED <<ring, current, pendsv, basePriority, priority>>
           /\ \A op \in Ops : ~Linked(WaitersOf(op), current)
           /\ \A op \in Ops : op # c.op => current \notin OnTheWay(op)
  <1>1. /\ ~pendsv /\ pc[current] \in {"app", "retry"} /\ Pass(c)
        /\ UNCHANGED <<ring, current, pendsv, basePriority, priority>>
        /\ pc[current] = "app" => current # Idle
    BY DEF Passing, Call, Retry, InApp, ringVars
  <1>2. state[current] = "RUNNING" /\ current # Idle /\ current \in Tasks
    BY <1>1, CallerFacts DEF IInv
  <1>3. c \in Calls
    BY <1>2 DEF Passing, Retry, IInv, WaitersInvariant, CallsAreKnown
  <1>4. \A op \in Ops : ~Linked(WaitersOf(op), current)
    BY <1>1, <1>2 DEF IInv, WaitersInvariant, LinkedIsInWait, InWaitCode
  <1>5. \A op \in Ops : op # c.op => current \notin OnTheWay(op)
    BY <1>1 DEF OnTheWay, InCall, Passing, Call, InApp
  <1> QED  BY <1>1, <1>2, <1>3, <1>4, <1>5

(* The task finds nothing and waits, with the lists as they then are.           *)
LEMMA WaitHolds ==
    ASSUME IInv, NEW c, Passing(c), StartWait(c), Units(c.op) = 0,
           WaitersOf(c.op)' = WaitPush(WaitersOf(c.op), current, priority),
           \A op \in Ops : op # c.op => WaitersOf(op)' = WaitersOf(op)
    PROVE  IInv'
  <1>1. /\ c \in Calls /\ c.op \in Ops /\ c.ms \in Nat /\ "QUEUE" \in WaitTypes
        /\ ~pendsv /\ current # Idle /\ pc[current] \in {"app", "retry"}
        /\ state[current] = "RUNNING"
        /\ UNCHANGED <<ring, current, pendsv, basePriority, priority>>
        /\ ~Linked(WaitersOf(c.op), current)
        /\ \A op \in Ops : op # c.op => current \notin OnTheWay(op)
    BY PassingFacts, CallTypes, ConstantTypes DEF WaitTypes
  <1>2. /\ BlockCurrent("QUEUE", c.ms, "block")
        /\ call' = [call EXCEPT ![current] = c]
        /\ UNCHANGED <<buffer, head, tail, count, delivered>>
    BY DEF StartWait
  <1>3. KernelInv' /\ \A t \in Slots : BlockEffect("QUEUE", "block", t)
    BY <1>1, <1>2, BlockCurrentEffect DEF IInv
  <1>4. Tasks' = Tasks /\ Tasks \subseteq Slots /\ current \in Tasks
    BY <1>1, TasksHold, IInvFacts
  <1>5. /\ call' \in [Slots -> Calls \cup {NoCall}] /\ call'[current] = c
        /\ \A t \in Slots : t # current => call'[t] = call[t]
    BY <1>1, <1>2, <1>4 DEF IInv, ListTypes
  <1>6. Pushed(WaitersOf(c.op)', WaitersOf(c.op), current)
    BY <1>1, <1>4, IInvFacts, PushLinks
  <1>7. BlockedIsLinked'
    <2> SUFFICES ASSUME NEW t \in Tasks, state'[t] = "BLOCKED"
                 PROVE  /\ waitResult'[t] = "OK" /\ InWaitCode(t)'
                        /\ call'[t].op \in Ops /\ Linked(WaitersOf(call[t].op), t)'
      BY <1>4 DEF BlockedIsLinked
    <2>1. CASE t = current
      BY <1>1, <1>3, <1>4, <1>5, <1>6, <2>1
      DEF BlockEffect, InWaitCode, Pushed, WaitersOf
    <2>2. CASE t # current
      <3>1. /\ state[t] = "BLOCKED" /\ SameWait(t) /\ SameCode(t) /\ call'[t] = call[t]
        BY <1>3, <1>4, <1>5, <2>2 DEF BlockEffect, SameWait
      <3>2. /\ waitResult[t] = "OK" /\ InWaitCode(t)
            /\ call[t].op \in Ops /\ Linked(WaitersOf(call[t].op), t)
        BY <3>1 DEF IInv, WaitersInvariant, BlockedIsLinked
      <3>3. \A op \in Ops : Linked(WaitersOf(op), t) => Linked(WaitersOf(op)', t)
        BY <1>6 DEF Pushed
      <3>4. PICK op \in Ops : call[t].op = op /\ Linked(WaitersOf(op)', t)
        BY <3>2, <3>3
      <3>5. Linked(WaitersOf(call[t].op), t)'
        BY <3>1, <3>4 DEF WaitersOf
      <3> QED  BY <3>1, <3>2, <3>5 DEF SameWait, SameCode, InWaitCode
    <2> QED  BY <2>1, <2>2
  <1>8. LinkedIsInWait' /\ NobodyTwice'
    BY <1>1, <1>3, <1>4, <1>5, <1>6
    DEF IInv, WaitersInvariant, LinkedIsInWait, NobodyTwice, BlockEffect, SameWait, SameCode,
        InWaitCode, Pushed
  <1>9. CallsAreKnown'
    BY <1>1, <1>3, <1>4, <1>5
    DEF IInv, WaitersInvariant, CallsAreKnown, BlockEffect, SameWait, SameCode
  <1>10. ASSUME NEW op \in Ops PROVE SpokenFor(op)'
    <2>1. Units(op)' = Units(op)
      BY <1>2 DEF Units
    <2>2. CASE op = c.op
      <3>1. OnTheWay(op)' \in SUBSET Tasks
        BY <1>4 DEF OnTheWay
      <3>2. Cardinality(OnTheWay(op)') \in Nat
        BY <3>1, OnTheWayIsFinite
      <3> QED  BY <2>1, <2>2, <3>2 DEF SpokenFor
    <2>3. CASE op # c.op
      <3>1. SomeoneWaits(op)' => SomeoneWaits(op)
        BY <1>3, <1>4, <1>5, <2>3
        DEF SomeoneWaits, InCall, StillWaiting, BlockEffect, SameWait, SameCode
      <3>2. OnTheWay(op) \subseteq OnTheWay(op)'
        BY <1>1, <1>3, <1>4, <1>5, <2>3
        DEF OnTheWay, InCall, BlockEffect, SameWait, SameCode
      <3> QED  BY <1>4, <2>1, <3>1, <3>2, StaysSpokenFor
    <2> QED  BY <2>2, <2>3
  <1>11. BufferTypes' /\ TailInStep'
    BY <1>2 DEF IInv, BufferTypes, TailInStep
  <1>12. ListTypes'
    <2>1. \A op \in Ops : WaitersOf(op)' \in Seq(Tasks)
      BY <1>6, IInvFacts DEF Pushed
    <2> QED  BY <1>4, <1>5, <2>1, ConstantTypes DEF ListTypes, WaitersOf
  <1> QED
    BY <1>1, <1>3, <1>7, <1>8, <1>9, <1>10, <1>11, <1>12
    DEF IInv, PrioritiesAreBase, WaitersInvariant

(* A send, or a receive, succeeds: the task returns from its call, or it was an *)
(* interrupt that sent.                                                         *)
Returns(op) ==
    /\ state[current] = "RUNNING"
    /\ \A t \in Slots : t # current => SameCode(t)
    /\ pc'[current] \in {"app", "kick"}
    /\ call' = [call EXCEPT ![current] = NoCall]
    /\ current \notin OnTheWay(op)
    /\ \A o \in Ops : ~Linked(WaitersOf(o), current)

LEMMA WakeHolds ==
    ASSUME IInv, NEW op \in Ops, NEW other \in Ops, other # op,
           KernelInv', UNCHANGED <<ring, basePriority, priority>>,
           \A t \in Slots : WakeEffect(WaitersOf(op), t),
           Popped(WaitersOf(op)', WaitersOf(op)), WaitersOf(other)' = WaitersOf(other),
           Units(op)' = Units(op) + 1, Units(other)' = Units(other) - 1,
           UNCHANGED <<pc, call>> \/ Returns(op),
           BufferTypes', TailInStep'
    PROVE  IInv'
  <1>1. Tasks' = Tasks /\ Tasks \subseteq Slots /\ current \in Slots
    BY TasksHold, IInvFacts
  <1>2. \A o \in Ops : o = op \/ o = other
    BY DEF Ops
  <1>3. /\ call' \in [Slots -> Calls \cup {NoCall}]
        /\ \A t \in Slots :
              \/ SameCode(t) /\ call'[t] = call[t]
              \/ t = current /\ Returns(op) /\ call'[t] = NoCall
    BY <1>1 DEF Returns, SameCode, IInv, ListTypes
  <1> DEFINE c == Chosen(WaitersOf(op))
  <1>4. \A t \in Slots :
           IF ~NobodyWaits(WaitersOf(op)) /\ t = c
           THEN state'[t] = "READY" /\ waitResult'[t] = "OK"
           ELSE SameWait(t)
    BY DEF WakeEffect
  <1>5. ~NobodyWaits(WaitersOf(op)) =>
            /\ c \in Tasks /\ StillWaiting(c) /\ Linked(WaitersOf(op), c)
            /\ InWaitCode(c) /\ call[c].op = op
            /\ \A o \in Ops : ~Linked(WaitersOf(o)', c)
            /\ SameCode(c) /\ call'[c] = call[c]
    <2> SUFFICES ASSUME ~NobodyWaits(WaitersOf(op))
                 PROVE  /\ c \in Tasks /\ StillWaiting(c) /\ Linked(WaitersOf(op), c)
                        /\ InWaitCode(c) /\ call[c].op = op
                        /\ \A o \in Ops : ~Linked(WaitersOf(o)', c)
                        /\ SameCode(c) /\ call'[c] = call[c]
      OBVIOUS
    <2>1. c \in Tasks /\ StillWaiting(c) /\ Linked(WaitersOf(op), c)
      BY ChosenWaits, IInvFacts DEF IInv
    <2>2. InWaitCode(c) /\ call[c].op = op /\ ~Linked(WaitersOf(other), c)
      BY <2>1 DEF IInv, WaitersInvariant, LinkedIsInWait
    <2>3. ~Linked(WaitersOf(op)', c)
      BY DEF Popped
    <2>4. \A o \in Ops : ~Linked(WaitersOf(o)', c)
      BY <1>2, <2>2, <2>3
    <2>5. SameCode(c) /\ call'[c] = call[c]
      BY <1>1, <1>3, <2>1 DEF Returns, StillWaiting
    <2> QED  BY <2>1, <2>2, <2>4, <2>5
  <1>6. Popped(WaitersOf(op)', WaitersOf(op))
    OBVIOUS
  <1> HIDE DEF c
  <1>7. BlockedIsLinked'
    <2> SUFFICES ASSUME NEW t \in Tasks, state'[t] = "BLOCKED"
                 PROVE  /\ waitResult'[t] = "OK" /\ InWaitCode(t)'
                        /\ call'[t].op \in Ops /\ Linked(WaitersOf(call[t].op), t)'
      BY <1>1 DEF BlockedIsLinked
    <2>1. /\ SameWait(t) /\ state[t] = "BLOCKED" /\ ~(~NobodyWaits(WaitersOf(op)) /\ t = c)
      BY <1>1, <1>4 DEF SameWait
    <2>2. /\ waitResult[t] = "OK" /\ InWaitCode(t)
          /\ call[t].op \in Ops /\ Linked(WaitersOf(call[t].op), t)
      BY <2>1 DEF IInv, WaitersInvariant, BlockedIsLinked
    <2>3. SameCode(t) /\ call'[t] = call[t]
      BY <1>1, <1>3, <2>1 DEF Returns
    <2>4. ASSUME NEW o \in Ops, Linked(WaitersOf(o), t)
          PROVE  Linked(WaitersOf(o)', t)
      BY <1>2, <1>6, <2>1, <2>2, <2>4 DEF Popped, StillWaiting, c
    <2>5. PICK o \in Ops : call[t].op = o /\ Linked(WaitersOf(o)', t)
      BY <2>2, <2>4
    <2>6. Linked(WaitersOf(call[t].op), t)'
      BY <2>3, <2>5 DEF WaitersOf
    <2> QED  BY <2>1, <2>2, <2>3, <2>6 DEF SameWait, SameCode, InWaitCode
  <1>8. LinkedIsInWait' /\ NobodyTwice'
    <2>1. \A o \in Ops : NoRepeats(WaitersOf(o))'
      BY <1>2, <1>6 DEF Popped, IInv, WaitersInvariant, NobodyTwice, NoRepeats
    <2>2. ASSUME NEW o \in Ops, NEW t \in Tasks, Linked(WaitersOf(o)', t)
          PROVE  /\ InWaitCode(t)' /\ call'[t].op = o
                 /\ state'[t] = "BLOCKED" \/ waitResult'[t] = "TIMEOUT"
      <3>1. Linked(WaitersOf(o), t)
        BY <1>2, <1>6, <2>2 DEF Popped
      <3>2. /\ InWaitCode(t) /\ call[t].op = o
            /\ state[t] = "BLOCKED" \/ waitResult[t] = "TIMEOUT"
        BY <3>1 DEF IInv, WaitersInvariant, LinkedIsInWait
      <3>3. SameCode(t) /\ call'[t] = call[t]
        BY <1>1, <1>3, <3>1 DEF Returns
      <3>4. SameWait(t)
        BY <1>1, <1>4, <1>5, <2>2
      <3> QED  BY <3>2, <3>3, <3>4 DEF SameWait, SameCode, InWaitCode
    <2> QED  BY <1>1, <2>1, <2>2 DEF LinkedIsInWait, NobodyTwice, Linked
  <1>9. CallsAreKnown'
    <2> SUFFICES ASSUME NEW t \in Tasks
                 PROVE  /\ pc'[t] \in {"block", "resume", "retry"} => call'[t] \in Calls
                        /\ pc'[t] = "retry" => state'[t] # "BLOCKED" /\ waitResult'[t] = "OK"
      BY <1>1 DEF CallsAreKnown
    <2>1. CASE SameCode(t) /\ call'[t] = call[t]
      BY <1>1, <1>4, <2>1 DEF IInv, WaitersInvariant, CallsAreKnown, SameCode, SameWait
    <2>2. CASE t = current /\ Returns(op)
      BY <2>2 DEF Returns
    <2> QED  BY <1>1, <1>3, <2>1, <2>2
  <1>10. SpokenFor(op)'
    <2> SUFFICES ASSUME SomeoneWaits(op)'
                 PROVE  Units(op)' <= Cardinality(OnTheWay(op)')
      BY DEF SpokenFor
    <2>1. PICK t \in Tasks : InCall(t, op)' /\ StillWaiting(t)'
      BY <1>1 DEF SomeoneWaits
    <2>2. /\ SameWait(t) /\ state[t] = "BLOCKED"
      BY <1>1, <1>4, <2>1 DEF SameWait, StillWaiting
    <2>3. SameCode(t) /\ call'[t] = call[t]
      BY <1>1, <1>3, <2>2 DEF Returns
    <2>4. InCall(t, op) /\ StillWaiting(t) /\ Linked(WaitersOf(op), t)
      BY <2>1, <2>2, <2>3
      DEF InCall, StillWaiting, SameWait, SameCode, IInv, WaitersInvariant, BlockedIsLinked
    <2>5. ~NobodyWaits(WaitersOf(op)) /\ SomeoneWaits(op)
      BY <1>6, <2>4 DEF Popped, SomeoneWaits
    <2>6. c \in OnTheWay(op)' /\ c \notin OnTheWay(op)
      BY <1>1, <1>4, <1>5, <2>5
      DEF OnTheWay, InCall, StillWaiting, SameCode, InWaitCode
    <2>7. OnTheWay(op) \subseteq OnTheWay(op)'
      <3> SUFFICES ASSUME NEW u \in OnTheWay(op) PROVE u \in OnTheWay(op)'
        OBVIOUS
      <3>1. u \in Tasks /\ u \in Slots /\ state[u] # "BLOCKED" /\ waitResult[u] = "OK"
        BY <1>1 DEF OnTheWay
      <3>2. SameCode(u) /\ call'[u] = call[u]
        BY <1>3, <3>1 DEF Returns
      <3>3. SameWait(u)
        BY <1>4, <1>5, <3>1 DEF StillWaiting
      <3> QED  BY <1>1, <3>2, <3>3 DEF OnTheWay, InCall, SameWait, SameCode
    <2>8. OnTheWay(op) \in SUBSET Tasks /\ OnTheWay(op)' \in SUBSET Tasks
      BY <1>1 DEF OnTheWay
    <2>9. Cardinality(OnTheWay(op)) + 1 <= Cardinality(OnTheWay(op)')
      BY <2>6, <2>7, <2>8, AtLeastOneMore
    <2>10. Units(op) <= Cardinality(OnTheWay(op))
      BY <2>5 DEF IInv, SpokenFor
    <2>11. /\ Cardinality(OnTheWay(op)) \in Nat /\ Cardinality(OnTheWay(op)') \in Nat
           /\ Units(op) \in Nat
      BY <2>8, OnTheWayIsFinite, UnitsType, ConstantTypes DEF IInv
    <2> QED  BY <2>9, <2>10, <2>11
  <1>11. SpokenFor(other)'
    <2> SUFFICES ASSUME SomeoneWaits(other)'
                 PROVE  Units(other)' <= Cardinality(OnTheWay(other)')
      BY DEF SpokenFor
    <2>1. PICK t \in Tasks : InCall(t, other)' /\ StillWaiting(t)'
      BY <1>1 DEF SomeoneWaits
    <2>2. /\ SameWait(t) /\ state[t] = "BLOCKED"
      BY <1>1, <1>4, <2>1 DEF SameWait, StillWaiting
    <2>3. SameCode(t) /\ call'[t] = call[t]
      BY <1>1, <1>3, <2>2 DEF Returns
    <2>4. SomeoneWaits(other)
      BY <2>1, <2>2, <2>3 DEF SomeoneWaits, InCall, StillWaiting, SameWait, SameCode
    <2>5. OnTheWay(other) \ {current} \subseteq OnTheWay(other)'
      <3> SUFFICES ASSUME NEW u \in OnTheWay(other), u # current PROVE u \in OnTheWay(other)'
        OBVIOUS
      <3>1. u \in Tasks /\ u \in Slots /\ state[u] # "BLOCKED" /\ waitResult[u] = "OK"
        BY <1>1 DEF OnTheWay
      <3>2. SameCode(u) /\ call'[u] = call[u]
        BY <1>3, <3>1
      <3>3. SameWait(u)
        BY <1>4, <1>5, <3>1 DEF StillWaiting
      <3> QED  BY <1>1, <3>2, <3>3 DEF OnTheWay, InCall, SameWait, SameCode
    <2>6. OnTheWay(other) \in SUBSET Tasks /\ OnTheWay(other)' \in SUBSET Tasks
      BY <1>1 DEF OnTheWay
    <2>7. Cardinality(OnTheWay(other)) - 1 <= Cardinality(OnTheWay(other)')
      BY <2>5, <2>6, AtMostOneLess
    <2>8. Units(other) <= Cardinality(OnTheWay(other))
      BY <2>4 DEF IInv, SpokenFor
    <2>9. /\ Cardinality(OnTheWay(other)) \in Nat /\ Cardinality(OnTheWay(other)') \in Nat
          /\ Units(other) \in Nat
      BY <2>6, OnTheWayIsFinite, UnitsType, ConstantTypes DEF IInv
    <2> QED  BY <2>7, <2>8, <2>9
  <1>12. \A o \in Ops : SpokenFor(o)'
    BY <1>2, <1>10, <1>11
  <1>13. ListTypes'
    <2>1. \A o \in Ops : WaitersOf(o)' \in Seq(Tasks)
      BY <1>2, <1>6, IInvFacts DEF Popped
    <2> QED  BY <1>1, <1>3, <2>1, ConstantTypes DEF ListTypes, WaitersOf
  <1> QED
    BY <1>7, <1>8, <1>9, <1>12, <1>13 DEF IInv, PrioritiesAreBase, WaitersInvariant
-------------------------------------------------------------------------------
(* The ring buffer.                                                             *)
LEMMA EnqueueKeepsBuffer ==
    ASSUME BufferTypes, TailInStep, NEW v \in Messages, Enqueue(v)
    PROVE  /\ BufferTypes' /\ TailInStep'
           /\ Units("recv")' = Units("recv") + 1 /\ Units("send")' = Units("send") - 1
  <1> USE ConstantTypes
  <1>1. /\ count \in 0 .. Capacity - 1 /\ count' = count + 1
        /\ head \in 0 .. Capacity - 1 /\ tail \in 0 .. Capacity - 1
        /\ tail' = (tail + 1) % Capacity
        /\ UNCHANGED <<head, delivered>>
    BY DEF Enqueue, BufferTypes
  <1>2. tail + 1 \in 0 .. Capacity + Capacity - 1
    BY <1>1
  <1>3. tail' \in 0 .. Capacity - 1
    BY <1>1, <1>2, Wrap
  <1>4. buffer' \in [0 .. Capacity - 1 -> Cells]
    BY <1>1 DEF Enqueue, BufferTypes, Cells
  <1>5. tail' = (head + (count + 1)) % Capacity
    BY <1>1, TailMovesOn DEF TailInStep
  <1>6. count' \in 0 .. Capacity
    BY <1>1
  <1>7. BufferTypes' /\ TailInStep'
    BY <1>1, <1>3, <1>4, <1>5, <1>6 DEF BufferTypes, TailInStep
  <1> QED  BY <1>1, <1>7 DEF Units

LEMMA DequeueKeepsBuffer ==
    ASSUME BufferTypes, TailInStep, Dequeue
    PROVE  /\ BufferTypes' /\ TailInStep'
           /\ Units("recv")' = Units("recv") - 1 /\ Units("send")' = Units("send") + 1
  <1> USE ConstantTypes
  <1>1. /\ count \in 1 .. Capacity /\ count' = count - 1
        /\ head \in 0 .. Capacity - 1 /\ tail \in 0 .. Capacity - 1
        /\ head' = (head + 1) % Capacity /\ delivered' = buffer[head]
        /\ UNCHANGED <<buffer, tail>>
    BY DEF Dequeue, BufferTypes
  <1>2. head + 1 \in 0 .. Capacity + Capacity - 1
    BY <1>1
  <1>3. head' \in 0 .. Capacity - 1
    BY <1>1, <1>2, Wrap
  <1>4. tail' = (head' + (count - 1)) % Capacity
    BY <1>1, TailStays DEF TailInStep
  <1>5. count' \in 0 .. Capacity
    BY <1>1
  <1>6. BufferTypes' /\ TailInStep'
    BY <1>1, <1>3, <1>4, <1>5 DEF BufferTypes, TailInStep
  <1> QED  BY <1>1, <1>6 DEF Units, BufferTypes

Contents == [i \in 1 .. count |-> buffer[(head + i - 1) % Capacity]]

LEMMA ContentsInRing ==
    /\ Contents = RingContents(buffer, head, count, Capacity)
    /\ Contents' = RingContents(buffer', head', count', Capacity)
  BY DEF Contents, RingContents, Cell

LEMMA EnqueuePuts ==
    ASSUME BufferTypes, TailInStep, NEW v \in Messages, Enqueue(v)
    PROVE  /\ Len(Contents) < Capacity
           /\ Contents' = Append(Contents, v)
           /\ delivered' = delivered
  <1> USE ConstantTypes
  <1>1. /\ buffer \in [0 .. Capacity - 1 -> Cells] /\ v \in Cells
        /\ count \in 0 .. Capacity - 1 /\ count \in 0 .. Capacity
        /\ count' = count + 1
        /\ head \in 0 .. Capacity - 1 /\ head' = head
        /\ buffer' = WithPut(buffer, head, count, Capacity, v)
        /\ delivered' = delivered
    BY DEF Enqueue, BufferTypes, TailInStep, WithPut, Cell, Cells
  <1>2. IsAppend(RingContents(buffer', head', count', Capacity),
                 RingContents(buffer, head, count, Capacity), v)
    BY <1>1, RingPut
  <1>3. ReadFrom(Contents, buffer, head, count, Capacity)
    BY <1>1, ContentsInRing, RingContentsFacts
  <1> QED  BY <1>1, <1>2, <1>3, ContentsInRing DEF ReadFrom, IsAppend

LEMMA DequeueGets ==
    ASSUME BufferTypes, TailInStep, Dequeue
    PROVE  /\ Contents # <<>>
           /\ Contents' = Tail(Contents)
           /\ delivered' = Head(Contents)
  <1> USE ConstantTypes
  <1>1. /\ buffer \in [0 .. Capacity - 1 -> Cells]
        /\ count \in 1 .. Capacity /\ count' = count - 1
        /\ head \in 0 .. Capacity - 1 /\ head' = Cell(head + 1, Capacity)
        /\ buffer' = buffer /\ delivered' = buffer[head]
    BY DEF Dequeue, BufferTypes, Cell
  <1> DEFINE old == RingContents(buffer, head, count, Capacity)
  <1>2. /\ old # <<>>
        /\ Head(old) = buffer[head]
        /\ RingContents(buffer', head', count', Capacity) = Tail(old)
    BY <1>1, RingGet
  <1> HIDE DEF old
  <1>3. Contents = old
    BY ContentsInRing DEF old
  <1> QED  BY <1>1, <1>2, <1>3, ContentsInRing
-------------------------------------------------------------------------------
LEMMA TaskWakes ==
    ASSUME IInv, NEW c, Passing(c), NEW op \in Ops, op # c.op, WakeFirst(WaitersOf(op)),
           FinishCall(WaitersOf(op))
    PROVE  /\ KernelInv' /\ Returns(op)
           /\ \A t \in Slots : WakeEffect(WaitersOf(op), t)
  <1>1. /\ ReturnAfterWake(WaitersOf(op)) /\ call' = [call EXCEPT ![current] = NoCall]
        /\ WaitersOf(op) \in Seq(Tasks)
    BY IInvFacts DEF FinishCall
  <1>2. /\ KernelInv'
        /\ \A t \in Slots : WakeEffect(WaitersOf(op), t)
        /\ \A t \in Slots : t # current => SameCode(t)
        /\ pc'[current] \in {"app", "kick"}
    BY <1>1, PassingFacts, TaskWakesEffect DEF IInv
  <1> QED  BY <1>1, <1>2, PassingFacts DEF Returns

LEMMA SendPassHolds ==
    ASSUME IInv, NEW c, Passing(c), c.op = "send", SendPass(c)
    PROVE  IInv'
  <1> USE ConstantTypes
  <1>1. CASE Enqueue(c.msg) /\ FinishCall(recvWaiters)
    <2>1. c.msg \in Messages
      BY PassingFacts, CallTypes
    <2>2. /\ WakeFirst(WaitersOf("recv")) /\ FinishCall(WaitersOf("recv"))
          /\ WaitersOf("recv")' = WaitPop(WaitersOf("recv"), Waiting)
          /\ WaitersOf("send")' = WaitersOf("send")
      BY <1>1 DEF Enqueue, WaitersOf
    <2>3. /\ KernelInv' /\ Returns("recv")
          /\ \A t \in Slots : WakeEffect(WaitersOf("recv"), t)
      BY <2>2, TaskWakes
    <2>4. Popped(WaitersOf("recv")', WaitersOf("recv"))
      BY <2>2, IInvFacts, PopLinks
    <2>5. /\ BufferTypes' /\ TailInStep'
          /\ Units("recv")' = Units("recv") + 1 /\ Units("send")' = Units("send") - 1
      BY <1>1, <2>1, EnqueueKeepsBuffer DEF IInv
    <2>6. UNCHANGED <<ring, basePriority, priority>>
      BY PassingFacts
    <2> QED  BY <2>2, <2>3, <2>4, <2>5, <2>6, WakeHolds
  <1>2. CASE /\ count = Capacity
             /\ StartWait(c)
             /\ sendWaiters' = WaitPush(sendWaiters, current, priority)
             /\ UNCHANGED recvWaiters
    <2>1. Units(c.op) = 0
      BY <1>2 DEF Units
    <2>2. /\ WaitersOf(c.op)' = WaitPush(WaitersOf(c.op), current, priority)
          /\ \A op \in Ops : op # c.op => WaitersOf(op)' = WaitersOf(op)
      <3>1. /\ WaitersOf("send")' = WaitPush(WaitersOf("send"), current, priority)
            /\ WaitersOf("recv")' = WaitersOf("recv")
        BY <1>2 DEF WaitersOf
      <3> QED  BY <3>1 DEF Ops
    <2> QED  BY <1>2, <2>1, <2>2, WaitHolds
  <1> QED  BY <1>1, <1>2 DEF SendPass

LEMMA RecvPassHolds ==
    ASSUME IInv, NEW c, Passing(c), c.op = "recv", RecvPass(c)
    PROVE  IInv'
  <1> USE ConstantTypes
  <1>1. CASE Dequeue /\ FinishCall(sendWaiters)
    <2>2. /\ WakeFirst(WaitersOf("send")) /\ FinishCall(WaitersOf("send"))
          /\ WaitersOf("send")' = WaitPop(WaitersOf("send"), Waiting)
          /\ WaitersOf("recv")' = WaitersOf("recv")
      BY <1>1 DEF Dequeue, WaitersOf
    <2>3. /\ KernelInv' /\ Returns("send")
          /\ \A t \in Slots : WakeEffect(WaitersOf("send"), t)
      BY <2>2, TaskWakes
    <2>4. Popped(WaitersOf("send")', WaitersOf("send"))
      BY <2>2, IInvFacts, PopLinks
    <2>5. /\ BufferTypes' /\ TailInStep'
          /\ Units("recv")' = Units("recv") - 1 /\ Units("send")' = Units("send") + 1
      BY <1>1, DequeueKeepsBuffer DEF IInv
    <2>6. UNCHANGED <<ring, basePriority, priority>>
      BY PassingFacts
    <2> QED  BY <2>2, <2>3, <2>4, <2>5, <2>6, WakeHolds
  <1>2. CASE /\ count = 0
             /\ StartWait(c)
             /\ recvWaiters' = WaitPush(recvWaiters, current, priority)
             /\ UNCHANGED sendWaiters
    <2>1. Units(c.op) = 0
      BY <1>2 DEF Units
    <2>2. /\ WaitersOf(c.op)' = WaitPush(WaitersOf(c.op), current, priority)
          /\ \A op \in Ops : op # c.op => WaitersOf(op)' = WaitersOf(op)
      <3>1. /\ WaitersOf("recv")' = WaitPush(WaitersOf("recv"), current, priority)
            /\ WaitersOf("send")' = WaitersOf("send")
        BY <1>2 DEF WaitersOf
      <3> QED  BY <3>1 DEF Ops
    <2> QED  BY <1>2, <2>1, <2>2, WaitHolds
  <1> QED  BY <1>1, <1>2 DEF RecvPass

LEMMA PassHolds ==
    ASSUME IInv, NEW c, Passing(c)
    PROVE  IInv'
  BY PassingFacts, CallTypes, SendPassHolds, RecvPassHolds DEF Pass, Ops

LEMMA SendIsrHolds ==
    ASSUME IInv, NEW v \in Messages, SendIsr(v)
    PROVE  IInv'
  <1> USE ConstantTypes
  <1>1. /\ WakeFirst(WaitersOf("recv"))
        /\ WaitersOf("recv")' = WaitPop(WaitersOf("recv"), Waiting)
        /\ WaitersOf("send")' = WaitersOf("send")
        /\ pendsv' = (pendsv \/ ~NobodyWaits(WaitersOf("recv")))
        /\ UNCHANGED <<ring, current, pc, call, basePriority, priority>>
    BY DEF SendIsr, Enqueue, WaitersOf, ringVars
  <1>2. WaitersOf("recv") \in Seq(Tasks) /\ NoRepeats(WaitersOf("recv"))
    BY IInvFacts
  <1>3. KernelInv' /\ \A t \in Slots : WakeEffect(WaitersOf("recv"), t)
    BY <1>1, <1>2, IsrWakesEffect DEF IInv
  <1>4. Popped(WaitersOf("recv")', WaitersOf("recv"))
    BY <1>1, <1>2, PopLinks
  <1>5. /\ BufferTypes' /\ TailInStep'
        /\ Units("recv")' = Units("recv") + 1 /\ Units("send")' = Units("send") - 1
    BY EnqueueKeepsBuffer DEF IInv, SendIsr
  <1> QED  BY <1>1, <1>3, <1>4, <1>5, WakeHolds

LEMMA StutterHolds ==
    ASSUME IInv, UNCHANGED vars
    PROVE  IInv'
  <1>1. /\ UNCHANGED <<ring, current, pendsv, state, delay, waitType, waitResult, pc,
                       basePriority, priority>>
        /\ UNCHANGED <<buffer, head, tail, count, recvWaiters, sendWaiters, call, delivered>>
    BY DEF vars, kernelVars, ringVars, tcbVars, queueVars
  <1>2. Tasks' = Tasks
    BY <1>1, TasksHold
  <1>3. KernelInv' /\ PrioritiesAreBase'
    BY <1>1, <1>2
    DEF IInv, KernelInv, KernelTypes, RingIsWhole, TaskCount, ServedRuns, IdleStaysOut,
        PrioritiesAreBase
  <1>4. WaitersInvariant'
    BY <1>1, <1>2
    DEF IInv, WaitersInvariant, BlockedIsLinked, LinkedIsInWait, NobodyTwice, CallsAreKnown,
        WaitersOf, InWaitCode, NoRepeats, Linked
  <1>5. \A op \in Ops : SpokenFor(op)'
    BY <1>1, <1>2
    DEF IInv, SpokenFor, SomeoneWaits, OnTheWay, InCall, StillWaiting, Units
  <1> QED
    BY <1>1, <1>2, <1>3, <1>4, <1>5 DEF IInv, BufferTypes, TailInStep, ListTypes

LEMMA NextHolds == IInv /\ [Next]_vars => IInv'
  <1> SUFFICES ASSUME IInv, [Next]_vars PROVE IInv'
    OBVIOUS
  <1>1. CASE KernelStep /\ UNCHANGED queueVars
    BY <1>1, KernelStepHolds
  <1>2. CASE \E c \in Calls : Call(c)
    BY <1>2, PassHolds DEF Passing
  <1>3. CASE Retry
    BY <1>3, PassHolds DEF Passing
  <1>4. CASE \E v \in Messages : SendIsr(v)
    BY <1>4, SendIsrHolds
  <1>5. CASE EndWait
    BY <1>5, EndWaitHolds
  <1>6. CASE UNCHANGED vars
    BY <1>6, StutterHolds
  <1> QED  BY <1>1, <1>2, <1>3, <1>4, <1>5, <1>6 DEF Next, QueueStep

LEMMA AlwaysHolds == Spec => []IInv
  BY InitHolds, NextHolds, PTL DEF Spec
-------------------------------------------------------------------------------
(* Every variable keeps its type: head, tail and count stay inside the ring.    *)
THEOREM TypeCorrect == Spec => []TypeOK
  <1>1. IInv => TypeOK
    BY DEF IInv, KernelInv, KernelTypes, BufferTypes, ListTypes, Cells, TypeOK
  <1> QED  BY <1>1, AlwaysHolds, PTL

(* Both wait lists hold the tasks that wait in their direction, each once, and  *)
(* nobody who was woken or has left.                                            *)
THEOREM ListsStayExact == Spec => []ListsAreExact
  <1>1. ASSUME IInv PROVE ListsAreExact
    <2>1. WaitersOf("recv") = recvWaiters /\ WaitersOf("send") = sendWaiters
      BY DEF WaitersOf
    <2>2. NoRepeats(recvWaiters) /\ NoRepeats(sendWaiters)
      BY <1>1, <2>1, ConstantTypes, IInvFacts
    <2>3. \A op \in Ops : \A t \in Tasks :
             /\ InCall(t, op) /\ StillWaiting(t) => Linked(WaitersOf(op), t)
             /\ Linked(WaitersOf(op), t) =>
                   InCall(t, op) /\ (StillWaiting(t) \/ waitResult[t] = "TIMEOUT")
      BY <1>1
      DEF IInv, WaitersInvariant, BlockedIsLinked, LinkedIsInWait, InCall, InWaitCode,
          StillWaiting
    <2> QED  BY <2>1, <2>2, <2>3, ConstantTypes DEF ListsAreExact
  <1> QED  BY <1>1, AlwaysHolds, PTL

(* No wake-up is lost, whoever overtakes the woken task: while a task waits,    *)
(* each message, or each free cell, has a task on its way to it.                *)
THEOREM WakeupsAreNeverLost == Spec => []NoLostWakeup
  <1>1. IInv => NoLostWakeup
    BY ConstantTypes DEF IInv, SpokenFor, SomeoneWaits, Units, NoLostWakeup
  <1> QED  BY <1>1, AlwaysHolds, PTL

(* The ring buffer, under the calls of tasks and interrupts in any order, is a  *)
(* first-in first-out channel: no message is lost, repeated or reordered.       *)
THEOREM QueueRefines == Spec => ImplementsChannel
  <1>1. Init => Channel!ChannelInit
    <2> SUFFICES ASSUME Init PROVE Channel!ChannelInit
      OBVIOUS
    <2>1. count = 0 /\ delivered = Blank
      BY DEF Init
    <2>2. Contents = <<>>
      BY <2>1 DEF Contents
    <2> QED  BY <2>1, <2>2 DEF Channel!ChannelInit, Contents
  <1>2. IInv /\ [Next]_vars => [Channel!ChannelNext]_(Channel!channel)
    <2> SUFFICES ASSUME IInv, [Next]_vars
                 PROVE  [Channel!ChannelNext]_(Channel!channel)
      OBVIOUS
    <2>1. BufferTypes /\ TailInStep
      BY DEF IInv
    <2>2. ASSUME NEW v \in Messages, Enqueue(v)
          PROVE  Channel!Put(v)
      BY <2>1, <2>2, EnqueuePuts DEF Channel!Put, Contents
    <2>3. ASSUME Dequeue
          PROVE  Channel!Get
      BY <2>1, <2>3, DequeueGets DEF Channel!Get, Contents
    <2>4. ASSUME UNCHANGED <<buffer, head, count, delivered>>
          PROVE  UNCHANGED Channel!channel
      BY <2>4 DEF Channel!channel
    <2>5. ASSUME NEW c, Passing(c)
          PROVE  \/ \E v \in Messages : Enqueue(v)
                 \/ Dequeue
                 \/ UNCHANGED <<buffer, head, count, delivered>>
      <3>1. Pass(c) /\ c \in Calls /\ (c.op = "send" => c.msg \in Messages)
        BY <2>5, PassingFacts, CallTypes
      <3> QED  BY <3>1 DEF Pass, SendPass, RecvPass, StartWait
    <2>6. \/ \E v \in Messages : Enqueue(v)
          \/ Dequeue
          \/ UNCHANGED <<buffer, head, count, delivered>>
      <3>1. CASE \E c \in Calls : Call(c)
        BY <2>5, <3>1 DEF Passing
      <3>2. CASE Retry
        BY <2>5, <3>2 DEF Passing
      <3> QED
        BY <3>1, <3>2 DEF Next, QueueStep, SendIsr, EndWait, vars, queueVars
    <2> QED  BY <2>2, <2>3, <2>4, <2>6 DEF Channel!ChannelNext
  <1> QED
    BY <1>1, <1>2, AlwaysHolds, PTL DEF Spec, ImplementsChannel, Channel!ChannelSpec
===============================================================================
