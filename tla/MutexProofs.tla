------------------------------ MODULE MutexProofs ------------------------------
(* The safety properties of Mutex for every number of tasks and mutexes, and,   *)
(* where a task holds one mutex at a time, of its priority inheritance.         *)
EXTENDS Mutex, KernelProofs, FiniteSetTheorems

MutexTypes ==
    /\ owner \in [Mutexes -> 1 .. AppTasks \cup {NoOwner}]
    /\ depth \in [Mutexes -> 0 .. MaxDepth]
    /\ waiters \in [Mutexes -> Seq(Tasks)]
    /\ want \in [Slots -> {<<>>} \cup (Mutexes \X Timeouts)]
PriorityTypes == basePriority \in [Slots -> Nat] /\ priority \in [Slots -> Nat]

(* The task t is between the two critical sections of a wait for the mutex m.   *)
WaitsFor(t, m) == InWaitCode(t) /\ want[t][1] = m

(* A task that is blocked there is linked in the list of its mutex; one that is *)
(* linked without being blocked has timed out and will unlink itself; a task    *)
(* that is about to try again was woken, not timed out.                         *)
BlockedIsLinked ==
    \A m \in Mutexes : \A t \in Tasks : WaitsFor(t, m) /\ state[t] = "BLOCKED" =>
        waitResult[t] = "OK" /\ Linked(waiters[m], t)
LinkedIsInWait ==
    \A m \in Mutexes : \A t \in Tasks : Linked(waiters[m], t) =>
        WaitsFor(t, m) /\ (state[t] = "BLOCKED" \/ waitResult[t] = "TIMEOUT")
NobodyTwice == \A m \in Mutexes : NoRepeats(waiters[m])
CallsAreKnown ==
    \A t \in Tasks :
        /\ InWaitCode(t) \/ pc[t] = "retry" => want[t] \in Mutexes \X Timeouts
        /\ pc[t] = "retry" => state[t] # "BLOCKED" /\ waitResult[t] = "OK"
WaitersInvariant == BlockedIsLinked /\ LinkedIsInWait /\ NobodyTwice /\ CallsAreKnown

(* While a task waits for a free mutex, a woken one is on its way to it.        *)
SomeoneWaits(m) == \E t \in Tasks : InCall(t, m) /\ StillWaiting(t)
Comes(u, m) == InCall(u, m) /\ state[u] \in Runnable /\ waitResult[u] = "OK"
SomeoneComes(m) == owner[m] = NoOwner /\ SomeoneWaits(m) => \E u \in Tasks : Comes(u, m)

(* The inductive invariant, for any use of any number of mutexes.               *)
IInv ==
    /\ KernelInv /\ PriorityTypes /\ MutexTypes /\ WaitersInvariant
    /\ \A m \in Mutexes : SomeoneComes(m)

LEMMA ConstantTypes ==
    /\ IsFiniteSet(Mutexes) /\ NoOwner \notin Slots /\ NoOwner = 0
    /\ Timeouts \subseteq Nat /\ SleepTimes \subseteq Nat
    /\ MaxDepth \in Nat /\ 1 \in 0 .. MaxDepth /\ 0 \in 0 .. MaxDepth
    /\ \A c \in Mutexes \X Timeouts : c # <<>>
  BY MutexAssumption DEF NoOwner

LEMMA IInvFacts ==
    ASSUME IInv
    PROVE  /\ RingIsWhole /\ Tasks \subseteq Slots /\ current \in Tasks /\ current \in Slots
           /\ priority \in [Slots -> Nat]
           /\ \A t \in Tasks : t # Idle => t \in 1 .. AppTasks /\ t # NoOwner
           /\ \A m \in Mutexes : waiters[m] \in Seq(Tasks) /\ NoRepeats(waiters[m])
  <1>1. /\ RingIsWhole /\ Tasks \subseteq Slots /\ current \in Tasks /\ current \in Slots
        /\ priority \in [Slots -> Nat]
        /\ \A t \in Tasks : t # Idle => t \in 1 .. AppTasks
    BY TaskFacts DEF IInv, KernelInv, KernelTypes, PriorityTypes
  <1>2. \A t \in Tasks : t # NoOwner
    BY <1>1, ConstantTypes
  <1> QED
    BY <1>1, <1>2 DEF IInv, MutexTypes, WaitersInvariant, NobodyTwice

(* InCall, in the terms of the invariant.                                       *)
LEMMA InCallMeans ==
    ASSUME CallsAreKnown, NEW t \in Tasks, NEW m \in Mutexes
    PROVE  /\ InCall(t, m) <=> WaitsFor(t, m) \/ (pc[t] = "retry" /\ want[t][1] = m)
           /\ InCall(t, m) /\ state[t] = "BLOCKED" => WaitsFor(t, m)
  <1>1. InWaitCode(t) \/ pc[t] = "retry" => want[t] # <<>>
    BY ConstantTypes DEF CallsAreKnown
  <1> QED  BY <1>1 DEF InCall, WaitsFor, InWaitCode, CallsAreKnown

LEMMA InitHolds == Init => IInv
  <1> SUFFICES ASSUME Init PROVE IInv
    OBVIOUS
  <1> USE ConstantTypes
  <1>1. /\ KernelInv /\ PriorityTypes
        /\ \A t \in Slots : state[t] # "BLOCKED" /\ pc[t] = "app"
    BY KernelInitHolds DEF Init, PrioritiesAreBase, PriorityTypes
  <1>2. Tasks \subseteq Slots
    BY <1>1, TaskFacts DEF KernelInv
  <1>3. \A m \in Mutexes : waiters[m] = <<>>
    BY DEF Init
  <1>4. \A m \in Mutexes : NoRepeats(waiters[m]) /\ \A t : ~Linked(waiters[m], t)
    BY <1>3 DEF Linked, NoRepeats
  <1>5. MutexTypes
    BY DEF Init, MutexTypes
  <1>6. WaitersInvariant
    BY <1>1, <1>2, <1>4
    DEF WaitersInvariant, BlockedIsLinked, LinkedIsInWait, NobodyTwice, CallsAreKnown,
        WaitsFor, InWaitCode
  <1>7. \A m \in Mutexes : SomeoneComes(m)
    BY <1>1, <1>2 DEF SomeoneComes, SomeoneWaits, StillWaiting
  <1> QED  BY <1>1, <1>5, <1>6, <1>7 DEF IInv
-------------------------------------------------------------------------------
(* SysTick, PendSV and the yields.                                              *)
LEMMA KernelStepHolds ==
    ASSUME IInv, KernelStep, UNCHANGED mutexVars
    PROVE  IInv'
  <1>1. /\ KernelInv' /\ ring' = ring
        /\ UNCHANGED <<basePriority, priority, owner, depth, waiters, want>>
        /\ \A t \in Slots : KernelEffect(t)
    BY KernelStepEffect DEF IInv, mutexVars
  <1>2. Tasks' = Tasks /\ Tasks \subseteq Slots
    BY <1>1, TasksHold, IInvFacts
  <1>3. PriorityTypes' /\ MutexTypes'
    BY <1>1, <1>2 DEF IInv, PriorityTypes, MutexTypes
  <1>4. BlockedIsLinked' /\ NobodyTwice'
    BY <1>1, <1>2
    DEF IInv, WaitersInvariant, BlockedIsLinked, NobodyTwice, WaitsFor, KernelEffect,
        OnlySwitched, TimesOut, Runnable
  <1>5. LinkedIsInWait'
    BY <1>1, <1>2
    DEF IInv, WaitersInvariant, LinkedIsInWait, WaitsFor, KernelEffect, OnlySwitched,
        TimesOut, Runnable
  <1>6. CallsAreKnown'
    BY <1>1, <1>2
    DEF IInv, WaitersInvariant, CallsAreKnown, KernelEffect, OnlySwitched, TimesOut, Runnable
  <1>7. ASSUME NEW m \in Mutexes PROVE SomeoneComes(m)'
    <2>1. SomeoneWaits(m)' => SomeoneWaits(m)
      BY <1>1, <1>2
      DEF SomeoneWaits, InCall, StillWaiting, KernelEffect, OnlySwitched, TimesOut,
          Runnable, InWaitCode
    <2>2. \A u \in Tasks : Comes(u, m) => Comes(u, m)'
      BY <1>1, <1>2
      DEF Comes, InCall, KernelEffect, OnlySwitched, TimesOut, Runnable, InWaitCode
    <2> QED  BY <1>1, <1>2, <2>1, <2>2 DEF IInv, SomeoneComes
  <1> QED
    BY <1>1, <1>3, <1>4, <1>5, <1>6, <1>7 DEF IInv, WaitersInvariant

(* A task goes to sleep outside of any call.                                    *)
LEMMA SleepHolds ==
    ASSUME IInv, NEW ms \in SleepTimes, Sleep(ms), UNCHANGED mutexVars
    PROVE  IInv'
  <1>1. /\ ~pendsv /\ current # Idle /\ pc[current] = "app"
        /\ BlockCurrent("SLEEP", ms, "kick") /\ ms \in Nat /\ "SLEEP" \in WaitTypes
        /\ UNCHANGED <<ring, current, pendsv, basePriority, priority>>
        /\ UNCHANGED <<owner, depth, waiters, want>>
    BY ConstantTypes DEF Sleep, InApp, mutexVars, ringVars, WaitTypes
  <1>2. KernelInv' /\ \A t \in Slots : BlockEffect("SLEEP", "kick", t)
    BY <1>1, BlockCurrentEffect DEF IInv
  <1>3. Tasks' = Tasks /\ Tasks \subseteq Slots /\ current \in Tasks
    BY <1>1, TasksHold, IInvFacts
  <1>4. PriorityTypes' /\ MutexTypes'
    BY <1>1, <1>3 DEF IInv, PriorityTypes, MutexTypes
  <1>5. \A t \in Tasks : \A m \in Mutexes :
           /\ WaitsFor(t, m)' <=> WaitsFor(t, m)
           /\ InCall(t, m)' <=> InCall(t, m)
           /\ t = current => ~WaitsFor(t, m) /\ ~InCall(t, m)
           /\ t # current => SameWait(t) /\ SameCode(t)
    BY <1>1, <1>2, <1>3
    DEF BlockEffect, WaitsFor, InCall, InWaitCode, SameWait, SameCode
  <1>6. BlockedIsLinked' /\ LinkedIsInWait' /\ NobodyTwice'
    BY <1>1, <1>3, <1>5
    DEF IInv, WaitersInvariant, BlockedIsLinked, LinkedIsInWait, NobodyTwice, SameWait
  <1>7. CallsAreKnown'
    BY <1>1, <1>2, <1>3
    DEF IInv, WaitersInvariant, CallsAreKnown, BlockEffect, SameWait, SameCode, InWaitCode
  <1>8. ASSUME NEW m \in Mutexes PROVE SomeoneComes(m)'
    <2>1. SomeoneWaits(m)' => SomeoneWaits(m)
      BY <1>3, <1>5 DEF SomeoneWaits, StillWaiting, SameWait
    <2>2. \A u \in Tasks : Comes(u, m) => Comes(u, m)'
      BY <1>3, <1>5 DEF Comes, SameWait
    <2> QED  BY <1>1, <1>3, <2>1, <2>2 DEF IInv, SomeoneComes
  <1> QED
    BY <1>2, <1>4, <1>6, <1>7, <1>8 DEF IInv, WaitersInvariant
-------------------------------------------------------------------------------
(* The greatest of a base and finitely many levels, which recompute_owner_      *)
(* priority() looks for, exists.                                                *)
IsGreatest(p, L) == p \in L /\ \A r \in L : r <= p

LEMMA GreatestExists ==
    ASSUME NEW n \in Nat, NEW f \in [1 .. n -> Nat], NEW b \in Nat
    PROVE  \E p \in Nat : IsGreatest(p, {b} \cup {f[i] : i \in 1 .. n})
  <1> DEFINE Upto(k) == {b} \cup {f[i] : i \in 1 .. k}
             Has(k) == \E p \in Nat : IsGreatest(p, Upto(k))
             Missing == {k \in 0 .. n : ~Has(k)}
  <1>1. Has(0)
    BY DEF IsGreatest
  <1>2. ASSUME NEW k \in 1 .. n, Has(k - 1) PROVE Has(k)
    <2>1. PICK p \in Nat : IsGreatest(p, Upto(k - 1))
      BY <1>2
    <2>2. Upto(k) = Upto(k - 1) \cup {f[k]} /\ f[k] \in Nat
      OBVIOUS
    <2>3. CASE f[k] <= p
      <3>1. IsGreatest(p, Upto(k))
        BY <2>1, <2>2, <2>3 DEF IsGreatest
      <3> QED  BY <3>1
    <2>4. CASE p < f[k]
      <3>1. \A r \in Upto(k - 1) : r \in Nat
        OBVIOUS
      <3>2. IsGreatest(f[k], Upto(k))
        BY <2>1, <2>2, <2>4, <3>1 DEF IsGreatest
      <3> QED  BY <2>2, <3>2
    <2>5. f[k] <= p \/ p < f[k]
      BY <2>2
    <2> HIDE DEF Has
    <2> QED  BY <2>3, <2>4, <2>5
  <1> HIDE DEF Has
  <1>3. Missing = {}
    <2> SUFFICES ASSUME Missing # {} PROVE FALSE
      OBVIOUS
    <2>0. Missing \in SUBSET Nat
      OBVIOUS
    <2>1. PICK k \in Missing : \A j \in Missing : k <= j
      <3> HIDE DEF Missing
      <3> QED  BY <2>0, LeastElement
    <2>2. k \in 0 .. n /\ ~Has(k) /\ k # 0
      BY <1>1, <2>1
    <2>3. k \in 1 .. n /\ k - 1 \in 0 .. n /\ k - 1 < k
      BY <2>2
    <2>4. k - 1 \notin Missing
      BY <2>1, <2>3
    <2> QED  BY <1>2, <2>2, <2>3, <2>4
  <1>4. Has(n)
    BY <1>3
  <1> QED  BY <1>4 DEF Has

(* recompute_owner_priority() gives the owner its base priority or that of a    *)
(* task linked in the list that waits, whichever is the greatest.               *)
Levels(o, q) == {basePriority[o]} \cup {priority[t] : t \in {u \in Waiting : Linked(q, u)}}

LEMMA InheritedIsGreatest ==
    ASSUME PriorityTypes, RingIsWhole, NEW o \in Slots, NEW q \in Seq(Tasks)
    PROVE  /\ InheritedBy(o, q) \in Nat
           /\ IsGreatest(InheritedBy(o, q), Levels(o, q))
  <1> DEFINE f == [i \in 1 .. Len(q) |->
                      IF q[i] \in Waiting THEN priority[q[i]] ELSE basePriority[o]]
  <1>1. /\ Len(q) \in Nat /\ basePriority[o] \in Nat
        /\ \A i \in 1 .. Len(q) : q[i] \in Slots
    BY TaskFacts, LenProperties, ElementOfSeq DEF PriorityTypes
  <1>2. \A i \in 1 .. Len(q) :
           (IF q[i] \in Waiting THEN priority[q[i]] ELSE basePriority[o]) \in Nat
    BY <1>1 DEF PriorityTypes
  <1>3. f \in [1 .. Len(q) -> Nat]
    BY <1>2
  <1>4. {basePriority[o]} \cup {f[i] : i \in 1 .. Len(q)} = Levels(o, q)
    BY DEF Levels, Linked
  <1> HIDE DEF f
  <1>5. PICK p \in Nat : IsGreatest(p, Levels(o, q))
    <2>1. \E p \in Nat : IsGreatest(p, {basePriority[o]} \cup {f[i] : i \in 1 .. Len(q)})
      BY <1>1, <1>3, GreatestExists
    <2> QED  BY <1>4, <2>1
  <1>6. {q[i] : i \in 1 .. Len(q)} \cap Waiting = {u \in Waiting : Linked(q, u)}
    BY DEF Linked
  <1>7. InheritedBy(o, q) = CHOOSE r \in Levels(o, q) : \A s \in Levels(o, q) : s <= r
    BY <1>6 DEF InheritedBy, Levels
  <1>8. IsGreatest(InheritedBy(o, q), Levels(o, q))
    BY <1>5, <1>7 DEF IsGreatest
  <1>9. Levels(o, q) \subseteq Nat
    BY <1>1, TaskFacts DEF Levels, PriorityTypes, Waiting
  <1> QED  BY <1>8, <1>9 DEF IsGreatest
-------------------------------------------------------------------------------
(* The task that comes back from its wait leaves the call, or tries again.      *)
WantsHold ==
    /\ want' \in [Slots -> {<<>>} \cup (Mutexes \X Timeouts)]
    /\ \A t \in Slots : t # current => want'[t] = want[t]
Leaves(m) ==
    /\ pc'[current] = "app" /\ waitResult[current] = "TIMEOUT" /\ want[current][1] = m
    /\ waiters' = [waiters EXCEPT ![m] = WaitRemove(@, current)]
    /\ priority' = Recomputed(m, waiters'[m])
TriesAgain ==
    /\ pc'[current] = "retry" /\ waitResult[current] = "OK"
    /\ UNCHANGED <<want, waiters, priority>>

LEMMA EndWaitFacts ==
    ASSUME IInv, EndWait
    PROVE  /\ KernelInv' /\ state[current] = "RUNNING" /\ pc[current] = "resume"
           /\ ~pendsv /\ current # Idle /\ want[current] \in Mutexes \X Timeouts
           /\ \A t \in Slots : t # current => SameWait(t) /\ SameCode(t)
           /\ WantsHold
           /\ (\E m \in Mutexes : Leaves(m)) \/ TriesAgain
           /\ UNCHANGED <<ring, lockCount, current, pendsv, state, basePriority, waitResult,
                          owner, depth>>
  <1>1. /\ Resuming
        /\ UNCHANGED <<ring, lockCount, current, pendsv, state, delay, basePriority,
                       waitResult, owner, depth>>
    BY DEF EndWait, ringVars, lockVars
  <1>2. /\ state[current] = "RUNNING" /\ current \in Slots /\ current \in Tasks
        /\ pc[current] = "resume" /\ ~pendsv /\ current # Idle
    BY <1>1, CallerFacts DEF IInv, Resuming
  <1>3. want[current] \in Mutexes \X Timeouts
    BY <1>2 DEF IInv, WaitersInvariant, CallsAreKnown, InWaitCode
  <1>4. want \in [Slots -> {<<>>} \cup (Mutexes \X Timeouts)]
    BY DEF IInv, MutexTypes
  <1>5. CASE TimedOut
    <2>1. /\ waitResult[current] = "TIMEOUT" /\ GoTo("app")
          /\ waitType' = [waitType EXCEPT ![current] = "NONE"]
          /\ want' = [want EXCEPT ![current] = <<>>]
      BY <1>5 DEF TimedOut
    <2>2. /\ KernelInv' /\ pc'[current] = "app"
          /\ \A t \in Slots : t # current => SameWait(t) /\ SameCode(t)
      BY <1>1, <2>1, EndWaitEffect DEF IInv
    <2>3. WantsHold
      BY <1>4, <2>1 DEF WantsHold
    <2>4. PICK m \in Mutexes : m = want[current][1]
      BY <1>3
    <2>5. Leaves(m)
      BY <1>5, <2>2, <2>4 DEF TimedOut, Leaves
    <2> QED  BY <1>1, <1>2, <1>3, <2>2, <2>3, <2>5
  <1>6. CASE Woken
    <2>1. /\ waitResult[current] = "OK" /\ GoTo("retry")
          /\ UNCHANGED <<waiters, waitType, priority, want>>
      BY <1>6 DEF Woken
    <2>2. /\ KernelInv' /\ pc'[current] = "retry"
          /\ \A t \in Slots : t # current => SameWait(t) /\ SameCode(t)
      BY <1>1, <2>1, EndWaitEffect DEF IInv
    <2>3. WantsHold
      BY <1>4, <2>1 DEF WantsHold
    <2> QED  BY <1>1, <1>2, <1>3, <2>1, <2>2, <2>3 DEF TriesAgain
  <1> QED  BY <1>5, <1>6 DEF EndWait

LEMMA EndWaitUnlinks ==
    ASSUME IInv, EndWait
    PROVE  /\ waiters' \in [Mutexes -> Seq(Tasks)]
           /\ \A m \in Mutexes : Removed(waiters'[m], waiters[m], current)
  <1>1. /\ waiters \in [Mutexes -> Seq(Tasks)]
        /\ \A m \in Mutexes : waiters[m] \in Seq(Tasks) /\ NoRepeats(waiters[m])
        /\ current \in Tasks
    BY IInvFacts DEF IInv, MutexTypes
  <1>2. \A m \in Mutexes : Linked(waiters[m], current) =>
            want[current][1] = m /\ waitResult[current] = "TIMEOUT"
    BY <1>1, EndWaitFacts DEF IInv, WaitersInvariant, LinkedIsInWait, WaitsFor
  <1>3. CASE \E m \in Mutexes : Leaves(m)
    <2>1. PICK m \in Mutexes : Leaves(m)
      BY <1>3
    <2>2. /\ waiters' = [waiters EXCEPT ![m] = WaitRemove(waiters[m], current)]
          /\ want[current][1] = m
      BY <2>1 DEF Leaves
    <2>3. Removed(WaitRemove(waiters[m], current), waiters[m], current)
      BY <1>1, RemoveUnlinks
    <2>4. waiters' \in [Mutexes -> Seq(Tasks)]
      BY <1>1, <2>2, <2>3 DEF Removed
    <2>5. waiters'[m] = WaitRemove(waiters[m], current)
      BY <1>1, <2>2
    <2>6. ASSUME NEW n \in Mutexes, n # m
          PROVE  Removed(waiters'[n], waiters[n], current)
      <3>1. waiters'[n] = waiters[n] /\ ~Linked(waiters[n], current)
        BY <1>1, <1>2, <2>2, <2>6
      <3> QED  BY <1>1, <3>1 DEF Removed
    <2> QED  BY <2>3, <2>4, <2>5, <2>6
  <1>4. CASE TriesAgain
    <2>1. waiters' = waiters /\ \A m \in Mutexes : ~Linked(waiters[m], current)
      BY <1>2, <1>4 DEF TriesAgain
    <2> QED  BY <1>1, <2>1 DEF Removed
  <1> QED  BY <1>3, <1>4, EndWaitFacts

(* Only the owner's priority is recomputed.                                     *)
LEMMA RecomputedFacts ==
    ASSUME IInv, NEW m \in Mutexes, NEW q \in Seq(Tasks)
    PROVE  /\ Recomputed(m, q) \in [Slots -> Nat]
           /\ \A t \in Slots : owner[m] # t => Recomputed(m, q)[t] = priority[t]
           /\ owner[m] # NoOwner =>
                 IsGreatest(Recomputed(m, q)[owner[m]], Levels(owner[m], q))
  <1>1. /\ priority \in [Slots -> Nat] /\ owner[m] \in 1 .. AppTasks \cup {NoOwner}
        /\ RingIsWhole /\ PriorityTypes
    BY IInvFacts DEF IInv, MutexTypes
  <1>2. CASE owner[m] = NoOwner
    BY <1>1, <1>2, ConstantTypes DEF Recomputed
  <1>3. CASE owner[m] # NoOwner
    <2>1. owner[m] \in Slots
      BY <1>1, <1>3, TaskFacts
    <2>2. PICK o \in Slots : o = owner[m]
      BY <2>1
    <2>3. InheritedBy(o, q) \in Nat /\ IsGreatest(InheritedBy(o, q), Levels(o, q))
      BY <1>1, InheritedIsGreatest
    <2>4. Recomputed(m, q) = [priority EXCEPT ![o] = InheritedBy(o, q)]
      BY <1>3, <2>2 DEF Recomputed
    <2>5. /\ Recomputed(m, q) \in [Slots -> Nat]
          /\ \A t \in Slots : t # o => Recomputed(m, q)[t] = priority[t]
          /\ Recomputed(m, q)[o] = InheritedBy(o, q)
      BY <1>1, <2>3, <2>4
    <2> QED  BY <2>2, <2>3, <2>5
  <1> QED  BY <1>2, <1>3

LEMMA EndWaitHolds ==
    ASSUME IInv, EndWait
    PROVE  IInv'
  <1>1. /\ KernelInv' /\ state[current] = "RUNNING" /\ pc[current] = "resume"
        /\ \A t \in Slots : t # current => SameWait(t) /\ SameCode(t)
        /\ WantsHold
        /\ (\E m \in Mutexes : Leaves(m)) \/ TriesAgain
        /\ UNCHANGED <<ring, current, state, basePriority, waitResult, owner, depth>>
    BY EndWaitFacts
  <1>2. Tasks' = Tasks /\ Tasks \subseteq Slots /\ current \in Tasks
    BY <1>1, TasksHold, IInvFacts
  <1>3. /\ waiters' \in [Mutexes -> Seq(Tasks)]
        /\ \A m \in Mutexes : Removed(waiters'[m], waiters[m], current)
    BY EndWaitUnlinks
  <1>4. PriorityTypes'
    <2>1. priority' \in [Slots -> Nat]
      <3>1. CASE TriesAgain
        BY <3>1 DEF TriesAgain, IInv, PriorityTypes
      <3>2. CASE \E m \in Mutexes : Leaves(m)
        <4>1. PICK m \in Mutexes : priority' = Recomputed(m, waiters'[m])
          BY <3>2 DEF Leaves
        <4> QED  BY <1>3, <4>1, RecomputedFacts
      <3> QED  BY <1>1, <3>1, <3>2
    <2> QED  BY <1>1, <2>1 DEF IInv, PriorityTypes
  <1>5. MutexTypes'
    BY <1>1, <1>2, <1>3 DEF IInv, MutexTypes, WantsHold
  <1>6. \A t \in Tasks : \A m \in Mutexes :
           /\ t # current => (WaitsFor(t, m)' <=> WaitsFor(t, m))
           /\ t # current => (InCall(t, m)' <=> InCall(t, m))
           /\ t = current => ~WaitsFor(t, m)'
    BY <1>1, <1>2
    DEF WaitsFor, InCall, InWaitCode, SameCode, WantsHold, Leaves, TriesAgain
  <1>7. BlockedIsLinked' /\ LinkedIsInWait' /\ NobodyTwice'
    BY <1>1, <1>2, <1>3, <1>6
    DEF IInv, WaitersInvariant, BlockedIsLinked, LinkedIsInWait, NobodyTwice, SameWait,
        Removed
  <1>8. CallsAreKnown'
    BY <1>1, <1>2
    DEF IInv, WaitersInvariant, CallsAreKnown, SameWait, SameCode, InWaitCode, WantsHold,
        Leaves, TriesAgain
  <1>9. ASSUME NEW m \in Mutexes PROVE SomeoneComes(m)'
    <2>1. SomeoneWaits(m)' => SomeoneWaits(m)
      BY <1>1, <1>2, <1>6 DEF SomeoneWaits, StillWaiting, SameWait
    <2>2. ASSUME NEW u \in Tasks, Comes(u, m) PROVE Comes(u, m)'
      <3>1. CASE u # current
        BY <1>1, <1>2, <1>6, <2>2, <3>1 DEF Comes, SameWait
      <3>2. CASE u = current
        <4>1. TriesAgain /\ waitResult[current] = "OK"
          BY <1>1, <2>2, <3>2 DEF Comes, Leaves
        <4> QED  BY <1>1, <2>2, <3>2, <4>1 DEF Comes, InCall, TriesAgain
      <3> QED  BY <3>1, <3>2
    <2> QED  BY <1>1, <1>2, <2>1, <2>2 DEF IInv, SomeoneComes
  <1> QED
    BY <1>1, <1>4, <1>5, <1>7, <1>8, <1>9 DEF IInv, WaitersInvariant
-------------------------------------------------------------------------------
(* A pass through the loop of a lock call, the first one or a later one.        *)
Passing(m, ms) ==
    /\ m \in Mutexes /\ ms \in Timeouts
    /\ Lock(m, ms) \/ (Retry /\ want[current] = <<m, ms>>)

LEMMA PassingFacts ==
    ASSUME IInv, NEW m, NEW ms, Passing(m, ms)
    PROVE  /\ ~pendsv /\ current # Idle /\ pc[current] \in {"app", "retry"}
           /\ state[current] = "RUNNING"
           /\ Acquire(m) \/ Relock(m) \/ StartWait(m, ms)
           /\ UNCHANGED <<ring, lockCount, current, pendsv, basePriority>>
           /\ \A n \in Mutexes : ~Linked(waiters[n], current) /\ ~WaitsFor(current, n)
           /\ \A n \in Mutexes : n # m => ~InCall(current, n)
  <1>1. /\ ~pendsv /\ pc[current] \in {"app", "retry"}
        /\ UNCHANGED <<ring, lockCount, current, pendsv, basePriority>>
        /\ pc[current] = "app" => current # Idle
        /\ pc[current] = "retry" => want[current] = <<m, ms>>
    BY DEF Passing, Lock, Retry, InApp, ringVars, lockVars
  <1>2. state[current] = "RUNNING" /\ current # Idle /\ current \in Tasks
    BY <1>1, CallerFacts DEF IInv
  <1>3. Acquire(m) \/ Relock(m) \/ StartWait(m, ms)
    <2>1. CASE Lock(m, ms)
      BY <2>1 DEF Lock
    <2>2. CASE Retry /\ want[current] = <<m, ms>>
      BY <2>2 DEF Retry
    <2> QED  BY <2>1, <2>2 DEF Passing
  <1>4. \A n \in Mutexes : ~Linked(waiters[n], current) /\ ~WaitsFor(current, n)
    BY <1>1, <1>2 DEF IInv, WaitersInvariant, LinkedIsInWait, WaitsFor, InWaitCode
  <1>5. \A n \in Mutexes : n # m => ~InCall(current, n)
    BY <1>1 DEF InCall
  <1> QED  BY <1>1, <1>2, <1>3, <1>4, <1>5

(* The mutex is free, and the task gets it.                                     *)
LEMMA AcquireHolds ==
    ASSUME IInv, NEW m, NEW ms, Passing(m, ms), Acquire(m)
    PROVE  IInv'
  <1> USE ConstantTypes
  <1>1. /\ m \in Mutexes /\ current # Idle /\ pc[current] \in {"app", "retry"}
        /\ state[current] = "RUNNING" /\ ~pendsv
        /\ \A n \in Mutexes : ~Linked(waiters[n], current) /\ ~WaitsFor(current, n)
        /\ \A n \in Mutexes : n # m => ~InCall(current, n)
        /\ UNCHANGED <<ring, current, pendsv, basePriority, priority, state, delay,
                       waitType, waitResult, waiters>>
    BY PassingFacts DEF Passing, Acquire, tcbVars
  <1>2. /\ owner' = [owner EXCEPT ![m] = current] /\ depth' = [depth EXCEPT ![m] = 1]
        /\ want' = [want EXCEPT ![current] = <<>>]
        /\ pc' = [pc EXCEPT ![current] = "app"]
    BY DEF Acquire, GoTo
  <1>3. /\ Tasks' = Tasks /\ Tasks \subseteq Slots /\ current \in Tasks
        /\ current \in 1 .. AppTasks
    BY <1>1, TasksHold, IInvFacts
  <1>4. KernelTypes /\ RingIsWhole /\ IdleStaysOut
    BY DEF IInv, KernelInv
  <1>5. /\ pc' \in [Slots -> PCs] /\ pc'[current] = "app"
        /\ \A t \in Slots : t # current => pc'[t] = pc[t]
    BY <1>2, <1>3, <1>4 DEF KernelTypes, PCs
  <1>6. KernelInv'
    <2>1. KernelTypes'
      BY <1>1, <1>3, <1>4, <1>5 DEF KernelTypes
    <2>2. IdleStaysOut' /\ ServedRuns'
      BY <1>1, <1>3, <1>4, <1>5, TaskFacts DEF IdleStaysOut, ServedRuns
    <2> QED  BY <1>1, <1>4, <2>1, <2>2, TasksHold DEF KernelInv
  <1>7. PriorityTypes' /\ MutexTypes'
    BY <1>1, <1>2, <1>3 DEF IInv, PriorityTypes, MutexTypes
  <1>8. /\ \A t \in Slots : t # current => want'[t] = want[t]
        /\ \A n \in Mutexes : n # m => owner'[n] = owner[n]
        /\ owner'[m] = current
    BY <1>1, <1>2 DEF IInv, MutexTypes
  <1>9. \A t \in Tasks : \A n \in Mutexes :
           /\ WaitsFor(t, n)' <=> WaitsFor(t, n)
           /\ t # current => (InCall(t, n)' <=> InCall(t, n))
           /\ t = current => ~InCall(t, n)'
    BY <1>1, <1>3, <1>5, <1>8 DEF WaitsFor, InCall, InWaitCode
  <1>10. BlockedIsLinked' /\ LinkedIsInWait' /\ NobodyTwice'
    BY <1>1, <1>3, <1>9
    DEF IInv, WaitersInvariant, BlockedIsLinked, LinkedIsInWait, NobodyTwice
  <1>11. CallsAreKnown'
    BY <1>1, <1>3, <1>5, <1>8 DEF IInv, WaitersInvariant, CallsAreKnown, InWaitCode
  <1>12. ASSUME NEW n \in Mutexes PROVE SomeoneComes(n)'
    <2>1. CASE n = m
      BY <1>3, <1>8, <2>1, IInvFacts DEF SomeoneComes
    <2>2. CASE n # m
      <3>1. SomeoneWaits(n)' => SomeoneWaits(n)
        BY <1>1, <1>3, <1>9 DEF SomeoneWaits, StillWaiting
      <3>2. \A u \in Tasks : Comes(u, n) => Comes(u, n)'
        BY <1>1, <1>3, <1>9, <2>2 DEF Comes
      <3> QED  BY <1>3, <1>8, <2>2, <3>1, <3>2 DEF IInv, SomeoneComes
    <2> QED  BY <2>1, <2>2
  <1> QED
    BY <1>6, <1>7, <1>10, <1>11, <1>12 DEF IInv, WaitersInvariant

LEMMA SameHolds ==
    ASSUME IInv, depth' \in [Mutexes -> 0 .. MaxDepth],
           UNCHANGED <<ring, current, pendsv, state, delay, waitType, waitResult, pc,
                       basePriority, priority, owner, waiters, want>>
    PROVE  IInv'
  <1>1. Tasks' = Tasks
    BY TasksHold
  <1>2. KernelInv' /\ PriorityTypes' /\ MutexTypes'
    BY <1>1
    DEF IInv, KernelInv, KernelTypes, RingIsWhole, TaskCount, ServedRuns, IdleStaysOut,
        PriorityTypes, MutexTypes
  <1>3. WaitersInvariant'
    BY <1>1
    DEF IInv, WaitersInvariant, BlockedIsLinked, LinkedIsInWait, NobodyTwice, CallsAreKnown,
        WaitsFor, InWaitCode, NoRepeats, Linked
  <1>4. \A m \in Mutexes : SomeoneComes(m)'
    BY <1>1 DEF IInv, SomeoneComes, SomeoneWaits, Comes, InCall, StillWaiting
  <1> QED  BY <1>2, <1>3, <1>4 DEF IInv

LEMMA RelockHolds ==
    ASSUME IInv, NEW m, NEW ms, Passing(m, ms), Relock(m)
    PROVE  IInv'
  <1>1. m \in Mutexes /\ depth \in [Mutexes -> 0 .. MaxDepth]
    BY DEF Passing, IInv, MutexTypes
  <1>2. depth[m] + 1 \in 0 .. MaxDepth
    BY <1>1, ConstantTypes DEF Relock
  <1>3. depth' \in [Mutexes -> 0 .. MaxDepth]
    BY <1>1, <1>2 DEF Relock
  <1>4. UNCHANGED <<ring, current, pendsv, state, delay, waitType, waitResult, pc,
                    basePriority, priority, owner, waiters, want>>
    BY PassingFacts DEF Relock, tcbVars
  <1> QED  BY <1>3, <1>4, SameHolds

(* The mutex has another owner, and the task waits.                             *)
LEMMA StartWaitFacts ==
    ASSUME IInv, NEW m, NEW ms, Passing(m, ms), StartWait(m, ms)
    PROVE  /\ KernelInv' /\ \A t \in Slots : BlockEffect("MUTEX", "block", t)
           /\ owner[m] \in 1 .. AppTasks /\ owner[m] # current /\ owner[m] \in Slots
           /\ UNCHANGED <<owner, depth>>
           /\ want' \in [Slots -> {<<>>} \cup (Mutexes \X Timeouts)]
           /\ want'[current] = <<m, ms>> /\ <<m, ms>> \in Mutexes \X Timeouts
           /\ \A t \in Slots : t # current => want'[t] = want[t]
           /\ priority' \in [Slots -> Nat]
           /\ priority'[owner[m]] = Higher(priority[current], priority[owner[m]])
           /\ \A t \in Slots : t # owner[m] => priority'[t] = priority[t]
           /\ waiters' \in [Mutexes -> Seq(Tasks)]
           /\ Pushed(waiters'[m], waiters[m], current)
           /\ Sorted(waiters[m], priority) => Sorted(waiters'[m], priority)
           /\ \A n \in Mutexes : n # m => waiters'[n] = waiters[n]
  <1>1. /\ m \in Mutexes /\ ms \in Timeouts /\ ms \in Nat /\ "MUTEX" \in WaitTypes
        /\ ~pendsv /\ current # Idle /\ ~Linked(waiters[m], current)
        /\ UNCHANGED <<ring, current, pendsv, owner, depth>>
    BY PassingFacts, ConstantTypes DEF Passing, WaitTypes, StartWait
  <1>2. /\ BlockCurrent("MUTEX", ms, "block") /\ owner[m] # current /\ owner[m] # NoOwner
        /\ priority' = [priority EXCEPT ![owner[m]] = Higher(priority[current], priority[owner[m]])]
        /\ waiters' = [waiters EXCEPT ![m] = WaitPush(waiters[m], current, priority)]
        /\ want' = [want EXCEPT ![current] = <<m, ms>>]
    BY DEF StartWait
  <1>3. /\ RingIsWhole /\ current \in Tasks /\ current \in Slots
        /\ priority \in [Slots -> Nat] /\ waiters \in [Mutexes -> Seq(Tasks)]
        /\ waiters[m] \in Seq(Tasks) /\ NoRepeats(waiters[m])
        /\ owner[m] \in 1 .. AppTasks /\ owner[m] \in Slots
        /\ want \in [Slots -> {<<>>} \cup (Mutexes \X Timeouts)]
    BY <1>1, <1>2, IInvFacts, TaskFacts DEF IInv, MutexTypes
  <1>4. KernelInv' /\ \A t \in Slots : BlockEffect("MUTEX", "block", t)
    BY <1>1, <1>2, BlockCurrentEffect DEF IInv
  <1>5. /\ want' \in [Slots -> {<<>>} \cup (Mutexes \X Timeouts)]
        /\ want'[current] = <<m, ms>> /\ <<m, ms>> \in Mutexes \X Timeouts
        /\ \A t \in Slots : t # current => want'[t] = want[t]
    BY <1>1, <1>2, <1>3
  <1>6. Higher(priority[current], priority[owner[m]]) \in Nat
    BY <1>3 DEF Higher
  <1>7. /\ priority' \in [Slots -> Nat]
        /\ priority'[owner[m]] = Higher(priority[current], priority[owner[m]])
        /\ \A t \in Slots : t # owner[m] => priority'[t] = priority[t]
    BY <1>2, <1>3, <1>6
  <1>8. /\ Pushed(WaitPush(waiters[m], current, priority), waiters[m], current)
        /\ Sorted(waiters[m], priority) =>
              Sorted(WaitPush(waiters[m], current, priority), priority)
    BY <1>1, <1>3, PushLinks
  <1>9. /\ waiters' \in [Mutexes -> Seq(Tasks)]
        /\ waiters'[m] = WaitPush(waiters[m], current, priority)
        /\ \A n \in Mutexes : n # m => waiters'[n] = waiters[n]
    BY <1>1, <1>2, <1>3, <1>8 DEF Pushed
  <1> QED  BY <1>1, <1>2, <1>3, <1>4, <1>5, <1>7, <1>8, <1>9

LEMMA StartWaitHolds ==
    ASSUME IInv, NEW m, NEW ms, Passing(m, ms), StartWait(m, ms)
    PROVE  IInv'
  <1>1. /\ m \in Mutexes /\ state[current] = "RUNNING"
        /\ UNCHANGED <<ring, current, basePriority>>
        /\ \A n \in Mutexes : ~Linked(waiters[n], current) /\ ~WaitsFor(current, n)
        /\ \A n \in Mutexes : n # m => ~InCall(current, n)
    BY PassingFacts DEF Passing
  <1>2. /\ KernelInv' /\ \A t \in Slots : BlockEffect("MUTEX", "block", t)
        /\ owner[m] \in 1 .. AppTasks /\ UNCHANGED <<owner, depth>>
        /\ want' \in [Slots -> {<<>>} \cup (Mutexes \X Timeouts)]
        /\ want'[current] = <<m, ms>> /\ <<m, ms>> \in Mutexes \X Timeouts
        /\ \A t \in Slots : t # current => want'[t] = want[t]
        /\ priority' \in [Slots -> Nat]
        /\ waiters' \in [Mutexes -> Seq(Tasks)]
        /\ Pushed(waiters'[m], waiters[m], current)
        /\ \A n \in Mutexes : n # m => waiters'[n] = waiters[n]
    BY StartWaitFacts
  <1>3. Tasks' = Tasks /\ Tasks \subseteq Slots /\ current \in Tasks
    BY <1>1, TasksHold, IInvFacts
  <1>4. PriorityTypes' /\ MutexTypes'
    BY <1>1, <1>2, <1>3 DEF IInv, PriorityTypes, MutexTypes
  <1>5. \A t \in Tasks : \A n \in Mutexes :
           /\ t # current => (WaitsFor(t, n)' <=> WaitsFor(t, n))
           /\ t # current => (InCall(t, n)' <=> InCall(t, n))
           /\ t # current => SameWait(t) /\ SameCode(t)
    BY <1>1, <1>2, <1>3 DEF WaitsFor, InCall, InWaitCode, BlockEffect, SameCode, SameWait
  <1>6. /\ WaitsFor(current, m)' /\ state'[current] = "BLOCKED" /\ waitResult'[current] = "OK"
        /\ pc'[current] = "block"
        /\ \A n \in Mutexes : n # m => ~WaitsFor(current, n)' /\ ~InCall(current, n)'
    <2>1. /\ want'[current][1] = m /\ state'[current] = "BLOCKED"
          /\ waitResult'[current] = "OK" /\ pc'[current] = "block"
      BY <1>2, <1>3 DEF BlockEffect
    <2> QED  BY <1>1, <2>1 DEF WaitsFor, InCall, InWaitCode
  <1>7. \A n \in Mutexes : \A t \in Tasks :
           Linked(waiters'[n], t) <=> (n = m /\ t = current) \/ Linked(waiters[n], t)
    BY <1>2 DEF Pushed
  <1>8. BlockedIsLinked' /\ LinkedIsInWait' /\ NobodyTwice'
    <2>1. BlockedIsLinked'
      BY <1>1, <1>3, <1>5, <1>6, <1>7
      DEF IInv, WaitersInvariant, BlockedIsLinked, SameWait
    <2>2. LinkedIsInWait'
      BY <1>1, <1>3, <1>5, <1>6, <1>7
      DEF IInv, WaitersInvariant, LinkedIsInWait, SameWait
    <2>3. NobodyTwice'
      BY <1>2 DEF IInv, WaitersInvariant, NobodyTwice, Pushed
    <2> QED  BY <2>1, <2>2, <2>3
  <1>9. CallsAreKnown'
    <2> SUFFICES ASSUME NEW t \in Tasks
                 PROVE  /\ InWaitCode(t)' \/ pc'[t] = "retry" =>
                              want'[t] \in Mutexes \X Timeouts
                        /\ pc'[t] = "retry" => state'[t] # "BLOCKED" /\ waitResult'[t] = "OK"
      BY <1>3 DEF CallsAreKnown
    <2>1. CASE t = current
      BY <1>2, <1>6, <2>1
    <2>2. CASE t # current
      BY <1>2, <1>3, <1>5, <2>2
      DEF IInv, WaitersInvariant, CallsAreKnown, SameWait, SameCode, InWaitCode
    <2> QED  BY <2>1, <2>2
  <1>10. ASSUME NEW n \in Mutexes PROVE SomeoneComes(n)'
    <2>1. CASE n = m
      BY <1>2, <2>1, ConstantTypes DEF SomeoneComes
    <2>2. CASE n # m
      <3>1. SomeoneWaits(n)' => SomeoneWaits(n)
        BY <1>1, <1>3, <1>5, <1>6, <2>2 DEF SomeoneWaits, StillWaiting, SameWait
      <3>2. \A u \in Tasks : Comes(u, n) => Comes(u, n)'
        BY <1>1, <1>3, <1>5, <2>2 DEF Comes, SameWait
      <3> QED  BY <1>2, <1>3, <3>1, <3>2 DEF IInv, SomeoneComes
    <2> QED  BY <2>1, <2>2
  <1> QED
    BY <1>2, <1>4, <1>8, <1>9, <1>10 DEF IInv, WaitersInvariant

LEMMA PassHolds ==
    ASSUME IInv, NEW m, NEW ms, Passing(m, ms)
    PROVE  IInv'
  BY PassingFacts, AcquireHolds, RelockHolds, StartWaitHolds
-------------------------------------------------------------------------------
(* The owner gives the mutex back, and the first waiter is woken.               *)
LEMMA UnlockOuterFacts ==
    ASSUME IInv, NEW m \in Mutexes, Unlock(m), UnlockOuter(m)
    PROVE  /\ KernelInv' /\ \A t \in Slots : WakeEffect(waiters[m], t)
           /\ ~pendsv /\ current # Idle /\ pc[current] = "app" /\ state[current] = "RUNNING"
           /\ \A t \in Slots : t # current => SameCode(t)
           /\ pc'[current] \in {"app", "kick"}
           /\ ~NobodyWaits(waiters[m]) => current # Chosen(waiters[m]) /\ pc'[current] = "kick"
           /\ UNCHANGED <<ring, lockCount, current, pendsv, basePriority, want>>
           /\ priority' \in [Slots -> Nat] /\ priority'[current] = basePriority[current]
           /\ \A t \in Slots : t # current => priority'[t] = priority[t]
           /\ owner[m] = current /\ owner'[m] = NoOwner
           /\ \A n \in Mutexes : n # m => owner'[n] = owner[n]
           /\ waiters'[m] = WaitPop(waiters[m], Waiting)
           /\ Popped(waiters'[m], waiters[m])
           /\ \A n \in Mutexes : n # m => waiters'[n] = waiters[n]
           /\ MutexTypes'
  <1>1. /\ ~pendsv /\ current # Idle /\ pc[current] = "app" /\ owner[m] = current
        /\ UNCHANGED <<ring, lockCount, current, pendsv, basePriority, want>>
    BY DEF Unlock, InApp, ringVars, lockVars
  <1>2. /\ depth' = [depth EXCEPT ![m] = 0] /\ owner' = [owner EXCEPT ![m] = NoOwner]
        /\ priority' = [priority EXCEPT ![current] = basePriority[current]]
        /\ waiters' = [waiters EXCEPT ![m] = WaitPop(waiters[m], Waiting)]
        /\ WakeFirst(waiters[m]) /\ ReturnAfterWake(waiters[m])
    BY DEF UnlockOuter
  <1>3. /\ RingIsWhole /\ current \in Tasks /\ current \in Slots
        /\ priority \in [Slots -> Nat] /\ basePriority \in [Slots -> Nat]
        /\ waiters \in [Mutexes -> Seq(Tasks)] /\ pc \in [Slots -> PCs]
        /\ waiters[m] \in Seq(Tasks) /\ NoRepeats(waiters[m])
        /\ state[current] = "RUNNING"
    BY <1>1, CallerFacts, IInvFacts DEF IInv, MutexTypes, PriorityTypes, KernelInv, KernelTypes
  <1>4. /\ KernelInv'
        /\ \A t \in Slots : WakeEffect(waiters[m], t)
        /\ \A t \in Slots : t # current => SameCode(t)
        /\ pc'[current] \in {"app", "kick"}
        /\ ~NobodyWaits(waiters[m]) => current # Chosen(waiters[m])
    BY <1>1, <1>2, <1>3, TaskWakesEffect DEF IInv
  <1>5. ~NobodyWaits(waiters[m]) => pc'[current] = "kick"
    BY <1>2, <1>3 DEF ReturnAfterWake, GoTo
  <1>6. /\ priority' \in [Slots -> Nat] /\ priority'[current] = basePriority[current]
        /\ \A t \in Slots : t # current => priority'[t] = priority[t]
    BY <1>2, <1>3
  <1>7. Popped(WaitPop(waiters[m], Waiting), waiters[m])
    BY <1>3, PopLinks
  <1>8. /\ waiters' \in [Mutexes -> Seq(Tasks)]
        /\ waiters'[m] = WaitPop(waiters[m], Waiting)
        /\ \A n \in Mutexes : n # m => waiters'[n] = waiters[n]
    BY <1>2, <1>3, <1>7 DEF Popped
  <1>9. /\ owner' \in [Mutexes -> 1 .. AppTasks \cup {NoOwner}] /\ owner'[m] = NoOwner
        /\ \A n \in Mutexes : n # m => owner'[n] = owner[n]
        /\ depth' \in [Mutexes -> 0 .. MaxDepth]
    BY <1>2, ConstantTypes DEF IInv, MutexTypes
  <1>10. MutexTypes'
    BY <1>1, <1>8, <1>9, TasksHold DEF IInv, MutexTypes
  <1> QED
    BY <1>1, <1>3, <1>4, <1>5, <1>6, <1>7, <1>8, <1>9, <1>10

LEMMA UnlockOuterHolds ==
    ASSUME IInv, NEW m \in Mutexes, Unlock(m), UnlockOuter(m)
    PROVE  IInv'
  <1>1. /\ KernelInv' /\ \A t \in Slots : WakeEffect(waiters[m], t)
        /\ pc[current] = "app"
        /\ \A t \in Slots : t # current => SameCode(t)
        /\ pc'[current] \in {"app", "kick"}
        /\ UNCHANGED <<ring, current, basePriority, want>>
        /\ priority' \in [Slots -> Nat]
        /\ \A n \in Mutexes : n # m => owner'[n] = owner[n]
        /\ Popped(waiters'[m], waiters[m])
        /\ \A n \in Mutexes : n # m => waiters'[n] = waiters[n]
        /\ MutexTypes'
    BY UnlockOuterFacts
  <1>2. Tasks' = Tasks /\ Tasks \subseteq Slots /\ current \in Tasks
    BY <1>1, TasksHold, IInvFacts
  <1>3. waiters[m] \in Seq(Tasks) /\ CallsAreKnown
    BY IInvFacts DEF IInv, WaitersInvariant
  <1>4. PriorityTypes'
    BY <1>1 DEF IInv, PriorityTypes
  <1>5. \A t \in Tasks : \A n \in Mutexes :
           /\ WaitsFor(t, n)' <=> WaitsFor(t, n)
           /\ InCall(t, n)' <=> InCall(t, n)
           /\ t = current => ~WaitsFor(t, n) /\ ~InCall(t, n)
    BY <1>1, <1>2 DEF WaitsFor, InCall, InWaitCode, SameCode
  <1> DEFINE c == Chosen(waiters[m])
  <1>6. \A t \in Slots :
           IF ~NobodyWaits(waiters[m]) /\ t = c
           THEN state'[t] = "READY" /\ waitResult'[t] = "OK"
           ELSE SameWait(t)
    BY <1>1 DEF WakeEffect
  <1>7. ~NobodyWaits(waiters[m]) =>
            /\ c \in Tasks /\ StillWaiting(c) /\ WaitsFor(c, m)
            /\ \A n \in Mutexes : n # m => ~WaitsFor(c, n)
            /\ \A n \in Mutexes : ~Linked(waiters'[n], c)
    <2> SUFFICES ASSUME ~NobodyWaits(waiters[m])
                 PROVE  /\ c \in Tasks /\ StillWaiting(c) /\ WaitsFor(c, m)
                        /\ \A n \in Mutexes : n # m => ~WaitsFor(c, n)
                        /\ \A n \in Mutexes : ~Linked(waiters'[n], c)
      OBVIOUS
    <2>1. c \in Tasks /\ StillWaiting(c) /\ Linked(waiters[m], c)
      BY <1>3, ChosenWaits DEF IInv
    <2>2. WaitsFor(c, m) /\ \A n \in Mutexes : n # m => ~Linked(waiters[n], c)
      BY <2>1 DEF IInv, WaitersInvariant, LinkedIsInWait, WaitsFor
    <2>3. \A n \in Mutexes : n # m => ~WaitsFor(c, n)
      BY <2>2 DEF WaitsFor
    <2>4. ~Linked(waiters'[m], c)
      BY <1>1 DEF Popped
    <2>5. ASSUME NEW n \in Mutexes PROVE ~Linked(waiters'[n], c)
      BY <1>1, <2>2, <2>4
    <2> QED  BY <2>1, <2>2, <2>3, <2>5
  <1> HIDE DEF c
  <1>8. BlockedIsLinked'
    <2> SUFFICES ASSUME NEW n \in Mutexes, NEW t \in Tasks, WaitsFor(t, n),
                        state'[t] = "BLOCKED"
                 PROVE  waitResult'[t] = "OK" /\ Linked(waiters'[n], t)
      BY <1>2, <1>5 DEF BlockedIsLinked
    <2>1. SameWait(t) /\ (NobodyWaits(waiters[m]) \/ t # c) /\ t \in Slots
      BY <1>2, <1>6
    <2>2. /\ state[t] = "BLOCKED" /\ waitResult[t] = "OK" /\ waitResult'[t] = "OK"
          /\ Linked(waiters[n], t)
      BY <2>1 DEF SameWait, IInv, WaitersInvariant, BlockedIsLinked
    <2>3. n = m => Linked(waiters'[n], t)
      BY <1>1, <2>1, <2>2 DEF Popped, StillWaiting, c
    <2> QED  BY <1>1, <2>2, <2>3
  <1>9. LinkedIsInWait'
    <2> SUFFICES ASSUME NEW n \in Mutexes, NEW t \in Tasks, Linked(waiters'[n], t)
                 PROVE  WaitsFor(t, n) /\ (state'[t] = "BLOCKED" \/ waitResult'[t] = "TIMEOUT")
      BY <1>2, <1>5 DEF LinkedIsInWait
    <2>1. Linked(waiters[n], t)
      BY <1>1 DEF Popped
    <2>2. SameWait(t)
      BY <1>2, <1>6, <1>7
    <2> QED  BY <2>1, <2>2 DEF SameWait, IInv, WaitersInvariant, LinkedIsInWait
  <1>10. NobodyTwice'
    BY <1>1 DEF IInv, WaitersInvariant, NobodyTwice, Popped
  <1>11. CallsAreKnown'
    <2>1. ~NobodyWaits(waiters[m]) => InWaitCode(c) /\ pc[c] # "retry"
      BY <1>7 DEF WaitsFor, InWaitCode
    <2> QED
      BY <1>1, <1>2, <1>3, <1>6, <2>1
      DEF CallsAreKnown, SameCode, SameWait, InWaitCode
  <1>12. ASSUME NEW n \in Mutexes PROVE SomeoneComes(n)'
    <2>1. CASE n = m
      <3>1. SomeoneWaits(m)' => ~NobodyWaits(waiters[m])
        <4> SUFFICES ASSUME NEW t \in Tasks, InCall(t, m), StillWaiting(t)'
                     PROVE  ~NobodyWaits(waiters[m])
          BY <1>2, <1>5 DEF SomeoneWaits
        <4>1. CASE NobodyWaits(waiters[m])
          <5>1. StillWaiting(t)
            BY <1>2, <1>6, <4>1 DEF StillWaiting, SameWait
          <5>2. Linked(waiters[m], t)
            BY <1>3, <5>1, InCallMeans
            DEF StillWaiting, IInv, WaitersInvariant, BlockedIsLinked
          <5> QED  BY <1>1, <5>1, <5>2 DEF Popped
        <4> QED  BY <4>1
      <3>2. ASSUME ~NobodyWaits(waiters[m]) PROVE \E u \in Tasks : Comes(u, m)'
        <4>1. PICK u \in Tasks : u = c
          BY <1>7, <3>2
        <4>2. InCall(u, m) /\ state'[u] = "READY" /\ waitResult'[u] = "OK"
          BY <1>2, <1>3, <1>6, <1>7, <3>2, <4>1, InCallMeans
        <4> QED  BY <1>5, <4>2 DEF Comes, Runnable
      <3> QED  BY <1>2, <2>1, <3>1, <3>2 DEF SomeoneComes
    <2>2. CASE n # m
      <3>1. ~NobodyWaits(waiters[m]) => ~InCall(c, n)
        BY <1>3, <1>7, <2>2, InCallMeans DEF StillWaiting
      <3>2. SomeoneWaits(n)' => SomeoneWaits(n)
        BY <1>2, <1>5, <1>6, <3>1 DEF SomeoneWaits, StillWaiting, SameWait
      <3>3. \A u \in Tasks : Comes(u, n) => Comes(u, n)'
        BY <1>2, <1>5, <1>6, <3>1 DEF Comes, SameWait
      <3> QED  BY <1>1, <1>2, <2>2, <3>2, <3>3 DEF IInv, SomeoneComes
    <2> QED  BY <2>1, <2>2
  <1> QED
    BY <1>1, <1>4, <1>8, <1>9, <1>10, <1>11, <1>12 DEF IInv, WaitersInvariant

LEMMA UnlockHolds ==
    ASSUME IInv, NEW m \in Mutexes, Unlock(m)
    PROVE  IInv'
  <1>1. CASE UnlockInner(m)
    <2>1. depth \in [Mutexes -> 0 .. MaxDepth] /\ depth[m] > 1 /\ MaxDepth \in Nat
      BY <1>1, ConstantTypes DEF IInv, MutexTypes, UnlockInner
    <2>2. depth[m] - 1 \in 0 .. MaxDepth
      BY <2>1
    <2>3. depth' \in [Mutexes -> 0 .. MaxDepth]
      BY <1>1, <2>1, <2>2 DEF UnlockInner
    <2>4. UNCHANGED <<ring, current, pendsv, state, delay, waitType, waitResult, pc,
                      basePriority, priority, owner, waiters, want>>
      BY <1>1 DEF UnlockInner, Unlock, tcbVars, ringVars
    <2> QED  BY <2>3, <2>4, SameHolds
  <1> QED  BY <1>1, UnlockOuterHolds DEF Unlock

LEMMA StutterHolds ==
    ASSUME IInv, UNCHANGED vars
    PROVE  IInv'
  BY SameHolds DEF IInv, MutexTypes, vars, kernelVars, ringVars, tcbVars, mutexVars

(* Every step is one of these.                                                  *)
Steps ==
    \/ KernelStep /\ UNCHANGED mutexVars
    \/ \E ms \in SleepTimes : Sleep(ms) /\ UNCHANGED mutexVars
    \/ \E m \in Mutexes : Unlock(m)
    \/ \E m \in Mutexes : \E ms \in Timeouts : Passing(m, ms)
    \/ EndWait
    \/ UNCHANGED vars

LEMMA NextSteps ==
    ASSUME IInv, [Next]_vars
    PROVE  Steps
  <1>1. CASE Retry
    <2>1. want[current] \in Mutexes \X Timeouts
      BY <1>1, IInvFacts DEF IInv, WaitersInvariant, CallsAreKnown, Retry
    <2>2. PICK m \in Mutexes, ms \in Timeouts : want[current] = <<m, ms>>
      BY <2>1
    <2> QED  BY <1>1, <2>2 DEF Passing, Steps
  <1>2. CASE ~Retry
    BY <1>2 DEF Next, OtherStep, MutexStep, Passing, Steps
  <1> QED  BY <1>1, <1>2

LEMMA NextHolds == IInv /\ [Next]_vars => IInv'
  <1> SUFFICES ASSUME IInv, [Next]_vars PROVE IInv'
    OBVIOUS
  <1> QED
    BY NextSteps, KernelStepHolds, SleepHolds, UnlockHolds, PassHolds, EndWaitHolds,
       StutterHolds
    DEF Steps

LEMMA AlwaysHolds == Spec => []IInv
  BY InitHolds, NextHolds, PTL DEF Spec
-------------------------------------------------------------------------------
(* Every variable keeps its type; recompute_owner_priority() finds a priority.  *)
THEOREM TypeCorrect == Spec => []TypeOK
  <1>1. IInv => TypeOK
    BY DEF IInv, KernelInv, KernelTypes, PriorityTypes, MutexTypes, TypeOK
  <1> QED  BY <1>1, AlwaysHolds, PTL

(* The wait list of each mutex holds the tasks that wait for it, each once, and *)
(* nobody who was woken or has left the call.                                   *)
THEOREM ListsStayExact == Spec => []ListsAreExact
  <1>1. ASSUME IInv, NEW m \in Mutexes, NEW t \in Tasks
        PROVE  /\ InCall(t, m) /\ StillWaiting(t) => Linked(waiters[m], t)
               /\ Linked(waiters[m], t) =>
                     InCall(t, m) /\ (StillWaiting(t) \/ waitResult[t] = "TIMEOUT")
    <2>1. BlockedIsLinked /\ LinkedIsInWait /\ CallsAreKnown
      BY <1>1 DEF IInv, WaitersInvariant
    <2>2. /\ InCall(t, m) /\ state[t] = "BLOCKED" => WaitsFor(t, m)
          /\ WaitsFor(t, m) => InCall(t, m)
      BY <2>1, InCallMeans
    <2> QED  BY <2>1, <2>2 DEF StillWaiting, BlockedIsLinked, LinkedIsInWait
  <1>2. IInv => ListsAreExact
    BY <1>1 DEF ListsAreExact, IInv, WaitersInvariant, NobodyTwice
  <1> QED  BY <1>2, AlwaysHolds, PTL

(* A mutex is never left free with tasks waiting for it and nobody on the way,  *)
(* whoever takes the mutex before the woken task does.                          *)
THEOREM NobodyIsStranded == Spec => []NobodyStranded
  <1>1. IInv => NobodyStranded
    BY DEF IInv, SomeoneComes, SomeoneWaits, Comes, Runnable, NobodyStranded
  <1> QED  BY <1>1, AlwaysHolds, PTL
-------------------------------------------------------------------------------
(* From here on a task holds one mutex at a time, as architecture.md:120-124    *)
(* asks of the application.                                                     *)
OneMutex == \A m, n \in Mutexes : m = n
OneAtATime == OneMutex \/ MaxHeld = 1

(* So a task that waits holds none, and its own priority is not raised.         *)
WaitersHoldNothing ==
    \A m \in Mutexes : \A t \in Tasks : InWaitCode(t) \/ pc[t] = "retry" => owner[m] # t

(* The priority of the task t is one that a task linked in its list has.        *)
Justifies(u, m, t) == owner[m] = t /\ Linked(waiters[m], u) /\ priority[u] = priority[t]
Justified(t) == \E m \in Mutexes : \E u \in Tasks : Justifies(u, m, t)
RaisesJustified ==
    \A t \in Tasks :
        /\ priority[t] >= basePriority[t]
        /\ priority[t] > basePriority[t] => Justified(t)
RInv == WaitersHoldNothing /\ RaisesJustified

LEMMA HeldAlone ==
    ASSUME OneAtATime, NEW m \in Mutexes, NEW ms, Lock(m, ms), NEW n \in Mutexes, n # m
    PROVE  owner[n] # current
  <1>1. MaxHeld = 1
    BY DEF OneAtATime, OneMutex
  <1> SUFFICES ASSUME owner[n] = current PROVE FALSE
    OBVIOUS
  <1> DEFINE H == Held(current) \cup {m}
  <1>2. H \subseteq Mutexes /\ {m, n} \subseteq H
    BY DEF Held
  <1>3. IsFiniteSet(H) /\ Cardinality(H) <= 1
    <2>1. IsFiniteSet(H)
      BY <1>2, ConstantTypes, FS_Subset
    <2>2. Cardinality(H) <= MaxHeld
      BY DEF Lock
    <2> QED  BY <1>1, <2>1, <2>2
  <1> HIDE DEF H
  <1>4. Cardinality({m, n}) <= Cardinality(H) /\ Cardinality(H) \in Nat
    BY <1>2, <1>3, FS_Subset, FS_CardinalityType
  <1>5. Cardinality({m, n}) = 2
    <2>1. IsFiniteSet({m}) /\ Cardinality({m}) = 1
      BY FS_Singleton
    <2>2. Cardinality({m} \cup {n}) = 1 + 1
      BY <2>1, FS_AddElement
    <2>3. {m} \cup {n} = {m, n}
      OBVIOUS
    <2> QED  BY <2>2, <2>3
  <1> QED  BY <1>3, <1>4, <1>5

LEMMA StartsHoldingNothing ==
    ASSUME OneAtATime, IInv, WaitersHoldNothing, NEW m, NEW ms, Passing(m, ms),
           owner[m] # current, NEW n \in Mutexes
    PROVE  owner[n] # current
  <1>1. m \in Mutexes /\ current \in Tasks
    BY IInvFacts DEF Passing
  <1>2. CASE Lock(m, ms)
    BY <1>1, <1>2, HeldAlone
  <1>3. CASE Retry
    BY <1>1, <1>3 DEF Retry, WaitersHoldNothing
  <1> QED  BY <1>2, <1>3 DEF Passing

(* A task in a list waits, so its priority is changed by nobody.                *)
LEMMA LinkedHoldNothing ==
    ASSUME IInv, RInv, NEW m \in Mutexes, NEW u \in Tasks, Linked(waiters[m], u)
    PROVE  \A n \in Mutexes : owner[n] # u
  BY DEF IInv, WaitersInvariant, LinkedIsInWait, WaitsFor, RInv, WaitersHoldNothing

LEMMA InitRaises == ASSUME Init PROVE RInv
  <1>1. IInv
    BY InitHolds
  <1>2. /\ priority = basePriority
        /\ \A t \in Slots : pc[t] = "app"
    BY DEF Init, KernelInit
  <1>3. Tasks \subseteq Slots /\ basePriority \in [Slots -> Nat]
    BY <1>1, IInvFacts DEF IInv, PriorityTypes
  <1>4. WaitersHoldNothing
    BY <1>2, <1>3 DEF WaitersHoldNothing, InWaitCode
  <1>5. RaisesJustified
    BY <1>2, <1>3 DEF RaisesJustified
  <1> QED  BY <1>4, <1>5 DEF RInv

LEMMA SameRaises ==
    ASSUME IInv, RInv,
           UNCHANGED <<ring, basePriority, priority, owner, waiters>>,
           \A t \in Tasks : InWaitCode(t)' \/ pc'[t] = "retry" =>
               InWaitCode(t) \/ pc[t] = "retry"
    PROVE  RInv'
  <1>1. Tasks' = Tasks
    BY TasksHold
  <1>2. WaitersHoldNothing'
    BY <1>1 DEF RInv, WaitersHoldNothing
  <1>3. RaisesJustified'
    BY <1>1 DEF RInv, RaisesJustified, Justified, Justifies
  <1> QED  BY <1>2, <1>3 DEF RInv

LEMMA KernelStepRaises ==
    ASSUME IInv, RInv, KernelStep, UNCHANGED mutexVars
    PROVE  RInv'
  <1>1. /\ ring' = ring /\ UNCHANGED <<basePriority, priority, owner, waiters>>
        /\ \A t \in Slots : KernelEffect(t)
    BY KernelStepEffect DEF IInv, mutexVars
  <1>2. \A t \in Tasks : InWaitCode(t)' \/ pc'[t] = "retry" =>
            InWaitCode(t) \/ pc[t] = "retry"
    BY <1>1, IInvFacts DEF KernelEffect
  <1> QED  BY <1>1, <1>2, SameRaises

LEMMA SleepRaises ==
    ASSUME IInv, RInv, NEW ms \in SleepTimes, Sleep(ms), UNCHANGED mutexVars
    PROVE  RInv'
  <1>1. /\ UNCHANGED <<ring, basePriority, priority, owner, waiters>>
        /\ pc' = [pc EXCEPT ![current] = "kick"]
    BY DEF Sleep, BlockCurrent, mutexVars, ringVars
  <1>2. \A t \in Tasks : InWaitCode(t)' \/ pc'[t] = "retry" =>
            InWaitCode(t) \/ pc[t] = "retry"
    BY <1>1, IInvFacts DEF InWaitCode, IInv, KernelInv, KernelTypes
  <1> QED  BY <1>1, <1>2, SameRaises

LEMMA UnlockRaises ==
    ASSUME IInv, RInv, NEW m \in Mutexes, Unlock(m)
    PROVE  RInv'
  <1>1. CASE UnlockInner(m)
    BY <1>1, SameRaises DEF UnlockInner, Unlock, ringVars, InWaitCode
  <1>2. CASE UnlockOuter(m)
    <2>1. /\ pc[current] = "app" /\ pc'[current] \in {"app", "kick"}
          /\ \A t \in Slots : t # current => SameCode(t)
          /\ UNCHANGED <<ring, current, basePriority>>
          /\ priority'[current] = basePriority[current]
          /\ \A t \in Slots : t # current => priority'[t] = priority[t]
          /\ owner[m] = current /\ owner'[m] = NoOwner
          /\ \A n \in Mutexes : n # m => owner'[n] = owner[n]
          /\ \A n \in Mutexes : n # m => waiters'[n] = waiters[n]
      BY <1>2, UnlockOuterFacts
    <2>2. /\ Tasks' = Tasks /\ Tasks \subseteq Slots /\ current \in Tasks
          /\ basePriority \in [Slots -> Nat] /\ \A t \in Tasks : t # Idle => t # NoOwner
      BY <2>1, TasksHold, IInvFacts DEF IInv, PriorityTypes
    <2>3. WaitersHoldNothing'
      BY <2>1, <2>2, ConstantTypes
      DEF RInv, WaitersHoldNothing, SameCode, InWaitCode
    <2>4. RaisesJustified'
      <3> SUFFICES ASSUME NEW t \in Tasks
                   PROVE  /\ priority'[t] >= basePriority[t]
                          /\ priority'[t] > basePriority[t] => Justified(t)'
        BY <2>1, <2>2 DEF RaisesJustified
      <3>1. CASE t = current
        BY <2>1, <2>2, <3>1
      <3>2. CASE t # current
        <4>1. priority'[t] = priority[t]
          BY <2>1, <2>2, <3>2
        <4>2. ASSUME priority[t] > basePriority[t] PROVE Justified(t)'
          <5>1. PICK n \in Mutexes, u \in Tasks : Justifies(u, n, t)
            BY <4>2 DEF RInv, RaisesJustified, Justified
          <5>2. n # m /\ u # current
            BY <2>1, <3>2, <5>1, LinkedHoldNothing DEF Justifies
          <5>3. Justifies(u, n, t)'
            BY <2>1, <2>2, <4>1, <5>1, <5>2 DEF Justifies
          <5> QED  BY <2>2, <5>3 DEF Justified
        <4> QED  BY <4>1, <4>2 DEF RInv, RaisesJustified
      <3> QED  BY <3>1, <3>2
    <2> QED  BY <2>3, <2>4 DEF RInv
  <1> QED  BY <1>1, <1>2 DEF Unlock

LEMMA PassRaises ==
    ASSUME OneAtATime, IInv, RInv, NEW m, NEW ms, Passing(m, ms)
    PROVE  RInv'
  <1>1. /\ m \in Mutexes /\ UNCHANGED <<ring, current, basePriority>>
        /\ pc[current] \in {"app", "retry"}
    BY PassingFacts DEF Passing
  <1>2. Tasks' = Tasks /\ Tasks \subseteq Slots /\ current \in Tasks
    BY <1>1, TasksHold, IInvFacts
  <1>3. CASE Relock(m)
    <2>1. UNCHANGED <<ring, basePriority, priority, owner, waiters, pc>>
      BY <1>1, <1>3 DEF Relock
    <2> QED  BY <2>1, SameRaises DEF InWaitCode
  <1>4. CASE Acquire(m)
    <2>1. /\ owner[m] = NoOwner /\ owner' = [owner EXCEPT ![m] = current]
          /\ pc' = [pc EXCEPT ![current] = "app"]
          /\ UNCHANGED <<priority, waiters>>
      BY <1>4 DEF Acquire, GoTo
    <2>2. /\ owner'[m] = current /\ \A n \in Mutexes : n # m => owner'[n] = owner[n]
          /\ pc'[current] = "app" /\ \A t \in Slots : t # current => pc'[t] = pc[t]
          /\ \A t \in Tasks : t # NoOwner
      BY <1>1, <1>2, <2>1, ConstantTypes DEF IInv, MutexTypes, KernelInv, KernelTypes
    <2>3. WaitersHoldNothing'
      BY <1>2, <2>2 DEF RInv, WaitersHoldNothing, InWaitCode
    <2>4. \A t, u \in Tasks : \A n \in Mutexes : Justifies(u, n, t) => Justifies(u, n, t)'
      BY <2>1, <2>2 DEF Justifies
    <2>5. RaisesJustified'
      BY <1>1, <1>2, <2>1, <2>4 DEF RInv, RaisesJustified, Justified
    <2> QED  BY <2>3, <2>5 DEF RInv
  <1>5. CASE StartWait(m, ms)
    <2>1. /\ \A t \in Slots : BlockEffect("MUTEX", "block", t)
          /\ owner[m] \in Slots /\ owner[m] # current /\ UNCHANGED owner
          /\ priority'[owner[m]] = Higher(priority[current], priority[owner[m]])
          /\ \A t \in Slots : t # owner[m] => priority'[t] = priority[t]
          /\ Pushed(waiters'[m], waiters[m], current)
          /\ \A n \in Mutexes : n # m => waiters'[n] = waiters[n]
      BY <1>5, StartWaitFacts
    <2>2. \A n \in Mutexes : owner[n] # current
      BY <2>1, StartsHoldingNothing DEF RInv
    <2>3. WaitersHoldNothing'
      BY <1>2, <2>1, <2>2
      DEF RInv, WaitersHoldNothing, BlockEffect, SameCode, InWaitCode
    <2>4. PICK o \in Slots : o = owner[m]
      BY <2>1
    <2>5. \A n \in Mutexes : \A u \in Tasks :
             Linked(waiters'[n], u) <=> (n = m /\ u = current) \/ Linked(waiters[n], u)
      BY <2>1 DEF Pushed
    <2>6. \A t, u \in Tasks : \A n \in Mutexes :
             Justifies(u, n, t) /\ priority'[t] = priority[t] => Justifies(u, n, t)'
      <3> SUFFICES ASSUME NEW t \in Tasks, NEW u \in Tasks, NEW n \in Mutexes,
                          Justifies(u, n, t), priority'[t] = priority[t]
                   PROVE  Justifies(u, n, t)'
        OBVIOUS
      <3>1. u # o
        BY <1>1, <2>4, LinkedHoldNothing DEF Justifies
      <3>2. priority'[u] = priority[u]
        BY <1>2, <2>1, <2>4, <3>1
      <3> QED  BY <2>1, <2>5, <3>2 DEF Justifies
    <2>7. /\ priority[o] \in Nat /\ priority[current] \in Nat
          /\ \A t \in Tasks : basePriority[t] \in Nat /\ priority[t] \in Nat
      BY <1>2 DEF IInv, PriorityTypes
    <2>8. RaisesJustified'
      <3> SUFFICES ASSUME NEW t \in Tasks
                   PROVE  /\ priority'[t] >= basePriority[t]
                          /\ priority'[t] > basePriority[t] => Justified(t)'
        BY <1>1, <1>2 DEF RaisesJustified
      <3>1. /\ priority[t] >= basePriority[t]
            /\ priority[t] > basePriority[t] => Justified(t)
        BY DEF RInv, RaisesJustified
      <3>2. CASE priority'[t] = priority[t]
        BY <1>2, <2>6, <3>1, <3>2 DEF Justified
      <3>3. CASE priority'[t] # priority[t]
        <4>1. t = o /\ priority'[t] = priority[current] /\ priority[t] < priority[current]
          BY <1>2, <2>1, <2>4, <2>7, <3>3 DEF Higher
        <4>2. Justifies(current, m, t)'
          <5>1. priority'[current] = priority[current] /\ Linked(waiters'[m], current)
            BY <1>1, <1>2, <2>1, <2>5
          <5>2. owner'[m] = t
            BY <2>1, <2>4, <4>1
          <5> QED  BY <1>1, <4>1, <5>1, <5>2 DEF Justifies
        <4>3. Justified(t)'
          BY <1>1, <1>2, <4>2 DEF Justified
        <4> QED  BY <2>7, <3>1, <4>1, <4>3
      <3> QED  BY <3>2, <3>3
    <2> QED  BY <2>3, <2>8 DEF RInv
  <1> QED  BY <1>3, <1>4, <1>5, PassingFacts

(* The owner is left with a priority that somebody who still waits has.         *)
LEMMA LeaveRaises ==
    ASSUME IInv, RInv, EndWait, NEW m \in Mutexes, Leaves(m)
    PROVE  RaisesJustified'
  <1>1. /\ UNCHANGED <<ring, current, basePriority, owner>>
        /\ priority' = Recomputed(m, waiters'[m])
        /\ want[current][1] = m
    BY EndWaitFacts DEF Leaves
  <1>2. /\ Tasks' = Tasks /\ Tasks \subseteq Slots /\ current \in Tasks
        /\ \A t \in Slots : basePriority[t] \in Nat /\ priority[t] \in Nat
    BY <1>1, TasksHold, IInvFacts DEF IInv, PriorityTypes
  <1>3. /\ waiters'[m] \in Seq(Tasks)
        /\ \A n \in Mutexes : \A u \in Tasks :
              Linked(waiters'[n], u) <=> Linked(waiters[n], u) /\ u # current
    BY EndWaitUnlinks DEF Removed
  <1>4. /\ priority' \in [Slots -> Nat]
        /\ \A t \in Slots : owner[m] # t => priority'[t] = priority[t]
        /\ owner[m] # NoOwner =>
              IsGreatest(priority'[owner[m]], Levels(owner[m], waiters'[m]))
    BY <1>1, <1>3, RecomputedFacts
  <1>5. \A n \in Mutexes : Linked(waiters[n], current) => n = m
    BY <1>1, <1>2 DEF IInv, WaitersInvariant, LinkedIsInWait, WaitsFor
  <1> SUFFICES ASSUME NEW t \in Tasks
               PROVE  /\ priority'[t] >= basePriority[t]
                      /\ priority'[t] > basePriority[t] => Justified(t)'
    BY <1>1, <1>2 DEF RaisesJustified
  <1>6. CASE owner[m] = t
    <2>1. t # NoOwner /\ t \in Slots
      BY <1>2, ConstantTypes
    <2>2. IsGreatest(priority'[t], Levels(t, waiters'[m]))
      BY <1>4, <1>6, <2>1
    <2>3. priority'[t] >= basePriority[t]
      BY <1>2, <2>2 DEF IsGreatest, Levels
    <2>4. ASSUME priority'[t] > basePriority[t] PROVE Justified(t)'
      <3>1. PICK u \in Waiting : Linked(waiters'[m], u) /\ priority'[t] = priority[u]
        BY <1>2, <2>1, <2>2, <2>4 DEF IsGreatest, Levels
      <3>2. u \in Tasks /\ u # t
        BY <1>3, <1>6, <3>1, LinkedHoldNothing DEF Waiting
      <3>3. priority'[u] = priority[u]
        BY <1>2, <1>4, <1>6, <3>2
      <3>4. Justifies(u, m, t)'
        BY <1>1, <1>6, <3>1, <3>3 DEF Justifies
      <3> QED  BY <1>2, <3>2, <3>4 DEF Justified
    <2> QED  BY <2>3, <2>4
  <1>7. CASE owner[m] # t
    <2>1. priority'[t] = priority[t]
      BY <1>2, <1>4, <1>7
    <2>2. ASSUME priority[t] > basePriority[t] PROVE Justified(t)'
      <3>1. PICK n \in Mutexes, u \in Tasks : Justifies(u, n, t)
        BY <2>2 DEF RInv, RaisesJustified, Justified
      <3>2. n # m /\ u # current /\ owner[m] # u
        BY <1>5, <1>7, <3>1, LinkedHoldNothing DEF Justifies
      <3>3. priority'[u] = priority[u]
        BY <1>2, <1>4, <3>2
      <3>4. Justifies(u, n, t)'
        BY <1>1, <1>3, <2>1, <3>1, <3>2, <3>3 DEF Justifies
      <3> QED  BY <1>2, <3>4 DEF Justified
    <2> QED  BY <2>1, <2>2 DEF RInv, RaisesJustified
  <1> QED  BY <1>6, <1>7

LEMMA EndWaitRaises ==
    ASSUME IInv, RInv, EndWait
    PROVE  RInv'
  <1>1. /\ UNCHANGED <<ring, current, basePriority, owner>> /\ pc[current] = "resume"
        /\ \A t \in Slots : t # current => SameCode(t)
        /\ (\E m \in Mutexes : Leaves(m)) \/ TriesAgain
    BY EndWaitFacts
  <1>2. \A t \in Tasks : InWaitCode(t)' \/ pc'[t] = "retry" =>
            InWaitCode(t) \/ pc[t] = "retry"
    BY <1>1, IInvFacts DEF SameCode, InWaitCode
  <1>3. CASE TriesAgain
    BY <1>1, <1>2, <1>3, SameRaises DEF TriesAgain
  <1>4. CASE \E m \in Mutexes : Leaves(m)
    <2>1. Tasks' = Tasks
      BY <1>1, TasksHold
    <2>2. WaitersHoldNothing'
      BY <1>1, <1>2, <2>1 DEF RInv, WaitersHoldNothing
    <2> QED  BY <1>4, <2>2, LeaveRaises DEF RInv
  <1> QED  BY <1>1, <1>3, <1>4

LEMMA NextRaises ==
    ASSUME OneAtATime
    PROVE  IInv /\ RInv /\ [Next]_vars => RInv'
  <1> SUFFICES ASSUME IInv, RInv, [Next]_vars PROVE RInv'
    OBVIOUS
  <1>1. CASE UNCHANGED vars
    BY <1>1, SameRaises DEF vars, kernelVars, ringVars, mutexVars, InWaitCode
  <1> QED
    BY <1>1, NextSteps, KernelStepRaises, SleepRaises, UnlockRaises, PassRaises,
       EndWaitRaises
    DEF Steps

(* Where a task holds one mutex at a time no raise outlives its reason: a task  *)
(* above its base priority owns a mutex that a task of that priority is in the  *)
(* list of.                                                                     *)
THEOREM RaisesStayJustified == OneAtATime => (Spec => []RaiseIsJustified)
  <1> SUFFICES ASSUME OneAtATime PROVE Spec => []RaiseIsJustified
    OBVIOUS
  <1>1. IInv /\ RInv /\ [Next]_vars => (IInv /\ RInv)'
    BY NextHolds, NextRaises
  <1>2. Init => IInv /\ RInv
    BY InitHolds, InitRaises
  <1>3. IInv /\ RInv => RaiseIsJustified
    BY DEF RInv, RaisesJustified, Justified, Justifies, Held, RaiseIsJustified
  <1> QED  BY <1>1, <1>2, <1>3, PTL DEF Spec
-------------------------------------------------------------------------------
(* Inheritance rests on the scheduler where a mutex changes hands: the woken    *)
(* task has the processor before any task of a lower priority can lock.         *)
OneRuns == \A t \in Slots : state[t] = "RUNNING" => t = current
ScheduleInv == RingHasAll /\ lockCount = 0 /\ OneRuns
Served(u) ==
    \/ u = current \/ priority[u] <= priority[current]
    \/ pendsv \/ pc[current] \in {"kick", "block"}

Waits(t, m) == InCall(t, m) /\ StillWaiting(t)
InOrder(m) == Sorted(waiters[m], priority)
Raised(m) ==
    owner[m] # NoOwner =>
        \A t \in Tasks : Waits(t, m) => priority[t] <= priority[owner[m]]
BestComes(m) ==
    owner[m] = NoOwner =>
        \A t \in Tasks : Waits(t, m) =>
            \E u \in Tasks : Comes(u, m) /\ priority[t] <= priority[u] /\ Served(u)
InheritInv ==
    ScheduleInv /\ \A m \in Mutexes : InOrder(m) /\ Raised(m) /\ BestComes(m)

LEMMA KernelServes ==
    ASSUME IInv, ScheduleInv, KernelStep
    PROVE  /\ ScheduleInv'
           /\ \A u \in Tasks : state[u] \in Runnable /\ Served(u) => Served(u)'
  <1>1. /\ ring' = ring /\ priority' = priority /\ Tasks' = Tasks
        /\ lockCount' = lockCount
    BY TasksHold, KernelStepEffect
    DEF IInv, KernelStep, Tick, PendSV, Deferred, Dispatched, Yield, lockVars
  <1>2. /\ Tasks \subseteq Slots /\ current \in Tasks /\ current \in Slots
        /\ priority \in [Slots -> Nat] /\ state \in [Slots -> States]
        /\ TaskCount \in Nat
    BY IInvFacts, ConstantsLemma DEF IInv, KernelInv, KernelTypes, RingIsWhole, Idle
  <1>3. RingHasAll' /\ lockCount' = 0
    BY <1>1 DEF ScheduleInv, RingHasAll, TaskCount
  <1>4. CASE Tick
    BY <1>3, <1>4 DEF Tick, TaskTick, ScheduleInv, OneRuns, Served
  <1>5. CASE Yield
    BY <1>3, <1>5 DEF Yield, tcbVars, ScheduleInv, OneRuns, Served
  <1>6. CASE PendSV
    <2>1. Dispatched
      BY <1>6 DEF PendSV, Deferred, HoldsProcessor, ScheduleInv
    <2>2. PICK best \in Tasks : /\ ScanKeeps(best) /\ current' = best
                                /\ state' = [Released EXCEPT ![best] = "RUNNING"]
      BY <2>1 DEF Dispatched
    <2>3. \A t \in Tasks : Released[t] = "READY" => priority[t] <= priority[best]
      BY <1>2, <2>2, ScanKeepsMostUrgent DEF ScheduleInv
    <2>4. /\ Released \in [Slots -> States]
          /\ \A t \in Slots : Released[t] # "RUNNING"
          /\ \A t \in Slots : state[t] \in Runnable => Released[t] = "READY"
      BY <1>2 DEF Released, States, Runnable, ScheduleInv, OneRuns
    <2>5. OneRuns'
      BY <2>2, <2>4 DEF OneRuns
    <2>6. \A u \in Tasks : state[u] \in Runnable => priority'[u] <= priority'[current']
      BY <1>1, <1>2, <2>2, <2>3, <2>4
    <2> QED  BY <1>3, <2>5, <2>6 DEF ScheduleInv, Served
  <1> QED  BY <1>4, <1>5, <1>6 DEF KernelStep

(* A step that leaves the owners, the lists and the priorities alone.           *)
LEMMA CalmInherits ==
    ASSUME InheritInv, ScheduleInv', UNCHANGED <<ring, priority, owner, waiters>>,
           \A m \in Mutexes : \A t \in Tasks :
               /\ Waits(t, m)' => Waits(t, m)
               /\ Comes(t, m) /\ Served(t) => Comes(t, m)' /\ Served(t)'
    PROVE  InheritInv'
  <1>1. Tasks' = Tasks
    BY TasksHold
  <1>2. \A m \in Mutexes : InOrder(m)' /\ Raised(m)'
    BY <1>1 DEF InheritInv, InOrder, Sorted, Raised
  <1>3. \A m \in Mutexes : BestComes(m)'
    BY <1>1 DEF InheritInv, BestComes
  <1> QED  BY <1>2, <1>3 DEF InheritInv

LEMMA KernelStepInherits ==
    ASSUME IInv, InheritInv, KernelStep, UNCHANGED mutexVars
    PROVE  InheritInv'
  <1>1. /\ ring' = ring /\ UNCHANGED <<priority, owner, waiters, want>>
        /\ \A t \in Tasks : KernelEffect(t)
    BY KernelStepEffect, IInvFacts DEF IInv, mutexVars
  <1>2. ScheduleInv' /\ \A u \in Tasks : state[u] \in Runnable /\ Served(u) => Served(u)'
    BY KernelServes DEF InheritInv
  <1>3. ASSUME NEW m \in Mutexes, NEW t \in Tasks
        PROVE  /\ Waits(t, m)' => Waits(t, m)
               /\ Comes(t, m) /\ Served(t) => Comes(t, m)' /\ Served(t)'
    <2>1. InCall(t, m)' <=> InCall(t, m)
      BY <1>1 DEF InCall, KernelEffect, InWaitCode
    <2> QED
      BY <1>1, <1>2, <2>1
      DEF Waits, Comes, StillWaiting, KernelEffect, OnlySwitched, TimesOut, Runnable
  <1> QED  BY <1>1, <1>2, <1>3, CalmInherits

LEMMA SleepInherits ==
    ASSUME IInv, InheritInv, NEW ms \in SleepTimes, Sleep(ms), UNCHANGED mutexVars
    PROVE  InheritInv'
  <1>1. /\ ~pendsv /\ current # Idle /\ pc[current] = "app"
        /\ BlockCurrent("SLEEP", ms, "kick") /\ ms \in Nat /\ "SLEEP" \in WaitTypes
        /\ UNCHANGED <<ring, lockCount, current, pendsv, priority, owner, waiters, want>>
    BY ConstantTypes DEF Sleep, InApp, mutexVars, ringVars, lockVars, WaitTypes
  <1>2. \A t \in Slots : BlockEffect("SLEEP", "kick", t)
    BY <1>1, BlockCurrentEffect DEF IInv
  <1>3. Tasks \subseteq Slots /\ current \in Tasks
    BY IInvFacts
  <1>4. ScheduleInv'
    BY <1>1, <1>2, <1>3
    DEF InheritInv, ScheduleInv, RingHasAll, TaskCount, Tasks, OneRuns, BlockEffect, SameWait
  <1>5. ASSUME NEW m \in Mutexes, NEW t \in Tasks
        PROVE  /\ Waits(t, m)' => Waits(t, m)
               /\ Comes(t, m) /\ Served(t) => Comes(t, m)' /\ Served(t)'
    <2>1. /\ InCall(t, m)' <=> InCall(t, m)
          /\ InCall(t, m) => t # current
          /\ Served(t)'
      BY <1>1, <1>2, <1>3 DEF InCall, BlockEffect, SameCode, Served
    <2> QED
      BY <1>2, <1>3, <2>1 DEF Waits, Comes, StillWaiting, BlockEffect, SameWait
  <1> QED  BY <1>1, <1>4, <1>5, CalmInherits

LEMMA IdenticalInherits ==
    ASSUME InheritInv,
           UNCHANGED <<ring, lockCount, current, pendsv, state, waitResult, pc, priority,
                       owner, waiters, want>>
    PROVE  InheritInv'
  <1>1. ScheduleInv'
    BY DEF InheritInv, ScheduleInv, RingHasAll, TaskCount, Tasks, OneRuns
  <1>2. \A m \in Mutexes : \A t \in Tasks :
           /\ Waits(t, m)' => Waits(t, m)
           /\ Comes(t, m) /\ Served(t) => Comes(t, m)' /\ Served(t)'
    BY DEF Waits, Comes, Served, InCall, StillWaiting
  <1> QED  BY <1>1, <1>2, CalmInherits
-------------------------------------------------------------------------------
(* A list stays in order if the priorities of the tasks in it stay.             *)
LEMMA OrderStays ==
    ASSUME NEW q \in Seq(Tasks), NEW p, NEW r, Sorted(q, p),
           \A u \in Tasks : Linked(q, u) => r[u] = p[u]
    PROVE  Sorted(q, r)
  <1>1. \A i \in 1 .. Len(q) : q[i] \in Tasks /\ Linked(q, q[i])
    BY LenProperties, ElementOfSeq DEF Linked
  <1> QED  BY <1>1 DEF Sorted

LEMMA AcquireInherits ==
    ASSUME OneMutex, IInv, InheritInv, NEW m, NEW ms, Passing(m, ms), Acquire(m)
    PROVE  InheritInv'
  <1>1. /\ m \in Mutexes /\ ~pendsv /\ pc[current] \in {"app", "retry"}
        /\ UNCHANGED <<ring, lockCount, current, priority, state, waitResult, waiters>>
    BY PassingFacts DEF Passing, Acquire, tcbVars
  <1>2. /\ owner[m] = NoOwner /\ owner' = [owner EXCEPT ![m] = current]
        /\ want' = [want EXCEPT ![current] = <<>>]
        /\ pc' = [pc EXCEPT ![current] = "app"]
    BY DEF Acquire, GoTo
  <1>3. /\ Tasks' = Tasks /\ Tasks \subseteq Slots /\ current \in Tasks
        /\ owner'[m] = current /\ current # NoOwner /\ priority \in [Slots -> Nat]
    BY <1>1, <1>2, TasksHold, IInvFacts, ConstantTypes DEF IInv, MutexTypes
  <1>4. ScheduleInv'
    BY <1>1 DEF InheritInv, ScheduleInv, RingHasAll, TaskCount, Tasks, OneRuns
  <1>5. \A t \in Tasks : Waits(t, m)' => Waits(t, m)
    BY <1>1, <1>2, <1>3
    DEF Waits, InCall, StillWaiting, IInv, MutexTypes, KernelInv, KernelTypes
  <1>6. ASSUME NEW t \in Tasks, Waits(t, m) PROVE priority[t] <= priority[current]
    <2>1. PICK u \in Tasks : priority[t] <= priority[u] /\ Served(u)
      BY <1>1, <1>2, <1>6 DEF InheritInv, BestComes
    <2>2. priority[u] <= priority[current]
      BY <1>1, <1>3, <2>1 DEF Served
    <2>3. priority[t] \in Nat /\ priority[u] \in Nat /\ priority[current] \in Nat
      BY <1>3
    <2> QED  BY <2>1, <2>2, <2>3
  <1>7. InOrder(m)' /\ Raised(m)' /\ BestComes(m)'
    <2>1. InOrder(m)'
      BY <1>1 DEF InheritInv, InOrder, Sorted
    <2>2. Raised(m)' /\ BestComes(m)'
      BY <1>1, <1>3, <1>5, <1>6 DEF Raised, BestComes
    <2> QED  BY <2>1, <2>2
  <1>8. \A n \in Mutexes : InOrder(n)' /\ Raised(n)' /\ BestComes(n)'
    <2> SUFFICES ASSUME NEW n \in Mutexes
                 PROVE  InOrder(n)' /\ Raised(n)' /\ BestComes(n)'
      OBVIOUS
    <2>1. n = m
      BY <1>1 DEF OneMutex
    <2> QED  BY <1>7, <2>1
  <1> QED  BY <1>4, <1>8 DEF InheritInv

LEMMA StartWaitInherits ==
    ASSUME OneMutex, IInv, RInv, InheritInv, NEW m, NEW ms, Passing(m, ms),
           StartWait(m, ms)
    PROVE  InheritInv'
  <1>1. /\ m \in Mutexes /\ UNCHANGED <<ring, lockCount, current>>
        /\ \A t \in Slots : BlockEffect("MUTEX", "block", t)
        /\ owner[m] \in 1 .. AppTasks /\ owner[m] # current /\ owner[m] \in Slots
        /\ UNCHANGED owner
        /\ \A t \in Slots : t # current => want'[t] = want[t]
        /\ priority'[owner[m]] = Higher(priority[current], priority[owner[m]])
        /\ \A t \in Slots : t # owner[m] => priority'[t] = priority[t]
        /\ waiters' \in [Mutexes -> Seq(Tasks)]
        /\ Pushed(waiters'[m], waiters[m], current)
        /\ Sorted(waiters[m], priority) => Sorted(waiters'[m], priority)
    <2>1. m \in Mutexes /\ UNCHANGED <<ring, lockCount, current>>
      BY PassingFacts DEF Passing
    <2> QED  BY <2>1, StartWaitFacts
  <1>2. /\ Tasks' = Tasks /\ Tasks \subseteq Slots /\ current \in Tasks
        /\ priority \in [Slots -> Nat] /\ owner[m] # NoOwner
    BY <1>1, TasksHold, IInvFacts, ConstantTypes
  <1>3. ScheduleInv'
    BY <1>1
    DEF InheritInv, ScheduleInv, RingHasAll, TaskCount, Tasks, OneRuns, BlockEffect, SameWait
  <1>4. InOrder(m)'
    <2>1. \A u \in Tasks : Linked(waiters'[m], u) => priority'[u] = priority[u]
      BY <1>1, <1>2, LinkedHoldNothing DEF Pushed
    <2>2. Sorted(waiters'[m], priority) /\ waiters'[m] \in Seq(Tasks)
      BY <1>1 DEF InheritInv, InOrder
    <2> QED  BY <2>1, <2>2, OrderStays DEF InOrder
  <1>5. Raised(m)' /\ BestComes(m)'
    <2> SUFFICES ASSUME NEW t \in Tasks, Waits(t, m)'
                 PROVE  priority'[t] <= priority'[owner[m]]
      BY <1>1, <1>2 DEF Raised, BestComes
    <2>1. PICK o \in Slots : o = owner[m]
      BY <1>1
    <2>2. priority'[o] >= priority[o] /\ priority'[o] >= priority[current]
      BY <1>1, <1>2, <2>1 DEF Higher
    <2>3. CASE t = current
      BY <1>1, <1>2, <2>1, <2>2, <2>3
    <2>4. CASE t # current
      <3>1. Waits(t, m)
        BY <1>1, <1>2, <2>4
        DEF Waits, InCall, StillWaiting, BlockEffect, SameCode, SameWait
      <3>2. t # o
        BY <1>1, <2>1, <3>1
        DEF Waits, InCall, InWaitCode, RInv, WaitersHoldNothing
      <3>3. priority'[t] = priority[t] /\ priority[t] <= priority[o]
        BY <1>1, <1>2, <2>1, <3>1, <3>2 DEF InheritInv, Raised
      <3>4. priority'[o] \in Nat /\ priority[o] \in Nat /\ priority[t] \in Nat
        BY <1>1, <1>2, <2>1 DEF Higher
      <3> QED  BY <2>1, <2>2, <3>3, <3>4
    <2> QED  BY <2>3, <2>4
  <1>6. \A n \in Mutexes : InOrder(n)' /\ Raised(n)' /\ BestComes(n)'
    <2> SUFFICES ASSUME NEW n \in Mutexes
                 PROVE  InOrder(n)' /\ Raised(n)' /\ BestComes(n)'
      OBVIOUS
    <2>1. n = m
      BY <1>1 DEF OneMutex
    <2> QED  BY <1>4, <1>5, <2>1
  <1> QED  BY <1>3, <1>6 DEF InheritInv

LEMMA UnlockOuterInherits ==
    ASSUME OneMutex, IInv, RInv, InheritInv, NEW m \in Mutexes, Unlock(m), UnlockOuter(m)
    PROVE  InheritInv'
  <1>1. /\ \A t \in Slots : WakeEffect(waiters[m], t)
        /\ pc[current] = "app"
        /\ \A t \in Slots : t # current => SameCode(t)
        /\ pc'[current] \in {"app", "kick"}
        /\ ~NobodyWaits(waiters[m]) => current # Chosen(waiters[m]) /\ pc'[current] = "kick"
        /\ UNCHANGED <<ring, lockCount, current, want>>
        /\ \A t \in Slots : t # current => priority'[t] = priority[t]
        /\ owner[m] = current /\ owner'[m] = NoOwner
        /\ waiters'[m] = WaitPop(waiters[m], Waiting)
        /\ Popped(waiters'[m], waiters[m])
    BY UnlockOuterFacts
  <1>2. /\ Tasks' = Tasks /\ Tasks \subseteq Slots /\ current \in Tasks
        /\ waiters[m] \in Seq(Tasks) /\ CallsAreKnown
        /\ Sorted(waiters[m], priority)
    BY <1>1, TasksHold, IInvFacts DEF IInv, WaitersInvariant, InheritInv, InOrder
  <1>3. ScheduleInv'
    BY <1>1
    DEF InheritInv, ScheduleInv, RingHasAll, TaskCount, Tasks, OneRuns, WakeEffect, SameWait
  <1>4. InOrder(m)'
    <2>1. \A u \in Tasks : Linked(waiters'[m], u) => priority'[u] = priority[u]
      BY <1>1, <1>2, LinkedHoldNothing DEF Popped
    <2>2. Sorted(waiters'[m], priority) /\ waiters'[m] \in Seq(Tasks)
      BY <1>1, <1>2, PopServes DEF Popped
    <2> QED  BY <2>1, <2>2, OrderStays DEF InOrder
  <1>5. ASSUME NEW t \in Tasks, Waits(t, m)'
        PROVE  \E u \in Tasks : Comes(u, m)' /\ priority'[t] <= priority'[u] /\ Served(u)'
    <2>1. \A u \in Tasks : /\ InCall(u, m)' <=> InCall(u, m)
                           /\ InCall(u, m) => u # current
      BY <1>1, <1>2 DEF InCall, SameCode
    <2>2. InCall(t, m) /\ StillWaiting(t)
      BY <1>1, <1>2, <1>5, <2>1 DEF Waits, StillWaiting, WakeEffect, SameWait
    <2>3. Linked(waiters[m], t)
      BY <1>2, <2>2, InCallMeans DEF StillWaiting, IInv, WaitersInvariant, BlockedIsLinked
    <2>4. ~NobodyWaits(waiters[m])
      BY <1>1, <2>2, <2>3 DEF Popped
    <2>5. PICK u \in Tasks : /\ u = Chosen(waiters[m])
                            /\ StillWaiting(u) /\ Linked(waiters[m], u)
      BY <1>2, <2>4, ChosenWaits DEF IInv
    <2>6. InCall(u, m)
      BY <1>2, <2>5, InCallMeans DEF IInv, WaitersInvariant, LinkedIsInWait
    <2>7. priority[t] <= priority[u]
      BY <1>2, <2>2, <2>3, <2>4, <2>5, PopServes DEF MostUrgent
    <2>8. state'[u] = "READY" /\ waitResult'[u] = "OK" /\ pc'[current'] = "kick"
      BY <1>1, <1>2, <2>4, <2>5 DEF WakeEffect
    <2>9. Comes(u, m)' /\ Served(u)'
      BY <2>1, <2>6, <2>8 DEF Comes, Served, Runnable
    <2>10. priority'[t] <= priority'[u]
      BY <1>1, <1>2, <2>1, <2>2, <2>6, <2>7
    <2> QED  BY <2>9, <2>10
  <1>6. Raised(m)' /\ BestComes(m)'
    BY <1>1, <1>2, <1>5 DEF Raised, BestComes
  <1>7. \A n \in Mutexes : InOrder(n)' /\ Raised(n)' /\ BestComes(n)'
    <2> SUFFICES ASSUME NEW n \in Mutexes
                 PROVE  InOrder(n)' /\ Raised(n)' /\ BestComes(n)'
      OBVIOUS
    <2>1. n = m
      BY DEF OneMutex
    <2> QED  BY <1>4, <1>6, <2>1
  <1> QED  BY <1>3, <1>7 DEF InheritInv

LEMMA EndWaitInherits ==
    ASSUME OneMutex, IInv, RInv, InheritInv, EndWait
    PROVE  InheritInv'
  <1>1. /\ pc[current] = "resume" /\ ~pendsv
        /\ \A t \in Slots : t # current => SameWait(t) /\ SameCode(t)
        /\ WantsHold
        /\ (\E m \in Mutexes : Leaves(m)) \/ TriesAgain
        /\ UNCHANGED <<ring, lockCount, current, pendsv, state, waitResult, owner>>
    BY EndWaitFacts
  <1>2. /\ Tasks' = Tasks /\ Tasks \subseteq Slots /\ current \in Tasks
        /\ priority \in [Slots -> Nat] /\ CallsAreKnown
    BY <1>1, TasksHold, IInvFacts DEF IInv, WaitersInvariant
  <1>3. ScheduleInv'
    BY <1>1 DEF InheritInv, ScheduleInv, RingHasAll, TaskCount, Tasks, OneRuns
  <1>4. CASE TriesAgain
    <2>1. UNCHANGED <<priority, waiters, want>> /\ pc'[current] = "retry"
      BY <1>4 DEF TriesAgain
    <2>2. \A m \in Mutexes : \A t \in Tasks :
             /\ Waits(t, m)' => Waits(t, m)
             /\ Comes(t, m) /\ Served(t) => Comes(t, m)' /\ Served(t)'
      BY <1>1, <1>2, <2>1
      DEF Waits, Comes, Served, InCall, StillWaiting, SameWait, SameCode
    <2> QED  BY <1>1, <1>3, <2>1, <2>2, CalmInherits
  <1>5. CASE \E m \in Mutexes : Leaves(m)
    <2>1. PICK m \in Mutexes : Leaves(m)
      BY <1>5
    <2>2. /\ pc'[current] = "app" /\ waitResult[current] = "TIMEOUT"
          /\ waiters'[m] = WaitRemove(waiters[m], current)
          /\ priority' = Recomputed(m, waiters'[m])
      BY <2>1 DEF Leaves, IInv, MutexTypes
    <2>3. /\ waiters'[m] \in Seq(Tasks)
          /\ \A u \in Tasks : Linked(waiters'[m], u) <=> Linked(waiters[m], u) /\ u # current
      BY EndWaitUnlinks DEF Removed
    <2>4. /\ \A t \in Slots : owner[m] # t => priority'[t] = priority[t]
          /\ owner[m] # NoOwner =>
                IsGreatest(priority'[owner[m]], Levels(owner[m], waiters'[m]))
      BY <2>2, <2>3, RecomputedFacts
    <2>5. ASSUME NEW t \in Tasks, Waits(t, m)'
          PROVE  /\ Waits(t, m) /\ Linked(waiters'[m], t) /\ priority'[t] = priority[t]
                 /\ t \in Waiting
      <3>1. t # current /\ Waits(t, m)
        BY <1>1, <1>2, <2>2, <2>5
        DEF Waits, InCall, StillWaiting, SameWait, SameCode, WantsHold
      <3>2. Linked(waiters[m], t)
        BY <1>2, <3>1, InCallMeans
        DEF Waits, StillWaiting, IInv, WaitersInvariant, BlockedIsLinked
      <3>3. owner[m] # t
        BY <3>2, LinkedHoldNothing
      <3> QED  BY <1>2, <2>3, <2>4, <3>1, <3>2, <3>3 DEF Waits, Waiting
    <2>6. InOrder(m)'
      <3>1. Sorted(waiters'[m], priority)
        BY <2>2, IInvFacts, RemoveUnlinks DEF InheritInv, InOrder
      <3>2. \A u \in Tasks : Linked(waiters'[m], u) => priority'[u] = priority[u]
        BY <1>2, <2>3, <2>4, LinkedHoldNothing
      <3> QED  BY <2>3, <3>1, <3>2, OrderStays DEF InOrder
    <2>7. Raised(m)'
      <3> SUFFICES ASSUME NEW t \in Tasks, Waits(t, m)', owner[m] # NoOwner
                   PROVE  priority'[t] <= priority'[owner[m]]
        BY <1>1, <1>2 DEF Raised
      <3>1. priority[t] \in Levels(owner[m], waiters'[m]) /\ priority'[t] = priority[t]
        BY <2>5 DEF Levels
      <3> QED  BY <2>4, <3>1 DEF IsGreatest
    <2>8. BestComes(m)'
      <3> SUFFICES ASSUME NEW t \in Tasks, Waits(t, m)', owner[m] = NoOwner
                   PROVE  \E u \in Tasks :
                             Comes(u, m)' /\ priority'[t] <= priority'[u] /\ Served(u)'
        BY <1>1, <1>2 DEF BestComes
      <3>1. PICK u \in Tasks : Comes(u, m) /\ priority[t] <= priority[u] /\ Served(u)
        BY <2>5 DEF InheritInv, BestComes
      <3>2. priority' = priority
        BY <2>2 DEF Recomputed
      <3>3. u # current
        BY <2>2, <3>1 DEF Comes
      <3>4. Comes(u, m)'
        BY <1>1, <1>2, <3>1, <3>3 DEF Comes, InCall, SameWait, SameCode, WantsHold
      <3>5. Served(u)'
        BY <1>1, <3>1, <3>2, <3>3 DEF Served
      <3> QED  BY <3>1, <3>2, <3>4, <3>5
    <2>9. \A n \in Mutexes : InOrder(n)' /\ Raised(n)' /\ BestComes(n)'
      <3> SUFFICES ASSUME NEW n \in Mutexes
                   PROVE  InOrder(n)' /\ Raised(n)' /\ BestComes(n)'
        OBVIOUS
      <3>1. n = m
        BY DEF OneMutex
      <3> QED  BY <2>6, <2>7, <2>8, <3>1
    <2> QED  BY <1>3, <2>9 DEF InheritInv
  <1> QED  BY <1>1, <1>4, <1>5

LEMMA InitInherits == ASSUME Init PROVE InheritInv
  <1>1. Tasks \subseteq Slots
    BY InitHolds, IInvFacts
  <1>2. /\ \A m \in Mutexes : waiters[m] = <<>> /\ owner[m] = NoOwner
        /\ \A t \in Slots : state[t] # "BLOCKED"
        /\ lockCount = 0 /\ OneRuns /\ RingHasAll
    BY InitialRingHasAll DEF Init, KernelInit, OneRuns
  <1>3. \A m \in Mutexes : \A t \in Tasks : ~Waits(t, m)
    BY <1>1, <1>2 DEF Waits, StillWaiting
  <1>4. \A m \in Mutexes : InOrder(m)
    BY <1>2 DEF InOrder, Sorted
  <1> QED  BY <1>2, <1>3, <1>4 DEF InheritInv, ScheduleInv, Raised, BestComes

LEMMA NextInherits ==
    ASSUME OneMutex
    PROVE  IInv /\ RInv /\ InheritInv /\ [Next]_vars => InheritInv'
  <1> SUFFICES ASSUME IInv, RInv, InheritInv, [Next]_vars PROVE InheritInv'
    OBVIOUS
  <1>1. CASE UNCHANGED vars
    <2>1. UNCHANGED <<ring, lockCount, current, pendsv, state, waitResult, pc, priority,
                      owner, waiters, want>>
      BY <1>1 DEF vars, kernelVars, ringVars, lockVars, tcbVars, mutexVars
    <2> QED  BY <2>1, IdenticalInherits
  <1>2. ASSUME NEW m \in Mutexes, Unlock(m) PROVE InheritInv'
    <2>1. CASE UnlockInner(m)
      <3>1. UNCHANGED <<ring, lockCount, current, pendsv, state, waitResult, pc, priority,
                        owner, waiters, want>>
        BY <1>2, <2>1 DEF Unlock, UnlockInner, ringVars, lockVars, tcbVars
      <3> QED  BY <3>1, IdenticalInherits
    <2> QED  BY <1>2, <2>1, UnlockOuterInherits DEF Unlock
  <1>3. ASSUME NEW m, NEW ms, Passing(m, ms) PROVE InheritInv'
    <2>1. CASE Relock(m)
      <3>1. UNCHANGED <<ring, lockCount, current, pendsv>>
        BY <1>3, PassingFacts
      <3>2. UNCHANGED <<state, waitResult, pc, priority, owner, waiters, want>>
        BY <2>1 DEF Relock, tcbVars
      <3> QED  BY <3>1, <3>2, IdenticalInherits
    <2> QED  BY <1>3, <2>1, PassingFacts, AcquireInherits, StartWaitInherits
  <1> QED
    BY <1>1, <1>2, <1>3, NextSteps, KernelStepInherits, SleepInherits, EndWaitInherits
    DEF Steps

(* Where there is one mutex its owner never runs below a task that waits for    *)
(* it, also when the mutex changed hands, or a waiter gave up, since then.      *)
THEOREM OwnersInherit == OneMutex => (Spec => []OwnerInherits)
  <1> SUFFICES ASSUME OneMutex PROVE Spec => []OwnerInherits
    OBVIOUS
  <1>1. OneAtATime
    BY DEF OneAtATime
  <1>2. IInv /\ RInv /\ InheritInv /\ [Next]_vars => (IInv /\ RInv /\ InheritInv)'
    BY <1>1, NextHolds, NextRaises, NextInherits
  <1>3. Init => IInv /\ RInv /\ InheritInv
    BY InitHolds, InitRaises, InitInherits
  <1>4. ASSUME IInv, InheritInv PROVE OwnerInherits
    <2> SUFFICES ASSUME NEW m \in Mutexes, NEW t \in Tasks,
                        owner[m] # NoOwner, InCall(t, m), StillWaiting(t)
                 PROVE  priority[owner[m]] >= priority[t]
      BY DEF OwnerInherits
    <2>1. priority[t] <= priority[owner[m]]
      BY <1>4 DEF InheritInv, Raised, Waits
    <2>2. owner[m] \in Slots /\ t \in Slots
      BY <1>4, IInvFacts, TaskFacts DEF IInv, MutexTypes
    <2>3. priority[t] \in Nat /\ priority[owner[m]] \in Nat
      BY <1>4, <2>2, IInvFacts
    <2> QED  BY <2>1, <2>3
  <1> QED  BY <1>2, <1>3, <1>4, PTL DEF Spec
===============================================================================
