----------------------------- MODULE MempoolProofs -----------------------------
(* The safety properties of Mempool, and the refinement of the abstract         *)
(* semaphore, for every number of tasks, blocks and priorities.                 *)
EXTENDS Mempool, KernelProofs, FiniteSetTheorems

ListTypes == freeList \in Seq(Blocks) /\ waiters \in Seq(Tasks)
BlockTypes == grant \in [Slots -> Blocks \cup {NoBlock}] /\ inUse \subseteq Blocks

(* A blocked task waits for a block, and is linked, or it sleeps.               *)
BlockedIsLinked ==
    \A t \in Tasks : state[t] = "BLOCKED" =>
        /\ waitResult[t] = "OK"
        /\ \/ waitType[t] = "MEMPOOL" /\ InWait(t) /\ Linked(waiters, t)
           \/ waitType[t] = "SLEEP" /\ ~InWait(t)
LinkedIsInWait ==
    \A t \in Tasks : Linked(waiters, t) =>
        InWait(t) /\ (state[t] = "BLOCKED" \/ waitResult[t] = "TIMEOUT")
WaitersInvariant ==
    /\ BlockedIsLinked /\ LinkedIsInWait
    /\ NoRepeats(waiters) /\ Sorted(waiters, priority)

(* A task carries a block exactly when it was served.                           *)
GrantIsExact ==
    \A t \in Slots : pc[t] # "retry" /\ (grant[t] # NoBlock <=> Served(t))

(* A block is in one of the three places, and in one only.                      *)
Carried(b) == \E t \in Slots : grant[t] = b
BlockIsSomewhere == \A b \in Blocks : Linked(freeList, b) \/ b \in inUse \/ Carried(b)
BlockIsOnce ==
    /\ NoRepeats(freeList)
    /\ \A b \in Blocks :
          /\ ~(Linked(freeList, b) /\ b \in inUse)
          /\ ~(Linked(freeList, b) /\ Carried(b))
          /\ ~(b \in inUse /\ Carried(b))
    /\ \A t, u \in Slots : grant[t] # NoBlock /\ grant[t] = grant[u] => t = u
BlocksInvariant ==
    BlockIsSomewhere /\ BlockIsOnce /\ freeCount = Len(freeList)

(* The inductive invariant.                                                     *)
IInv ==
    /\ KernelInv /\ PrioritiesAreBase
    /\ ListTypes /\ BlockTypes
    /\ WaitersInvariant
    /\ GrantIsExact
    /\ BlocksInvariant

LEMMA IInvFacts ==
    ASSUME IInv
    PROVE  /\ RingIsWhole /\ Tasks \subseteq Slots /\ current \in Tasks
           /\ waiters \in Seq(Tasks) /\ NoRepeats(waiters)
           /\ priority \in [Slots -> Nat] /\ Sorted(waiters, priority)
           /\ freeList \in Seq(Blocks) /\ NoRepeats(freeList)
           /\ BlockCount \in Nat /\ NoBlock \notin Blocks /\ Timeouts \subseteq Nat
  BY TaskFacts, MempoolAssumption
  DEF IInv, KernelInv, KernelTypes, ListTypes, WaitersInvariant, PrioritiesAreBase,
      BlocksInvariant, BlockIsOnce

LEMMA CurrentIsFree ==
    ASSUME IInv, InApp
    PROVE  /\ ~pendsv /\ current # Idle /\ pc[current] = "app" /\ current \in Slots
           /\ state[current] = "RUNNING" /\ ~Linked(waiters, current)
           /\ ~Served(current) /\ grant[current] = NoBlock
  <1>1. /\ ~pendsv /\ current # Idle /\ pc[current] = "app" /\ current \in Slots
        /\ state[current] = "RUNNING" /\ current \in Tasks
    BY CallerFacts DEF IInv, InApp
  <1>2. ~Linked(waiters, current)
    BY <1>1 DEF IInv, WaitersInvariant, LinkedIsInWait, InWait
  <1>3. ~Served(current)
    BY <1>1 DEF Served, InWait
  <1> QED  BY <1>1, <1>2, <1>3 DEF IInv, GrantIsExact
-------------------------------------------------------------------------------
(* The free list.                                                               *)
Prepended(p, q, x) ==
    /\ Len(p) = Len(q) + 1 /\ NoRepeats(p)
    /\ \A y : Linked(p, y) <=> y = x \/ Linked(q, y)

LEMMA PrependLinks ==
    ASSUME NEW T, NEW q \in Seq(T), NEW x \in T, NoRepeats(q), ~Linked(q, x)
    PROVE  <<x>> \o q \in Seq(T) /\ Prepended(<<x>> \o q, q, x)
  <1> DEFINE p == <<x>> \o q
  <1>1. Len(q) \in Nat /\ <<x>> \in Seq(T) /\ Len(<<x>>) = 1 /\ <<x>>[1] = x
    BY LenProperties
  <1>2. /\ p \in Seq(T) /\ Len(p) = Len(q) + 1
        /\ \A i \in 1 .. Len(q) + 1 : p[i] = IF i = 1 THEN x ELSE q[i - 1]
    BY <1>1, ConcatProperties
  <1> HIDE DEF p
  <1>3. ASSUME NEW y PROVE Linked(p, y) <=> y = x \/ Linked(q, y)
    <2>1. ASSUME y = x PROVE Linked(p, y)
      BY <1>1, <1>2, <2>1 DEF Linked
    <2>2. ASSUME Linked(q, y) PROVE Linked(p, y)
      <3>1. PICK i \in 1 .. Len(q) : q[i] = y
        BY <2>2 DEF Linked
      <3>2. i + 1 \in 1 .. Len(p) /\ p[i + 1] = y
        BY <1>1, <1>2, <3>1
      <3> QED  BY <3>2 DEF Linked
    <2>3. ASSUME Linked(p, y), y # x PROVE Linked(q, y)
      <3>1. PICK i \in 1 .. Len(p) : p[i] = y
        BY <2>3 DEF Linked
      <3>2. i - 1 \in 1 .. Len(q) /\ q[i - 1] = y
        BY <1>1, <1>2, <2>3, <3>1
      <3> QED  BY <3>2 DEF Linked
    <2> QED  BY <2>1, <2>2, <2>3
  <1>4. NoRepeats(p)
    <2>1. \A i \in 1 .. Len(q) : q[i] # x
      BY DEF Linked
    <2>2. ASSUME NEW i \in 1 .. Len(p), NEW j \in 1 .. Len(p), p[i] = p[j]
          PROVE  i = j
      <3>1. \A k \in 1 .. Len(p) : k = 1 \/ (k # 1 /\ k - 1 \in 1 .. Len(q))
        BY <1>1, <1>2
      <3>2. \A k \in 1 .. Len(p) : p[k] = IF k = 1 THEN x ELSE q[k - 1]
        BY <1>1, <1>2
      <3>3. i = 1 <=> j = 1
        BY <2>1, <2>2, <3>1, <3>2
      <3>4. CASE i # 1 /\ j # 1
        <4>1. i - 1 \in 1 .. Len(q) /\ j - 1 \in 1 .. Len(q) /\ q[i - 1] = q[j - 1]
          BY <2>2, <3>1, <3>2, <3>4
        <4>2. i - 1 = j - 1
          BY <4>1 DEF NoRepeats
        <4> QED  BY <1>1, <1>2, <4>2
      <3> QED  BY <3>3, <3>4
    <2> QED  BY <2>2 DEF NoRepeats
  <1>5. Prepended(p, q, x)
    BY <1>2, <1>3, <1>4 DEF Prepended
  <1> QED  BY <1>2, <1>5 DEF p

Beheaded(p, q, x) ==
    /\ Len(p) = Len(q) - 1 /\ NoRepeats(p) /\ Linked(q, x)
    /\ \A y : Linked(p, y) <=> Linked(q, y) /\ y # x

LEMMA TailUnlinks ==
    ASSUME NEW T, NEW q \in Seq(T), q # <<>>, NoRepeats(q)
    PROVE  Head(q) \in T /\ Tail(q) \in Seq(T) /\ Beheaded(Tail(q), q, Head(q))
  <1> DEFINE p == Tail(q)
  <1>1. /\ Len(q) \in Nat \ {0} /\ Head(q) = q[1] /\ Head(q) \in T
        /\ p \in Seq(T) /\ Len(p) = Len(q) - 1
        /\ \A i \in 1 .. Len(p) : p[i] = q[i + 1]
    BY LenProperties, EmptySeq, HeadTailProperties
  <1> HIDE DEF p
  <1>2. ASSUME NEW y PROVE Linked(p, y) <=> Linked(q, y) /\ y # q[1]
    <2>1. ASSUME Linked(p, y) PROVE Linked(q, y) /\ y # q[1]
      <3>1. PICK i \in 1 .. Len(p) : p[i] = y
        BY <2>1 DEF Linked
      <3>2. i + 1 \in 1 .. Len(q) /\ 1 \in 1 .. Len(q) /\ q[i + 1] = y /\ i + 1 # 1
        BY <1>1, <3>1
      <3> QED  BY <3>2 DEF Linked, NoRepeats
    <2>2. ASSUME Linked(q, y), y # q[1] PROVE Linked(p, y)
      <3>1. PICK i \in 1 .. Len(q) : q[i] = y
        BY <2>2 DEF Linked
      <3>2. i - 1 \in 1 .. Len(p) /\ p[i - 1] = y
        BY <1>1, <2>2, <3>1
      <3> QED  BY <3>2 DEF Linked
    <2> QED  BY <2>1, <2>2
  <1>3. NoRepeats(p)
    BY <1>1 DEF NoRepeats
  <1>4. Linked(q, q[1])
    BY <1>1 DEF Linked
  <1>5. Beheaded(p, q, q[1])
    BY <1>1, <1>2, <1>3, <1>4 DEF Beheaded
  <1> QED  BY <1>1, <1>5 DEF p

(* The counter never passes the number of blocks, and is below it when a block  *)
(* is elsewhere.                                                                *)
LEMMA ListFits ==
    ASSUME IInv
    PROVE  /\ Len(freeList) \in 0 .. BlockCount
           /\ \A b \in Blocks : ~Linked(freeList, b) => Len(freeList) < BlockCount
  <1> DEFINE n == Len(freeList)
  <1>1. /\ n \in Nat /\ BlockCount \in Nat /\ freeList \in [1 .. n -> Blocks]
        /\ NoRepeats(freeList)
    BY IInvFacts, LenProperties
  <1>2. /\ IsFiniteSet(Blocks) /\ Cardinality(Blocks) = BlockCount
        /\ IsFiniteSet(1 .. n) /\ Cardinality(1 .. n) = n
    <2> HIDE DEF n
    <2>1. ASSUME NEW k \in Nat
          PROVE  IsFiniteSet(1 .. k) /\ Cardinality(1 .. k) = k
      <3>1. 1 \in Int /\ k \in Int /\ (IF 1 > k THEN 0 ELSE k - 1 + 1) = k
        OBVIOUS
      <3> QED  BY <3>1, FS_Interval
    <2> QED  BY <1>1, <2>1 DEF Blocks
  <1>3. n <= BlockCount
    <2> SUFFICES ASSUME BlockCount < n PROVE FALSE
      BY <1>1
    <2>1. \E x, y \in 1 .. n : x # y /\ freeList[x] = freeList[y]
      BY <1>1, <1>2, FS_PigeonHole
    <2> QED  BY <1>1, <2>1 DEF NoRepeats
  <1>4. ASSUME NEW b \in Blocks, ~Linked(freeList, b), BlockCount <= n
        PROVE  FALSE
    <2> DEFINE T == Blocks \ {b}
    <2>1. IsFiniteSet(T) /\ Cardinality(T) = BlockCount - 1
      BY <1>2, FS_RemoveElement
    <2>2. freeList \in [1 .. n -> T]
      BY <1>1, <1>4 DEF Linked
    <2>3. Cardinality(T) < Cardinality(1 .. n)
      BY <1>1, <1>2, <1>4, <2>1
    <2> HIDE DEF T, n
    <2>4. \E x, y \in 1 .. n : x # y /\ freeList[x] = freeList[y]
      BY <1>2, <2>1, <2>2, <2>3, FS_PigeonHole
    <2> QED  BY <1>1, <2>4 DEF NoRepeats, n
  <1> QED  BY <1>1, <1>3, <1>4
-------------------------------------------------------------------------------
LEMMA InitialFreeList ==
    ASSUME Init
    PROVE  /\ freeList \in Seq(Blocks) /\ Len(freeList) = BlockCount
           /\ \A i \in Blocks : freeList[i] = BlockCount + 1 - i
  <1>1. BlockCount \in Nat
    BY MempoolAssumption
  <1>2. \A i \in Blocks : BlockCount + 1 - i \in Blocks
    BY <1>1 DEF Blocks
  <1>3. freeList \in [1 .. BlockCount -> Blocks]
    BY <1>2 DEF Init, Blocks
  <1>4. freeList \in Seq(Blocks)
    BY <1>1, <1>3, SeqDef
  <1> QED  BY <1>1, <1>3, <1>4, LenProperties DEF Init

LEMMA InitHolds == Init => IInv
  <1> SUFFICES ASSUME Init PROVE IInv
    OBVIOUS
  <1>1. /\ KernelInv /\ PrioritiesAreBase
        /\ \A t \in Slots : state[t] # "BLOCKED" /\ pc[t] = "app"
    BY KernelInitHolds DEF Init
  <1>2. Tasks \subseteq Slots
    BY <1>1, TaskFacts DEF KernelInv
  <1>3. BlockCount \in Nat
    BY MempoolAssumption
  <1>4. WaitersInvariant /\ waiters \in Seq(Tasks)
    <2>1. waiters = <<>> /\ waiters \in Seq(Tasks)
      BY DEF Init
    <2>2. /\ \A t : ~Linked(waiters, t)
          /\ NoRepeats(waiters) /\ Sorted(waiters, priority)
      BY <2>1 DEF Linked, NoRepeats, Sorted
    <2> QED
      BY <1>1, <1>2, <2>1, <2>2 DEF WaitersInvariant, BlockedIsLinked, LinkedIsInWait
  <1>5. BlockTypes /\ \A t \in Slots : grant[t] = NoBlock
    BY DEF Init, BlockTypes
  <1>6. /\ freeList \in Seq(Blocks) /\ Len(freeList) = BlockCount
        /\ \A i \in Blocks : freeList[i] = BlockCount + 1 - i
    BY InitialFreeList
  <1>7. \A b \in Blocks : Linked(freeList, b)
    <2> TAKE b \in Blocks
    <2>1. BlockCount + 1 - b \in Blocks /\ freeList[BlockCount + 1 - b] = b
      BY <1>3, <1>6 DEF Blocks
    <2> QED  BY <1>6, <2>1 DEF Linked, Blocks
  <1>8. NoRepeats(freeList)
    BY <1>3, <1>6 DEF NoRepeats, Blocks
  <1>9. BlocksInvariant
    BY <1>5, <1>6, <1>7, <1>8, MempoolAssumption
    DEF Init, BlocksInvariant, BlockIsSomewhere, BlockIsOnce, Carried
  <1>10. GrantIsExact
    BY <1>1, <1>5 DEF GrantIsExact, Served, InWait
  <1> QED
    BY <1>1, <1>4, <1>5, <1>6, <1>9, <1>10 DEF IInv, ListTypes

(* A step that leaves the blocks alone.                                         *)
LEMMA BlocksKept ==
    ASSUME IInv, UNCHANGED <<freeList, freeCount, grant, inUse>>
    PROVE  BlocksInvariant' /\ BlockTypes' /\ freeList' \in Seq(Blocks)
  BY DEF IInv, BlocksInvariant, BlockIsSomewhere, BlockIsOnce, Carried, BlockTypes,
         NoRepeats, Linked, ListTypes
-------------------------------------------------------------------------------
(* SysTick, PendSV and the yields.                                              *)
LEMMA KernelStepHolds ==
    ASSUME IInv, KernelStep, UNCHANGED poolVars
    PROVE  IInv'
  <1>1. /\ KernelInv' /\ ring' = ring
        /\ UNCHANGED <<basePriority, priority, waitType, grant, waiters>>
        /\ \A t \in Slots : KernelEffect(t)
    BY KernelStepEffect DEF IInv, poolVars
  <1>2. Tasks' = Tasks /\ Tasks \subseteq Slots
    BY <1>1, TasksHold, IInvFacts
  <1>3. BlockedIsLinked'
    BY <1>1, <1>2
    DEF IInv, WaitersInvariant, BlockedIsLinked, KernelEffect, OnlySwitched, TimesOut,
        Runnable, InWait, InWaitCode, Linked
  <1>4. LinkedIsInWait'
    BY <1>1, <1>2
    DEF IInv, WaitersInvariant, LinkedIsInWait, KernelEffect, OnlySwitched, TimesOut,
        Runnable, InWait, InWaitCode, Linked
  <1>5. GrantIsExact'
    BY <1>1
    DEF IInv, GrantIsExact, Served, KernelEffect, OnlySwitched, TimesOut,
        Runnable, InWait, InWaitCode
  <1>6. BlocksInvariant' /\ BlockTypes' /\ freeList' \in Seq(Blocks)
    BY BlocksKept DEF poolVars
  <1> QED
    BY <1>1, <1>2, <1>3, <1>4, <1>5, <1>6
    DEF IInv, ListTypes, PrioritiesAreBase, WaitersInvariant, NoRepeats, Sorted

(* A task sleeps.                                                               *)
LEMMA SleepHolds ==
    ASSUME IInv, NEW ms \in Timeouts, Sleep(ms), UNCHANGED poolVars
    PROVE  IInv'
  <1>1. /\ InApp /\ ms \in Nat /\ "SLEEP" \in WaitTypes
        /\ BlockCurrent("SLEEP", ms, "kick")
        /\ UNCHANGED <<ring, current, pendsv, basePriority, priority, waiters, grant>>
    BY IInvFacts DEF Sleep, WaitTypes, ringVars, poolVars
  <1>2. KernelInv' /\ \A t \in Slots : BlockEffect("SLEEP", "kick", t)
    BY <1>1, CurrentIsFree, BlockCurrentEffect DEF IInv
  <1>3. Tasks' = Tasks /\ Tasks \subseteq Slots
    BY <1>1, TasksHold, IInvFacts
  <1>4. BlockedIsLinked'
    BY <1>1, <1>2, <1>3
    DEF IInv, WaitersInvariant, BlockedIsLinked, BlockEffect, SameWait, SameCode, InWait, Linked
  <1>5. LinkedIsInWait'
    BY <1>1, <1>2, <1>3, CurrentIsFree
    DEF IInv, WaitersInvariant, LinkedIsInWait, BlockEffect, SameWait, SameCode, InWait, Linked
  <1>6. GrantIsExact'
    BY <1>1, <1>2, CurrentIsFree
    DEF IInv, GrantIsExact, BlockEffect, SameWait, SameCode, Served, InWait
  <1>7. BlocksInvariant' /\ BlockTypes' /\ freeList' \in Seq(Blocks)
    BY BlocksKept DEF poolVars
  <1> QED
    BY <1>1, <1>2, <1>3, <1>4, <1>5, <1>6, <1>7
    DEF IInv, ListTypes, PrioritiesAreBase, WaitersInvariant, NoRepeats, Sorted

LEMMA AllocHolds ==
    ASSUME IInv, Alloc
    PROVE  IInv'
  <1> DEFINE b == Head(freeList)
  <1>1. /\ UNCHANGED <<ring, current, pendsv, state, delay, waitType, waitResult, pc,
                       basePriority, priority, waiters, grant>>
        /\ freeList # <<>> /\ freeList' = Tail(freeList) /\ freeCount' = freeCount - 1
        /\ inUse' = inUse \cup {b}
    BY DEF Alloc, PopFreeBlock, kernelVars, ringVars, tcbVars
  <1>2. Tasks' = Tasks
    BY <1>1, TasksHold
  <1>3. b \in Blocks /\ freeList' \in Seq(Blocks) /\ Beheaded(freeList', freeList, b)
    BY <1>1, IInvFacts, TailUnlinks
  <1> HIDE DEF b
  <1>4. BlocksInvariant' /\ BlockTypes'
    BY <1>1, <1>3
    DEF IInv, BlocksInvariant, BlockIsSomewhere, BlockIsOnce, Carried, BlockTypes, Beheaded
  <1> QED
    BY <1>1, <1>2, <1>3, <1>4
    DEF IInv, KernelInv, KernelTypes, RingIsWhole, TaskCount, ServedRuns, IdleStaysOut,
        ListTypes, PrioritiesAreBase, WaitersInvariant, BlockedIsLinked, LinkedIsInWait,
        GrantIsExact, Served, InWait, NoRepeats, Sorted, Linked

LEMMA StartWaitHolds ==
    ASSUME IInv, NEW ms \in Timeouts, StartWait(ms)
    PROVE  IInv'
  <1>1. /\ InApp /\ ms \in Nat /\ "MEMPOOL" \in WaitTypes
        /\ BlockCurrent("MEMPOOL", ms, "block")
        /\ UNCHANGED <<ring, current, pendsv, basePriority, priority,
                       freeList, freeCount, inUse>>
        /\ waiters' = WaitPush(waiters, current, priority)
        /\ grant' = [grant EXCEPT ![current] = NoBlock]
    BY IInvFacts DEF StartWait, WaitTypes, ringVars
  <1>2. KernelInv' /\ \A t \in Slots : BlockEffect("MEMPOOL", "block", t)
    BY <1>1, CurrentIsFree, BlockCurrentEffect DEF IInv
  <1>3. Tasks' = Tasks /\ Tasks \subseteq Slots
    BY <1>1, TasksHold, IInvFacts
  <1>4. Pushed(waiters', waiters, current) /\ Sorted(waiters', priority)
    BY <1>1, CurrentIsFree, IInvFacts, PushLinks
  <1>5. BlockedIsLinked'
    BY <1>1, <1>2, <1>3, <1>4
    DEF IInv, WaitersInvariant, BlockedIsLinked, BlockEffect, SameWait, SameCode, InWait, Pushed
  <1>6. LinkedIsInWait'
    BY <1>1, <1>2, <1>3, <1>4
    DEF IInv, WaitersInvariant, LinkedIsInWait, BlockEffect, SameWait, SameCode, InWait, Pushed
  <1>7. grant' = grant
    BY <1>1, CurrentIsFree DEF IInv, BlockTypes
  <1>8. GrantIsExact'
    BY <1>1, <1>2, <1>7, CurrentIsFree
    DEF IInv, GrantIsExact, BlockEffect, SameWait, SameCode, Served, InWait
  <1>9. BlocksInvariant' /\ BlockTypes' /\ freeList' \in Seq(Blocks)
    BY <1>1, <1>7, BlocksKept
  <1> QED
    BY <1>1, <1>2, <1>3, <1>4, <1>5, <1>6, <1>8, <1>9
    DEF IInv, ListTypes, PrioritiesAreBase, WaitersInvariant, Pushed
-------------------------------------------------------------------------------
(* A task comes back from its wait: without a block, or with the one that was   *)
(* handed to it.                                                                *)
LEMMA EndWaitEffects ==
    ASSUME IInv, EndWait
    PROVE  /\ KernelInv' /\ current \in 1 .. AppTasks /\ current \in Slots
           /\ \A t \in Slots : t # current => SameWait(t) /\ SameCode(t)
           /\ state[current] = "RUNNING" /\ pc'[current] = "app" /\ pc[current] = "resume"
           /\ UNCHANGED <<ring, current, state, basePriority, priority, waitResult,
                          freeList, freeCount>>
           /\ Removed(waiters', waiters, current) /\ Sorted(waiters', priority)
           /\ \/ GiveUp /\ grant[current] = NoBlock /\ UNCHANGED <<grant, inUse>>
              \/ /\ Collect /\ grant[current] \in Blocks
                 /\ grant' = [grant EXCEPT ![current] = NoBlock]
                 /\ inUse' = inUse \cup {grant[current]}
  <1>1. /\ Resuming /\ UNCHANGED <<ring, current, pendsv, state, delay, waitResult,
                                   basePriority, priority, freeList, freeCount>>
    BY DEF EndWait, ringVars
  <1>2. /\ state[current] = "RUNNING" /\ current \in Slots /\ current \in Tasks
        /\ pc[current] = "resume" /\ current # Idle
    BY <1>1, CallerFacts DEF IInv, Resuming
  <1>3. current \in 1 .. AppTasks
    BY <1>2, TaskFacts DEF IInv, KernelInv
  <1>4. CASE GiveUp
    <2>1. /\ GoTo("app") /\ waitType' = [waitType EXCEPT ![current] = "NONE"]
          /\ waitResult[current] = "TIMEOUT" /\ UNCHANGED <<grant, inUse>>
          /\ waiters' = WaitRemove(waiters, current)
      BY <1>4 DEF GiveUp
    <2>2. /\ KernelInv' /\ pc'[current] = "app"
          /\ \A t \in Slots : t # current => SameWait(t) /\ SameCode(t)
      BY <1>1, <2>1, EndWaitEffect DEF IInv
    <2>3. Removed(waiters', waiters, current) /\ Sorted(waiters', priority)
      BY <2>1, RemoveUnlinks, IInvFacts
    <2>4. grant[current] = NoBlock
      BY <1>2, <2>1 DEF IInv, GrantIsExact, Served
    <2> QED  BY <1>1, <1>2, <1>3, <1>4, <2>1, <2>2, <2>3, <2>4
  <1>5. CASE Collect
    <2>1. Served(current)
      BY <1>2, <1>5 DEF Collect, Served, InWait
    <2>2. grant[current] # NoBlock /\ grant[current] \in Blocks
      BY <1>2, <2>1 DEF IInv, GrantIsExact, BlockTypes
    <2>3. /\ GoTo("app") /\ UNCHANGED <<waiters, waitType>>
          /\ grant' = [grant EXCEPT ![current] = NoBlock]
          /\ inUse' = inUse \cup {grant[current]}
      BY <1>5, <2>2 DEF Collect
    <2>4. /\ KernelInv' /\ pc'[current] = "app"
          /\ \A t \in Slots : t # current => SameWait(t) /\ SameCode(t)
      BY <1>1, <2>3, EndWaitEffect DEF IInv
    <2>5. ~Linked(waiters, current)
      BY <1>2, <2>1 DEF IInv, WaitersInvariant, LinkedIsInWait, Served
    <2>6. Removed(waiters', waiters, current) /\ Sorted(waiters', priority)
      BY <2>3, <2>5, IInvFacts DEF Removed
    <2> QED  BY <1>1, <1>2, <1>3, <1>5, <2>2, <2>3, <2>4, <2>6
  <1> QED  BY <1>4, <1>5 DEF EndWait

LEMMA EndWaitHolds ==
    ASSUME IInv, EndWait
    PROVE  IInv'
  <1>1. /\ KernelInv' /\ current \in Slots
        /\ \A t \in Slots : t # current => SameWait(t) /\ SameCode(t)
        /\ state[current] = "RUNNING" /\ pc'[current] = "app"
        /\ UNCHANGED <<ring, current, state, basePriority, priority, waitResult,
                       freeList, freeCount>>
        /\ Removed(waiters', waiters, current) /\ Sorted(waiters', priority)
    BY EndWaitEffects
  <1>2. Tasks' = Tasks /\ Tasks \subseteq Slots
    BY <1>1, TasksHold, IInvFacts
  <1>3. BlockedIsLinked'
    BY <1>1, <1>2
    DEF IInv, WaitersInvariant, BlockedIsLinked, SameWait, SameCode, InWait, Removed
  <1>4. LinkedIsInWait'
    BY <1>1, <1>2
    DEF IInv, WaitersInvariant, LinkedIsInWait, SameWait, SameCode, InWait, Removed
  <1>5. BlockTypes'
    BY <1>1, EndWaitEffects DEF IInv, BlockTypes
  <1>6. grant'[current] = NoBlock /\ \A t \in Slots : t # current => grant'[t] = grant[t]
    BY <1>1, EndWaitEffects DEF IInv, BlockTypes
  <1>7. GrantIsExact'
    BY <1>1, <1>6 DEF IInv, GrantIsExact, Served, SameWait, SameCode, InWait
  <1>8. BlocksInvariant'
    <2>1. CASE UNCHANGED <<grant, inUse>>
      BY <1>1, <2>1, BlocksKept
    <2>2. CASE grant[current] \in Blocks /\ inUse' = inUse \cup {grant[current]}
      <3>1. \A b \in Blocks : Carried(b)' <=> Carried(b) /\ b # grant[current]
        BY <1>1, <1>6, <2>2, IInvFacts DEF IInv, BlocksInvariant, BlockIsOnce, Carried
      <3>2. BlockIsSomewhere'
        BY <1>1, <2>2, <3>1 DEF IInv, BlocksInvariant, BlockIsSomewhere, Linked
      <3>3. BlockIsOnce'
        BY <1>1, <1>6, <2>2, <3>1
        DEF IInv, BlocksInvariant, BlockIsOnce, Linked, NoRepeats, Carried
      <3> QED  BY <1>1, <3>2, <3>3 DEF IInv, BlocksInvariant
    <2> QED  BY <2>1, <2>2, EndWaitEffects
  <1> QED
    BY <1>1, <1>2, <1>3, <1>4, <1>5, <1>7, <1>8
    DEF IInv, ListTypes, PrioritiesAreBase, WaitersInvariant, Removed
-------------------------------------------------------------------------------
(* A block is freed: it goes to the first waiter, or to the free list.          *)
LEMMA FreeEffects ==
    ASSUME IInv, NEW b \in Blocks, Free(b)
    PROVE  /\ KernelInv' /\ b \in inUse /\ inUse' = inUse \ {b}
           /\ \A t \in Slots : WakeEffect(waiters, t)
           /\ \A t \in Slots : InWait(t)' <=> InWait(t)
           /\ \A t \in Slots : pc'[t] # "retry"
           /\ Popped(waiters', waiters) /\ Sorted(waiters', priority)
           /\ MostUrgent(waiters, priority)
           /\ UNCHANGED <<ring, basePriority, priority>>
  <1>1. /\ WakeFirst(waiters) /\ ReturnAfterWake(waiters)
        /\ waiters' = WaitPop(waiters, Waiting) /\ InApp
        /\ b \in inUse /\ inUse' = inUse \ {b}
        /\ UNCHANGED <<ring, current, pendsv, basePriority, priority>>
    BY DEF Free, FreeTo, ringVars
  <1>2. /\ Popped(waiters', waiters) /\ Sorted(waiters', priority)
        /\ MostUrgent(waiters, priority)
    BY <1>1, IInvFacts, PopLinks, PopServes
  <1>3. /\ KernelInv'
        /\ \A t \in Slots : WakeEffect(waiters, t)
        /\ \A t \in Slots : t # current => SameCode(t)
        /\ pc'[current] \in {"app", "kick"} /\ pc[current] = "app"
    BY <1>1, CurrentIsFree, TaskWakesEffect, IInvFacts DEF IInv
  <1> QED  BY <1>1, <1>2, <1>3 DEF SameCode, InWait, IInv, GrantIsExact

(* The block goes to a waiter.                                                  *)
LEMMA FreeHandsOver ==
    ASSUME IInv, NEW b \in Blocks, Free(b), ~NobodyWaits(waiters)
    PROVE  /\ Chosen(waiters) \in 1 .. AppTasks /\ Chosen(waiters) \in Slots
           /\ StillWaiting(Chosen(waiters)) /\ Linked(waiters, Chosen(waiters))
           /\ InWait(Chosen(waiters)) /\ grant[Chosen(waiters)] = NoBlock
           /\ waitType[Chosen(waiters)] = "MEMPOOL"
           /\ grant' = [grant EXCEPT ![Chosen(waiters)] = b]
           /\ UNCHANGED <<freeList, freeCount>>
  <1> DEFINE c == Chosen(waiters)
  <1>1. /\ c \in Tasks /\ c \in Slots /\ c # Idle
        /\ StillWaiting(c) /\ Linked(waiters, c)
    BY ChosenWaits, IInvFacts DEF IInv
  <1>2. c \in 1 .. AppTasks
    BY <1>1, TaskFacts DEF IInv, KernelInv
  <1>3. InWait(c) /\ waitType[c] = "MEMPOOL" /\ ~Served(c)
    BY <1>1
    DEF IInv, WaitersInvariant, BlockedIsLinked, LinkedIsInWait, StillWaiting, Served
  <1>4. grant[c] = NoBlock
    BY <1>1, <1>3 DEF IInv, GrantIsExact
  <1>5. grant' = [grant EXCEPT ![c] = b] /\ UNCHANGED <<freeList, freeCount>>
    BY DEF Free, FreeTo, HandOver, Chosen
  <1> QED  BY <1>1, <1>2, <1>3, <1>4, <1>5

LEMMA FreeHolds ==
    ASSUME IInv, NEW b \in Blocks, Free(b)
    PROVE  IInv'
  <1>1. /\ KernelInv' /\ b \in inUse /\ inUse' = inUse \ {b}
        /\ \A t \in Slots : WakeEffect(waiters, t)
        /\ \A t \in Slots : InWait(t)' <=> InWait(t)
        /\ \A t \in Slots : pc'[t] # "retry"
        /\ Popped(waiters', waiters) /\ Sorted(waiters', priority)
        /\ UNCHANGED <<ring, basePriority, priority>>
    BY FreeEffects
  <1>2. Tasks' = Tasks /\ Tasks \subseteq Slots
    BY <1>1, TasksHold, IInvFacts
  <1>3. BlockedIsLinked'
    BY <1>1, <1>2
    DEF IInv, WaitersInvariant, BlockedIsLinked, WakeEffect, SameWait, Popped, StillWaiting
  <1>4. LinkedIsInWait'
    BY <1>1, <1>2
    DEF IInv, WaitersInvariant, LinkedIsInWait, WakeEffect, SameWait, Popped
  <1>5. CASE NobodyWaits(waiters)
    <2>1. /\ grant' = grant /\ freeList' = <<b>> \o freeList /\ freeCount' = freeCount + 1
      BY <1>5 DEF Free, FreeTo, HandOver, PushFreeBlock
    <2>2. ~Linked(freeList, b) /\ ~Carried(b)
      BY <1>1 DEF IInv, BlocksInvariant, BlockIsOnce
    <2>3. freeList' \in Seq(Blocks) /\ Prepended(freeList', freeList, b)
      BY <2>1, <2>2, IInvFacts, PrependLinks
    <2>4. BlockTypes' /\ GrantIsExact'
      BY <1>1, <1>5, <2>1
      DEF IInv, BlockTypes, GrantIsExact, Served, WakeEffect, SameWait
    <2>5. BlocksInvariant'
      BY <1>1, <2>1, <2>2, <2>3
      DEF IInv, BlocksInvariant, BlockIsSomewhere, BlockIsOnce, Carried, Prepended
    <2> QED
      BY <1>1, <1>2, <1>3, <1>4, <2>3, <2>4, <2>5
      DEF IInv, ListTypes, PrioritiesAreBase, WaitersInvariant, Popped
  <1>6. CASE ~NobodyWaits(waiters)
    <2> DEFINE c == Chosen(waiters)
    <2>1. /\ c \in Slots /\ StillWaiting(c) /\ InWait(c) /\ grant[c] = NoBlock
          /\ grant' = [grant EXCEPT ![c] = b] /\ UNCHANGED <<freeList, freeCount>>
      BY <1>6, FreeHandsOver
    <2>2. \A t \in Slots : IF t = c THEN state'[t] = "READY" /\ waitResult'[t] = "OK"
                                    ELSE SameWait(t)
      BY <1>1, <1>6 DEF WakeEffect
    <2> HIDE DEF c
    <2>3. grant'[c] = b /\ \A t \in Slots : t # c => grant'[t] = grant[t]
      BY <2>1 DEF IInv, BlockTypes
    <2>4. BlockTypes'
      BY <1>1, <2>1 DEF IInv, BlockTypes
    <2>5. GrantIsExact'
      BY <1>1, <2>1, <2>2, <2>3, IInvFacts DEF IInv, GrantIsExact, Served, SameWait
    <2>6. \A d \in Blocks : Carried(d)' <=> Carried(d) \/ d = b
      BY <2>1, <2>3, IInvFacts DEF Carried
    <2>7. BlockIsSomewhere'
      BY <1>1, <2>1, <2>6 DEF IInv, BlocksInvariant, BlockIsSomewhere, Linked
    <2>8. BlockIsOnce'
      <3>1. ~Linked(freeList, b) /\ ~Carried(b)
        BY <1>1 DEF IInv, BlocksInvariant, BlockIsOnce
      <3> QED
        BY <1>1, <2>1, <2>3, <2>6, <3>1
        DEF IInv, BlocksInvariant, BlockIsOnce, Linked, NoRepeats, Carried
    <2> QED
      BY <1>1, <1>2, <1>3, <1>4, <2>1, <2>4, <2>5, <2>7, <2>8
      DEF IInv, ListTypes, PrioritiesAreBase, WaitersInvariant, BlocksInvariant, Popped
  <1> QED  BY <1>5, <1>6
-------------------------------------------------------------------------------
LEMMA StutterHolds ==
    ASSUME IInv, UNCHANGED vars
    PROVE  IInv'
  <1>1. UNCHANGED <<ring, current, pendsv, state, delay, waitType, waitResult, pc,
                    basePriority, priority, waiters, freeList, freeCount, grant, inUse>>
    BY DEF vars, kernelVars, ringVars, tcbVars, poolVars
  <1>2. Tasks' = Tasks
    BY <1>1, TasksHold
  <1>3. BlocksInvariant' /\ BlockTypes' /\ freeList' \in Seq(Blocks)
    BY <1>1, BlocksKept
  <1> QED
    BY <1>1, <1>2, <1>3
    DEF IInv, KernelInv, KernelTypes, RingIsWhole, TaskCount, ServedRuns, IdleStaysOut,
        ListTypes, PrioritiesAreBase, WaitersInvariant, BlockedIsLinked, LinkedIsInWait,
        GrantIsExact, Served, InWait, NoRepeats, Sorted, Linked

LEMMA NextHolds == IInv /\ [Next]_vars => IInv'
  <1> SUFFICES ASSUME IInv, [Next]_vars PROVE IInv'
    OBVIOUS
  <1>1. CASE KernelStep /\ UNCHANGED poolVars
    BY <1>1, KernelStepHolds
  <1>2. CASE AppStep /\ UNCHANGED poolVars
    BY <1>2, SleepHolds DEF AppStep
  <1>3. CASE Alloc
    BY <1>3, AllocHolds
  <1>4. CASE \E ms \in Timeouts : StartWait(ms)
    BY <1>4, StartWaitHolds
  <1>5. CASE EndWait
    BY <1>5, EndWaitHolds
  <1>6. CASE \E b \in Blocks : Free(b)
    BY <1>6, FreeHolds
  <1>7. CASE UNCHANGED vars
    BY <1>7, StutterHolds
  <1> QED  BY <1>1, <1>2, <1>3, <1>4, <1>5, <1>6, <1>7 DEF Next, PoolStep

LEMMA AlwaysHolds == Spec => []IInv
  BY InitHolds, NextHolds, PTL DEF Spec
-------------------------------------------------------------------------------
(* Every variable keeps its type; the free count stays within the pool.         *)
THEOREM TypeCorrect == Spec => []TypeOK
  <1>1. ASSUME IInv PROVE TypeOK
    <2>1. freeCount \in 0 .. BlockCount
      BY <1>1, ListFits DEF IInv, BlocksInvariant
    <2> QED
      BY <1>1, <2>1 DEF IInv, KernelInv, KernelTypes, ListTypes, BlockTypes, TypeOK
  <1> QED  BY <1>1, AlwaysHolds, PTL

(* No block is ever lost or given to two tasks, however allocations, time-outs  *)
(* and frees interleave.                                                        *)
THEOREM BlocksStayConserved == Spec => []BlocksConserved
  <1>1. ASSUME IInv PROVE BlocksConserved
    <2>1. ASSUME NEW b \in Blocks
          PROVE  Cardinality({t \in Slots : grant[t] = b}) =
                    IF Linked(freeList, b) \/ b \in inUse THEN 0 ELSE 1
      <3> DEFINE carriers == {t \in Slots : grant[t] = b}
      <3>1. CASE Linked(freeList, b) \/ b \in inUse
        <4>1. carriers = {}
          BY <1>1, <3>1 DEF IInv, BlocksInvariant, BlockIsOnce, Carried
        <4> HIDE DEF carriers
        <4>2. Cardinality(carriers) = 0
          BY <4>1, FS_EmptySet
        <4> QED  BY <3>1, <4>2 DEF carriers
      <3>2. CASE ~(Linked(freeList, b) \/ b \in inUse)
        <4>1. PICK t \in Slots : grant[t] = b
          BY <1>1, <3>2 DEF IInv, BlocksInvariant, BlockIsSomewhere, Carried
        <4>2. carriers = {t}
          BY <1>1, <4>1, IInvFacts DEF IInv, BlocksInvariant, BlockIsOnce
        <4> HIDE DEF carriers
        <4>3. Cardinality(carriers) = 1
          BY <4>2, FS_Singleton
        <4> QED  BY <3>2, <4>3 DEF carriers
      <3> QED  BY <3>1, <3>2
    <2> QED
      BY <1>1, <2>1 DEF IInv, BlocksInvariant, BlockIsOnce, BlocksConserved
  <1> QED  BY <1>1, AlwaysHolds, PTL

(* A hand-over and a time-out exclude each other: a task carries a block back   *)
(* exactly when its wait ended well, and only the waiting are linked.           *)
THEOREM HandOverStaysExact == Spec => []HandOverIsExact
  <1>1. IInv => HandOverIsExact
    BY DEF IInv, WaitersInvariant, BlockedIsLinked, LinkedIsInWait, GrantIsExact, Served,
           HandOverIsExact, StillWaiting
  <1> QED  BY <1>1, AlwaysHolds, PTL
-------------------------------------------------------------------------------
(* The refinement.  The tasks that wait for a block, and those that carry one.  *)
Clients == 1 .. AppTasks
WaitingClients == {t \in Clients : waitType[t] = "MEMPOOL" /\ StillWaiting(t)}
GrantedClients == {t \in Clients : grant[t] # NoBlock}

LEMMA ClientFacts ==
    ASSUME IInv
    PROVE  /\ Clients \subseteq Tasks /\ Clients \subseteq Slots
           /\ \A t \in Clients :
                 t \in WaitingClients <=> state[t] = "BLOCKED" /\ waitType[t] = "MEMPOOL"
           /\ current \in Tasks /\ (current # Idle => current \in Clients)
           /\ \A t \in Clients : priority[t] = BasePriority[t]
  BY TaskFacts
  DEF IInv, KernelInv, KernelTypes, WaitersInvariant, BlockedIsLinked, WaitingClients,
      Clients, StillWaiting, PrioritiesAreBase

AbstractStep ==
    \/ /\ WaitingClients = {} /\ Len(freeList) < BlockCount
       /\ Len(freeList') = Len(freeList) + 1
       /\ UNCHANGED <<WaitingClients, GrantedClients>>
    \/ /\ \E S \in SUBSET WaitingClients : S # {} /\ WaitingClients' = WaitingClients \ S
       /\ Len(freeList') = Len(freeList) /\ UNCHANGED GrantedClients
    \/ \E t \in Clients :
          /\ t \notin WaitingClients \cup GrantedClients
          /\ \/ /\ Len(freeList) > 0 /\ Len(freeList') = Len(freeList) - 1
                /\ UNCHANGED <<WaitingClients, GrantedClients>>
             \/ /\ Len(freeList) = 0 /\ WaitingClients' = WaitingClients \cup {t}
                /\ Len(freeList') = Len(freeList) /\ UNCHANGED GrantedClients
    \/ \E t \in WaitingClients :
          /\ \A u \in WaitingClients : BasePriority[u] <= BasePriority[t]
          /\ WaitingClients' = WaitingClients \ {t}
          /\ GrantedClients' = GrantedClients \cup {t}
          /\ Len(freeList') = Len(freeList)
    \/ \E t \in GrantedClients :
          /\ GrantedClients' = GrantedClients \ {t} /\ UNCHANGED WaitingClients
          /\ Len(freeList') = Len(freeList)
    \/ UNCHANGED <<WaitingClients, GrantedClients>> /\ Len(freeList') = Len(freeList)

LEMMA KernelStepRefines ==
    ASSUME IInv, KernelStep, UNCHANGED poolVars
    PROVE  AbstractStep
  <1>1. /\ waitType' = waitType /\ \A t \in Clients : KernelEffect(t)
        /\ UNCHANGED <<freeList, grant>>
    BY KernelStepEffect, ClientFacts DEF IInv, poolVars
  <1>2. \A t \in Clients : t \in WaitingClients' => t \in WaitingClients
    BY <1>1 DEF WaitingClients, StillWaiting, KernelEffect, OnlySwitched, TimesOut, Runnable
  <1>3. WaitingClients' = WaitingClients \ (WaitingClients \ WaitingClients')
    BY <1>2 DEF WaitingClients
  <1>4. GrantedClients' = GrantedClients /\ Len(freeList') = Len(freeList)
    BY <1>1 DEF GrantedClients
  <1> QED  BY <1>3, <1>4 DEF AbstractStep

LEMMA SleepRefines ==
    ASSUME IInv, NEW ms \in Timeouts, Sleep(ms), UNCHANGED poolVars
    PROVE  AbstractStep
  <1>1. /\ InApp /\ ms \in Nat /\ "SLEEP" \in WaitTypes
        /\ BlockCurrent("SLEEP", ms, "kick")
        /\ UNCHANGED <<ring, current, pendsv, freeList, grant>>
    BY IInvFacts DEF Sleep, WaitTypes, ringVars, poolVars
  <1>2. \A t \in Clients : BlockEffect("SLEEP", "kick", t)
    BY <1>1, CurrentIsFree, ClientFacts, BlockCurrentEffect DEF IInv
  <1>3. \A t \in Clients : t \in WaitingClients' <=> t \in WaitingClients
    BY <1>1, <1>2, CurrentIsFree DEF WaitingClients, StillWaiting, BlockEffect, SameWait
  <1>4. UNCHANGED <<WaitingClients, GrantedClients>> /\ Len(freeList') = Len(freeList)
    BY <1>1, <1>3 DEF WaitingClients, GrantedClients
  <1> QED  BY <1>4 DEF AbstractStep

LEMMA AllocRefines ==
    ASSUME IInv, Alloc
    PROVE  AbstractStep
  <1>1. /\ InApp /\ UNCHANGED <<state, waitType, waitResult, grant>>
        /\ freeList # <<>> /\ freeList' = Tail(freeList)
    BY DEF Alloc, PopFreeBlock, kernelVars, tcbVars
  <1>2. current \in Clients /\ current \notin WaitingClients \cup GrantedClients
    BY <1>1, CurrentIsFree, ClientFacts DEF WaitingClients, GrantedClients, StillWaiting
  <1>3. Len(freeList) > 0 /\ Len(freeList') = Len(freeList) - 1
    BY <1>1, IInvFacts, EmptySeq, HeadTailProperties
  <1>4. UNCHANGED <<WaitingClients, GrantedClients>>
    BY <1>1 DEF WaitingClients, GrantedClients, StillWaiting
  <1> QED  BY <1>2, <1>3, <1>4 DEF AbstractStep

LEMMA StartWaitRefines ==
    ASSUME IInv, NEW ms \in Timeouts, StartWait(ms)
    PROVE  AbstractStep
  <1>1. /\ InApp /\ ms \in Nat /\ "MEMPOOL" \in WaitTypes
        /\ BlockCurrent("MEMPOOL", ms, "block")
        /\ UNCHANGED <<ring, current, pendsv, freeList>> /\ Len(freeList) = 0
        /\ grant' = [grant EXCEPT ![current] = NoBlock]
    BY IInvFacts, EmptySeq DEF StartWait, WaitTypes, ringVars
  <1>2. /\ current \in Clients /\ state[current] = "RUNNING" /\ grant[current] = NoBlock
        /\ grant' = grant
    BY <1>1, CurrentIsFree, ClientFacts DEF IInv, BlockTypes
  <1>3. \A t \in Clients : BlockEffect("MEMPOOL", "block", t)
    BY <1>1, CurrentIsFree, ClientFacts, BlockCurrentEffect DEF IInv
  <1>4. \A t \in Clients : t \in WaitingClients' <=> t \in WaitingClients \/ t = current
    BY <1>1, <1>3 DEF WaitingClients, StillWaiting, BlockEffect, SameWait
  <1>5. current \notin WaitingClients \cup GrantedClients
    BY <1>2 DEF WaitingClients, GrantedClients, StillWaiting
  <1>6. WaitingClients' = WaitingClients \cup {current} /\ GrantedClients' = GrantedClients
    BY <1>2, <1>4 DEF WaitingClients, GrantedClients
  <1> QED  BY <1>1, <1>2, <1>5, <1>6 DEF AbstractStep

LEMMA EndWaitRefines ==
    ASSUME IInv, EndWait
    PROVE  AbstractStep
  <1>1. /\ current \in Clients /\ state[current] = "RUNNING" /\ state' = state
        /\ Clients \subseteq Slots /\ freeList' = freeList
        /\ \A t \in Slots : t # current => SameWait(t)
    BY EndWaitEffects, ClientFacts DEF Clients
  <1>2. \A t \in Clients : t \in WaitingClients' <=> t \in WaitingClients
    BY <1>1 DEF WaitingClients, StillWaiting, SameWait
  <1>3. WaitingClients' = WaitingClients
    BY <1>2 DEF WaitingClients
  <1>4. \/ GrantedClients' = GrantedClients
        \/ current \in GrantedClients /\ GrantedClients' = GrantedClients \ {current}
    <2>1. CASE UNCHANGED grant
      BY <2>1 DEF GrantedClients
    <2>2. CASE grant[current] \in Blocks /\ grant' = [grant EXCEPT ![current] = NoBlock]
      BY <1>1, <2>2, IInvFacts DEF GrantedClients, IInv, BlockTypes
    <2> QED  BY <2>1, <2>2, EndWaitEffects
  <1> QED  BY <1>1, <1>3, <1>4 DEF AbstractStep

LEMMA FreeRefines ==
    ASSUME IInv, NEW b \in Blocks, Free(b)
    PROVE  AbstractStep
  <1>1. /\ Clients \subseteq Slots /\ Clients \subseteq Tasks
        /\ b \in inUse /\ \A t \in Clients : WakeEffect(waiters, t)
        /\ Popped(waiters', waiters) /\ MostUrgent(waiters, priority)
    BY FreeEffects, ClientFacts
  <1>2. \A u \in WaitingClients : u \in Clients /\ u \in Tasks /\ StillWaiting(u)
                                 /\ Linked(waiters, u)
    BY <1>1 DEF WaitingClients, StillWaiting, IInv, WaitersInvariant, BlockedIsLinked
  <1>3. CASE NobodyWaits(waiters)
    <2>1. grant' = grant /\ freeList' = <<b>> \o freeList
      BY <1>3 DEF Free, FreeTo, HandOver, PushFreeBlock
    <2>2. ~Linked(freeList, b)
      BY <1>1 DEF IInv, BlocksInvariant, BlockIsOnce
    <2>3. Len(freeList) < BlockCount
      BY <2>2, ListFits
    <2>4. Len(freeList') = Len(freeList) + 1
      BY <2>1, <2>2, IInvFacts, PrependLinks DEF Prepended
    <2>5. WaitingClients = {}
      BY <1>1, <1>2, <1>3 DEF Popped
    <2>6. \A t \in Clients : t \in WaitingClients' <=> t \in WaitingClients
      BY <1>1, <1>3 DEF WakeEffect, SameWait, WaitingClients, StillWaiting
    <2>7. UNCHANGED <<WaitingClients, GrantedClients>>
      BY <2>1, <2>6 DEF WaitingClients, GrantedClients
    <2> QED  BY <2>3, <2>4, <2>5, <2>7 DEF AbstractStep
  <1>4. CASE ~NobodyWaits(waiters)
    <2> DEFINE c == Chosen(waiters)
    <2>1. /\ c \in Clients /\ c \in Slots /\ StillWaiting(c) /\ waitType[c] = "MEMPOOL"
          /\ grant' = [grant EXCEPT ![c] = b] /\ freeList' = freeList
      BY <1>4, FreeHandsOver DEF Clients
    <2>2. c \in WaitingClients
      BY <2>1 DEF WaitingClients
    <2>3. \A u \in WaitingClients : BasePriority[u] <= BasePriority[c]
      BY <1>1, <1>2, <1>4, <2>1, ClientFacts DEF MostUrgent
    <2>4. \A t \in Clients : IF t = c THEN state'[t] = "READY" ELSE SameWait(t)
      BY <1>1, <1>4 DEF WakeEffect
    <2> HIDE DEF c
    <2>5. \A t \in Clients : /\ t \in WaitingClients' <=> t \in WaitingClients /\ t # c
                             /\ t \in GrantedClients' <=> t \in GrantedClients \/ t = c
      BY <1>1, <2>1, <2>4, IInvFacts
      DEF SameWait, WaitingClients, GrantedClients, StillWaiting, IInv, BlockTypes
    <2>6. /\ WaitingClients' = WaitingClients \ {c}
          /\ GrantedClients' = GrantedClients \cup {c}
      BY <2>1, <2>5 DEF WaitingClients, GrantedClients
    <2> QED  BY <2>1, <2>2, <2>3, <2>6 DEF AbstractStep
  <1> QED  BY <1>3, <1>4

(* Every step of the pool is one of a semaphore whose tokens are the blocks, or *)
(* leaves it as it is: a block goes straight to the most urgent waiter, none is *)
(* free beside a waiting task, and a task that has given up is never served.    *)
THEOREM MempoolRefines == Spec => ImplementsSemaphore
  <1>1. Init => Abstract!AbstractInit
    <2> SUFFICES ASSUME Init PROVE Abstract!AbstractInit
      OBVIOUS
    <2>1. IInv
      BY InitHolds
    <2>2. \A t \in Clients : state[t] # "BLOCKED" /\ t \in Slots
      BY <2>1, ClientFacts, KernelInitHolds DEF Init
    <2>3. WaitingClients = {} /\ GrantedClients = {}
      BY <2>2 DEF Init, WaitingClients, GrantedClients, StillWaiting
    <2>4. Len(freeList) = BlockCount
      BY InitialFreeList
    <2> QED
      BY <2>3, <2>4 DEF Abstract!AbstractInit, WaitingClients, GrantedClients, Clients
  <1>2. IInv /\ [Next]_vars => AbstractStep
    <2> SUFFICES ASSUME IInv, [Next]_vars PROVE AbstractStep
      OBVIOUS
    <2>1. CASE UNCHANGED vars
      BY <2>1
      DEF AbstractStep, vars, kernelVars, tcbVars, poolVars, WaitingClients, GrantedClients,
          StillWaiting
    <2> QED
      BY <2>1, KernelStepRefines, SleepRefines, AllocRefines, StartWaitRefines,
         EndWaitRefines, FreeRefines
      DEF Next, AppStep, PoolStep
  <1>3. AbstractStep => [Abstract!AbstractNext]_(Abstract!abstractVars)
    BY DEF AbstractStep, Abstract!AbstractNext, Abstract!abstractVars, Abstract!Release,
           Abstract!Expire, Abstract!Take, Abstract!Enlist, Abstract!Grant,
           Abstract!Collect, WaitingClients, GrantedClients, Clients
  <1> QED
    BY <1>1, <1>2, <1>3, AlwaysHolds, PTL
    DEF Spec, ImplementsSemaphore, Abstract!AbstractSpec
===============================================================================
