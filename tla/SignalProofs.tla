----------------------------- MODULE SignalProofs -----------------------------
(* The two ways to signal a task: the safety properties of EventFlags, for any  *)
(* flags and requests and wait lists of any length; those of Notify and         *)
(* WorkQueue, and the refinement of the channel, for every length of the queue, *)
(* every set of bits, and every mask and timeout.  All of them for every number *)
(* of tasks.  The two components share nothing but the kernel.                  *)
EXTENDS EventFlags, WorkQueue, KernelProofs

(* The loop of set_common() is a recursive function of the number of waiters it *)
(* has met.  That there is one is shown by taking the least length for which    *)
(* there is none.                                                               *)
First(raised) ==
    [flags |-> flags \cup raised, kept |-> <<>>, result |-> result, woken |-> {}]
IsScan(f, raised, n) ==
    f = [k \in 0 .. n |-> IF k = 0 THEN First(raised) ELSE ScanWaiter(f[k - 1], waiters[k])]

LEMMA ScanExists ==
    ASSUME NEW raised, NEW N \in Nat
    PROVE  \E f : IsScan(f, raised, N)
  <1> DEFINE Bad == {n \in Nat : ~\E f : IsScan(f, raised, n)}
  <1>1. SUFFICES ASSUME Bad # {} PROVE FALSE
    OBVIOUS
  <1>2. PICK n \in Bad : \A k \in Bad : n <= k
    BY <1>1, LeastElement
  <1>3. n # 0
    <2>1. IsScan([k \in 0 .. 0 |-> First(raised)], raised, 0)
      BY DEF IsScan
    <2> QED  BY <2>1
  <1>4. PICK f : IsScan(f, raised, n - 1)
    BY <1>2, <1>3
  <1> DEFINE g == [k \in 0 .. n |-> IF k = n THEN ScanWaiter(f[n - 1], waiters[n]) ELSE f[k]]
  <1>5. ASSUME NEW k \in 0 .. n
        PROVE  g[k] = IF k = 0 THEN First(raised) ELSE ScanWaiter(g[k - 1], waiters[k])
    <2>1. CASE k = n
      BY <1>2, <1>3, <2>1
    <2>2. CASE k # n
      <3>1. k \in 0 .. n - 1 /\ g[k] = f[k] /\ (k # 0 => g[k - 1] = f[k - 1])
        BY <1>2, <1>3, <2>2
      <3>2. f[k] = IF k = 0 THEN First(raised) ELSE ScanWaiter(f[k - 1], waiters[k])
        BY <1>4, <3>1 DEF IsScan
      <3> QED  BY <3>1, <3>2
    <2> QED  BY <2>1, <2>2
  <1>6. g = [k \in 0 .. n |-> g[k]]
    OBVIOUS
  <1>7. IsScan(g, raised, n)
    BY <1>5, <1>6 DEF IsScan
  <1> QED  BY <1>2, <1>7

LEMMA ScanUnfolds ==
    ASSUME NEW raised, waiters \in Seq(Tasks)
    PROVE  /\ Scan(raised)[0] = First(raised)
           /\ \A n \in 1 .. Len(waiters) :
                 Scan(raised)[n] = ScanWaiter(Scan(raised)[n - 1], waiters[n])
  <1>1. Len(waiters) \in Nat
    BY LenProperties
  <1>2. PICK f : IsScan(f, raised, Len(waiters))
    BY <1>1, ScanExists
  <1>3. Scan(raised) = CHOOSE g : IsScan(g, raised, Len(waiters))
    BY DEF Scan, IsScan, First
  <1>4. IsScan(Scan(raised), raised, Len(waiters))
    BY <1>2, <1>3
  <1> QED  BY <1>1, <1>4 DEF IsScan
-------------------------------------------------------------------------------
(* What the loop has done after n waiters.                                      *)
Met(n) == {waiters[i] : i \in 1 .. n}
ScanTypes(s) ==
    s \in [flags : SUBSET Flags, kept : Seq(Tasks),
           result : [Slots -> SUBSET Flags], woken : SUBSET Tasks]
KeptOrWoken(s, n) ==
    /\ NoRepeats(s.kept)
    /\ \A t \in Tasks : Linked(s.kept, t) <=> t \in Met(n) /\ t \notin s.woken
    /\ \A t \in s.woken : t \in Met(n) /\ StillWaiting(t)
    /\ \A t \in Slots : t \notin s.woken => s.result[t] = result[t]
NoneOverlooked(s) ==
    \A t \in Tasks :
        Linked(s.kept, t) /\ StillWaiting(t) => Matched(s.flags, request[t]) = {}
WellServed(t, given, left) ==
    /\ given # {} /\ given \subseteq request[t].flags
    /\ request[t].all => given = request[t].flags
    /\ request[t].clear => given \cap left = {}
AllWellServed(s) == \A t \in s.woken : WellServed(t, s.result[t], s.flags)
TakenOnce(s, n) ==
    \A i, j \in 1 .. n :
        (i < j /\ waiters[i] \in s.woken /\ waiters[j] \in s.woken
           /\ request[waiters[i]].clear)
        => s.result[waiters[i]] \cap s.result[waiters[j]] = {}
ScanSoFar(s, n) ==
    /\ ScanTypes(s) /\ KeptOrWoken(s, n) /\ NoneOverlooked(s)
    /\ AllWellServed(s) /\ TakenOnce(s, n)

ScanContext ==
    /\ Tasks \subseteq Slots
    /\ waiters \in Seq(Tasks) /\ NoRepeats(waiters)
    /\ flags \in SUBSET Flags
    /\ request \in [Slots -> [flags : SUBSET Flags, all : BOOLEAN, clear : BOOLEAN]]
    /\ result \in [Slots -> SUBSET Flags]

LEMMA MatchedFacts ==
    ASSUME NEW up \in SUBSET Flags, NEW down \in SUBSET up,
           NEW r \in [flags : SUBSET Flags, all : BOOLEAN, clear : BOOLEAN]
    PROVE  /\ Matched(up, r) \in SUBSET Flags
           /\ Matched(up, r) \subseteq up /\ Matched(up, r) \subseteq r.flags
           /\ r.all /\ Matched(up, r) # {} => Matched(up, r) = r.flags
           /\ Matched(up, r) = {} => Matched(down, r) = {}
  BY DEF Matched

LEMMA MetOneMore ==
    ASSUME waiters \in Seq(Tasks), NoRepeats(waiters), NEW n \in 1 .. Len(waiters)
    PROVE  /\ waiters[n] \in Tasks
           /\ \A t : t \in Met(n) <=> t = waiters[n] \/ t \in Met(n - 1)
           /\ waiters[n] \notin Met(n - 1)
  <1>1. Len(waiters) \in Nat /\ waiters[n] \in Tasks
    BY LenProperties, ElementOfSeq
  <1>2. \A i : i \in 1 .. n <=> i = n \/ i \in 1 .. n - 1
    BY <1>1
  <1>3. \A i \in 1 .. n - 1 : i \in 1 .. Len(waiters) /\ i # n
    BY <1>1
  <1> QED  BY <1>1, <1>2, <1>3 DEF Met, NoRepeats

LEMMA KeepHolds ==
    ASSUME ScanContext, NEW n \in 1 .. Len(waiters), NEW s, ScanSoFar(s, n - 1),
           NEW k, k = n - 1,
           ~(StillWaiting(waiters[n]) /\ Matched(s.flags, request[waiters[n]]) # {})
    PROVE  ScanSoFar(KeepWaiter(s, waiters[n]), n)
  <1> DEFINE t == waiters[n]
             z == KeepWaiter(s, t)
  <1>1. /\ t \in Tasks /\ t \notin Met(n - 1)
        /\ \A u : u \in Met(n) <=> u = t \/ u \in Met(n - 1)
    BY MetOneMore DEF ScanContext
  <1>2. ~(StillWaiting(t) /\ Matched(s.flags, request[t]) # {})
    OBVIOUS
  <1>3. /\ z.flags = s.flags /\ z.result = s.result /\ z.woken = s.woken
        /\ z.kept = Append(s.kept, t)
        /\ s.kept \in Seq(Tasks)
    BY DEF ScanSoFar, ScanTypes, KeepWaiter
  <1>3a. ScanTypes(z)
    <2>1. Append(s.kept, t) \in Seq(Tasks)
      BY <1>1, <1>3, AppendProperties
    <2> QED  BY <2>1 DEF ScanSoFar, ScanTypes, KeepWaiter
  <1> HIDE DEF z
  <1>4. ~Linked(s.kept, t) /\ t \notin s.woken
    BY <1>1 DEF ScanSoFar, KeptOrWoken
  <1>5. /\ Len(s.kept) \in Nat /\ Len(z.kept) = Len(s.kept) + 1
        /\ \A i \in 1 .. Len(s.kept) : z.kept[i] = s.kept[i]
        /\ z.kept[Len(s.kept) + 1] = t
    BY <1>1, <1>3, LenProperties, AppendProperties
  <1>6. \A i \in 1 .. Len(z.kept) : i \in 1 .. Len(s.kept) \/ i = Len(s.kept) + 1
    BY <1>5
  <1>6a. /\ Len(s.kept) + 1 \in 1 .. Len(z.kept)
         /\ \A i \in 1 .. Len(s.kept) : i \in 1 .. Len(z.kept)
    BY <1>5
  <1>6b. \A u : Linked(z.kept, u) <=> u = t \/ Linked(s.kept, u)
    BY <1>5, <1>6, <1>6a DEF Linked
  <1>7. NoRepeats(z.kept)
    <2>1. \A i \in 1 .. Len(s.kept) : s.kept[i] # t
      BY <1>4 DEF Linked
    <2>2. NoRepeats(s.kept)
      BY DEF ScanSoFar, KeptOrWoken
    <2> QED  BY <1>5, <1>6, <2>1, <2>2 DEF NoRepeats
  <1>8. KeptOrWoken(z, n)
    BY <1>1, <1>3, <1>4, <1>6b, <1>7 DEF ScanSoFar, KeptOrWoken
  <1>9. NoneOverlooked(z)
    BY <1>2, <1>3, <1>6b DEF ScanSoFar, NoneOverlooked
  <1>10. AllWellServed(z)
    BY <1>3 DEF ScanSoFar, AllWellServed
  <1>11. TakenOnce(z, n)
    <2>1. \A i, j \in 1 .. n : i < j /\ waiters[j] \in s.woken => i \in 1 .. k /\ j \in 1 .. k
      BY <1>4
    <2>2. TakenOnce(s, k)
      BY DEF ScanSoFar
    <2> QED  BY <1>3, <2>1, <2>2 DEF TakenOnce
  <1>12. ScanSoFar(z, n)
    BY <1>3a, <1>8, <1>9, <1>10, <1>11 DEF ScanSoFar
  <1> QED  BY <1>12 DEF z

LEMMA ServeHolds ==
    ASSUME ScanContext, NEW n \in 1 .. Len(waiters), NEW s, ScanSoFar(s, n - 1),
           NEW k, k = n - 1,
           StillWaiting(waiters[n]), Matched(s.flags, request[waiters[n]]) # {}
    PROVE  ScanSoFar(ServeWaiter(s, waiters[n]), n)
  <1> DEFINE t == waiters[n]
             z == ServeWaiter(s, t)
             given == Matched(s.flags, request[t])
  <1>1. /\ t \in Tasks /\ t \notin Met(n - 1) /\ t \in Slots
        /\ \A u : u \in Met(n) <=> u = t \/ u \in Met(n - 1)
    BY MetOneMore DEF ScanContext
  <1>2. StillWaiting(t) /\ given # {}
    OBVIOUS
  <1>3. /\ request[t] \in [flags : SUBSET Flags, all : BOOLEAN, clear : BOOLEAN]
        /\ \A u \in Tasks :
              request[u] \in [flags : SUBSET Flags, all : BOOLEAN, clear : BOOLEAN]
        /\ s.flags \in SUBSET Flags
    BY <1>1 DEF ScanContext, ScanSoFar, ScanTypes
  <1>4. /\ given \in SUBSET Flags /\ given \subseteq s.flags
        /\ given \subseteq request[t].flags
        /\ request[t].all => given = request[t].flags
    BY <1>2, <1>3, MatchedFacts
  <1>5. /\ z.flags = IF request[t].clear THEN s.flags \ given ELSE s.flags
        /\ z.result = [s.result EXCEPT ![t] = given]
        /\ z.woken = s.woken \cup {t} /\ z.kept = s.kept
        /\ z = [flags |-> z.flags, kept |-> z.kept, result |-> z.result, woken |-> z.woken]
    BY DEF ServeWaiter
  <1> HIDE DEF z, given
  <1>6. /\ s.result \in [Slots -> SUBSET Flags]
        /\ z.result \in [Slots -> SUBSET Flags]
        /\ z.flags \in SUBSET s.flags /\ z.flags \in SUBSET Flags
        /\ z.woken \in SUBSET Tasks /\ z.kept \in Seq(Tasks) /\ s.woken \in SUBSET Tasks
    BY <1>1, <1>3, <1>4, <1>5 DEF ScanSoFar, ScanTypes
  <1>7. ScanTypes(z)
    BY <1>5, <1>6 DEF ScanTypes
  <1>8. /\ z.result[t] = given
        /\ \A u \in Slots : u # t => z.result[u] = s.result[u]
        /\ \A u \in Tasks : u \in Slots
    BY <1>1, <1>5, <1>6 DEF ScanContext
  <1>9. ~Linked(s.kept, t) /\ t \notin s.woken
    BY <1>1 DEF ScanSoFar, KeptOrWoken
  <1>10. KeptOrWoken(z, n)
    BY <1>1, <1>2, <1>5, <1>8, <1>9 DEF ScanSoFar, KeptOrWoken
  <1>11. NoneOverlooked(z)
    BY <1>3, <1>5, <1>6, MatchedFacts DEF ScanSoFar, NoneOverlooked
  <1>12. AllWellServed(z)
    <2>1. WellServed(t, given, z.flags)
      BY <1>2, <1>4, <1>5 DEF WellServed
    <2>2. ASSUME NEW u \in s.woken
          PROVE  u # t /\ WellServed(u, z.result[u], z.flags)
      <3>1. u # t /\ z.result[u] = s.result[u]
        BY <1>6, <1>8, <1>9
      <3>2. WellServed(u, s.result[u], s.flags)
        BY DEF ScanSoFar, AllWellServed
      <3> QED  BY <1>6, <3>1, <3>2 DEF WellServed
    <2> QED  BY <1>5, <1>8, <2>1, <2>2 DEF AllWellServed
  <1>13. TakenOnce(z, n)
    <2> SUFFICES ASSUME NEW i \in 1 .. n, NEW j \in 1 .. n, i < j,
                        waiters[i] \in z.woken, waiters[j] \in z.woken,
                        request[waiters[i]].clear
                 PROVE  z.result[waiters[i]] \cap z.result[waiters[j]] = {}
      BY DEF TakenOnce
    <2>1. i \in 1 .. k /\ waiters[i] \in Met(n - 1)
      BY DEF Met
    <2>2. waiters[i] # t /\ waiters[i] \in s.woken /\ waiters[i] \in Slots
      BY <1>1, <1>5, <1>6, <1>8, <2>1
    <2>3. CASE j = n
      <3>1. WellServed(waiters[i], s.result[waiters[i]], s.flags)
        BY <2>2 DEF ScanSoFar, AllWellServed
      <3> QED  BY <1>4, <1>8, <2>2, <2>3, <3>1 DEF WellServed
    <2>4. CASE j # n
      <3>1. j \in 1 .. k /\ waiters[j] \in Met(n - 1)
        BY <2>4 DEF Met
      <3>2. waiters[j] # t /\ waiters[j] \in s.woken /\ waiters[j] \in Slots
        BY <1>1, <1>5, <1>6, <1>8, <3>1
      <3>3. TakenOnce(s, k)
        BY DEF ScanSoFar
      <3> QED  BY <1>8, <2>1, <2>2, <3>1, <3>2, <3>3 DEF TakenOnce
    <2> QED  BY <2>3, <2>4
  <1>14. ScanSoFar(z, n)
    BY <1>7, <1>10, <1>11, <1>12, <1>13 DEF ScanSoFar
  <1> QED  BY <1>14 DEF z

(* The whole loop.                                                              *)
LEMMA ScanHolds ==
    ASSUME ScanContext, NEW raised \in SUBSET Flags
    PROVE  ScanSoFar(Scanned(raised), Len(waiters))
  <1> DEFINE Bad == {n \in Nat : n <= Len(waiters) /\ ~ScanSoFar(Scan(raised)[n], n)}
  <1>0. Len(waiters) \in Nat /\ waiters \in Seq(Tasks)
    BY LenProperties DEF ScanContext
  <1>1. ScanSoFar(Scan(raised)[0], 0)
    <2> DEFINE s == First(raised)
    <2>1. Scan(raised)[0] = s
      BY <1>0, ScanUnfolds
    <2>2. /\ s.kept = <<>> /\ s.woken = {} /\ s.result = result
          /\ \A t : ~Linked(s.kept, t)
      BY DEF First, Linked
    <2>3. ScanTypes(s)
      BY DEF ScanContext, ScanTypes, First
    <2>4. KeptOrWoken(s, 0) /\ NoneOverlooked(s) /\ AllWellServed(s) /\ TakenOnce(s, 0)
      BY <2>2 DEF KeptOrWoken, NoneOverlooked, AllWellServed, TakenOnce, Met, NoRepeats
    <2> QED  BY <2>1, <2>3, <2>4 DEF ScanSoFar
  <1>2. ASSUME NEW n \in 1 .. Len(waiters), ScanSoFar(Scan(raised)[n - 1], n - 1)
        PROVE  ScanSoFar(Scan(raised)[n], n)
    <2>1. Scan(raised)[n] = ScanWaiter(Scan(raised)[n - 1], waiters[n])
      BY <1>0, ScanUnfolds
    <2>2. PICK s : s = Scan(raised)[n - 1]
      OBVIOUS
    <2>3. ScanSoFar(ScanWaiter(s, waiters[n]), n)
      BY <1>2, <2>2, KeepHolds, ServeHolds DEF ScanWaiter
    <2> QED  BY <2>1, <2>2, <2>3
  <1>3. Bad = {}
    <2> SUFFICES ASSUME Bad # {} PROVE FALSE
      OBVIOUS
    <2>1. PICK n \in Bad : \A k \in Bad : n <= k
      BY LeastElement
    <2>2. n # 0
      BY <1>1, <2>1
    <2>3. n - 1 \in Nat /\ n - 1 \notin Bad /\ n \in 1 .. Len(waiters)
      BY <1>0, <2>1, <2>2
    <2>4. ScanSoFar(Scan(raised)[n - 1], n - 1)
      BY <1>0, <2>3
    <2> QED  BY <1>2, <2>1, <2>3, <2>4
  <1> QED  BY <1>0, <1>3 DEF Scanned
-------------------------------------------------------------------------------
EventTypes ==
    /\ flags \in SUBSET Flags /\ waiters \in Seq(Tasks)
    /\ request \in [Slots -> Requests \cup {NoRequest}]
    /\ result \in [Slots -> SUBSET Flags]

(* A task is blocked in its wait for flags, none of which will do, and linked;  *)
(* one that is linked without being blocked has timed out.                      *)
BlockedIsLinked ==
    \A t \in Tasks : state[t] = "BLOCKED" =>
        /\ waitType[t] = "EVENT" /\ waitResult[t] = "OK"
        /\ InWait(t) /\ Linked(waiters, t)
LinkedIsInWait ==
    \A t \in Tasks : Linked(waiters, t) =>
        InWait(t) /\ (state[t] = "BLOCKED" \/ waitResult[t] = "TIMEOUT")
NobodyMatches ==
    \A t \in Tasks : state[t] = "BLOCKED" => Matched(flags, request[t]) = {}

(* The inductive invariant.                                                     *)
EventsIInv ==
    /\ KernelInv
    /\ EventTypes
    /\ PrioritiesAreBase
    /\ BlockedIsLinked
    /\ LinkedIsInWait
    /\ NobodyMatches
    /\ NoRepeats(waiters)

LEMMA RequestTypes ==
    Requests \cup {NoRequest} \subseteq [flags : SUBSET Flags, all : BOOLEAN, clear : BOOLEAN]
  <1>1. NoRequest \in [flags : SUBSET Flags, all : BOOLEAN, clear : BOOLEAN]
    BY DEF NoRequest
  <1> QED  BY <1>1, EventFlagsAssumption

LEMMA IInvFacts ==
    ASSUME EventsIInv
    PROVE  /\ RingIsWhole /\ Tasks \subseteq Slots /\ current \in Tasks
           /\ ScanContext
           /\ state \in [Slots -> States] /\ pc \in [Slots -> PCs]
           /\ waiters \in Seq(Tasks) /\ NoRepeats(waiters)
           /\ priority \in [Slots -> Nat]
           /\ request \in [Slots -> Requests \cup {NoRequest}]
           /\ \A t \in Tasks :
                 request[t] \in [flags : SUBSET Flags, all : BOOLEAN, clear : BOOLEAN]
  <1>1. /\ RingIsWhole /\ Tasks \subseteq Slots
        /\ request \in [Slots -> [flags : SUBSET Flags, all : BOOLEAN, clear : BOOLEAN]]
    BY TaskFacts, RequestTypes DEF EventsIInv, KernelInv, EventTypes
  <1> QED
    BY <1>1
    DEF EventsIInv, KernelInv, KernelTypes, EventTypes, PrioritiesAreBase, ScanContext

LEMMA EventsInitHolds == EventsInit => EventsIInv
  <1> SUFFICES ASSUME EventsInit PROVE EventsIInv
    OBVIOUS
  <1>1. /\ KernelInv /\ PrioritiesAreBase
        /\ \A t \in Slots : state[t] # "BLOCKED" /\ pc[t] = "app"
    BY KernelInitHolds DEF EventsInit
  <1>2. Tasks \subseteq Slots
    BY <1>1, TaskFacts DEF KernelInv
  <1>3. waiters = <<>> /\ EventTypes
    BY DEF EventsInit, EventTypes
  <1>4. (\A t : ~Linked(waiters, t)) /\ NoRepeats(waiters)
    BY <1>3 DEF Linked, NoRepeats
  <1> QED
    BY <1>1, <1>2, <1>3, <1>4 DEF EventsIInv, BlockedIsLinked, LinkedIsInWait, NobodyMatches
-------------------------------------------------------------------------------
LEMMA EventsKernelStepHolds ==
    ASSUME EventsIInv, KernelStep, UNCHANGED eventVars
    PROVE  EventsIInv'
  <1>1. /\ KernelInv' /\ ring' = ring
        /\ UNCHANGED <<basePriority, priority, waitType, flags, waiters, request, result>>
        /\ \A t \in Slots : KernelEffect(t)
    BY KernelStepEffect DEF EventsIInv, eventVars
  <1>2. Tasks' = Tasks /\ Tasks \subseteq Slots
    BY <1>1, TasksHold, IInvFacts
  <1>3. BlockedIsLinked'
    BY <1>1, <1>2
    DEF EventsIInv, BlockedIsLinked, KernelEffect, OnlySwitched, TimesOut, Runnable,
        InWait, InWaitCode, Linked
  <1>4. LinkedIsInWait'
    BY <1>1, <1>2
    DEF EventsIInv, LinkedIsInWait, KernelEffect, OnlySwitched, TimesOut, Runnable,
        InWait, InWaitCode, Linked
  <1>5. NobodyMatches'
    BY <1>1, <1>2
    DEF EventsIInv, NobodyMatches, KernelEffect, OnlySwitched, TimesOut, Runnable, Matched
  <1> QED
    BY <1>1, <1>2, <1>3, <1>4, <1>5
    DEF EventsIInv, EventTypes, PrioritiesAreBase, NoRepeats

(* A call that takes or clears flags without blocking.                          *)
LEMMA LoweringHolds ==
    ASSUME EventsIInv, UNCHANGED <<kernelVars, waiters, request, result>>, flags' \subseteq flags
    PROVE  EventsIInv'
  <1>1. UNCHANGED <<ring, current, pendsv, state, delay, waitType, waitResult, pc,
                    basePriority, priority, waiters, request, result>>
    BY DEF kernelVars, ringVars, tcbVars
  <1>2. Tasks' = Tasks
    BY <1>1, TasksHold
  <1>3. EventTypes'
    BY <1>1, <1>2 DEF EventsIInv, EventTypes
  <1>4. NobodyMatches'
    <2>1. ASSUME NEW t \in Tasks, state[t] = "BLOCKED"
          PROVE  Matched(flags', request[t]) = {}
      BY <2>1, IInvFacts, MatchedFacts DEF EventsIInv, NobodyMatches, EventTypes
    <2> QED  BY <1>1, <1>2, <2>1 DEF NobodyMatches, Matched
  <1> QED
    BY <1>1, <1>2, <1>3, <1>4
    DEF EventsIInv, KernelInv, KernelTypes, RingIsWhole, TaskCount, ServedRuns, IdleStaysOut,
        PrioritiesAreBase, BlockedIsLinked, LinkedIsInWait, InWait, NoRepeats, Linked

LEMMA StartWaitHolds ==
    ASSUME EventsIInv, NEW r \in Requests, NEW ms \in EventTimeouts, StartWait(r, ms)
    PROVE  EventsIInv'
  <1>1. /\ ~pendsv /\ current # Idle /\ pc[current] = "app" /\ current \in Tasks
        /\ ms \in Nat /\ "EVENT" \in WaitTypes /\ Matched(flags, r) = {}
    BY EventFlagsAssumption
    DEF StartWait, InApp, WaitTypes, EventsIInv, KernelInv, KernelTypes
  <1>2. /\ BlockCurrent("EVENT", ms, "block")
        /\ UNCHANGED <<ring, current, pendsv, basePriority, priority, flags, result>>
        /\ waiters' = WaitPush(waiters, current, priority)
        /\ request' = [request EXCEPT ![current] = r]
    BY DEF StartWait, ringVars
  <1>3. KernelInv' /\ \A t \in Slots : BlockEffect("EVENT", "block", t)
    BY <1>1, <1>2, BlockCurrentEffect DEF EventsIInv
  <1>4. Tasks' = Tasks /\ Tasks \subseteq Slots
    BY <1>2, TasksHold, IInvFacts
  <1>5. ~Linked(waiters, current)
    BY <1>1 DEF EventsIInv, LinkedIsInWait, InWait
  <1>6. Pushed(waiters', waiters, current)
    BY <1>1, <1>2, <1>5, IInvFacts, PushLinks
  <1>7. /\ request' \in [Slots -> Requests \cup {NoRequest}]
        /\ request'[current] = r
        /\ \A t \in Slots : t # current => request'[t] = request[t]
    BY <1>1, <1>2, <1>4, IInvFacts
  <1>8. BlockedIsLinked'
    BY <1>3, <1>4, <1>6
    DEF EventsIInv, BlockedIsLinked, BlockEffect, SameWait, SameCode, InWait, Pushed
  <1>9. LinkedIsInWait'
    BY <1>3, <1>4, <1>6
    DEF EventsIInv, LinkedIsInWait, BlockEffect, SameWait, SameCode, InWait, Pushed
  <1>10. NobodyMatches'
    <2>1. ASSUME NEW t \in Tasks, state'[t] = "BLOCKED"
          PROVE  Matched(flags, request'[t]) = {}
      BY <1>1, <1>3, <1>4, <1>7, <2>1 DEF EventsIInv, NobodyMatches, BlockEffect, SameWait
    <2> QED  BY <1>2, <1>4, <2>1 DEF NobodyMatches, Matched
  <1> QED
    BY <1>2, <1>3, <1>4, <1>6, <1>7, <1>8, <1>9, <1>10
    DEF EventsIInv, EventTypes, PrioritiesAreBase, Pushed

LEMMA EndWaitFacts ==
    ASSUME EventsIInv, EndWait
    PROVE  /\ Removed(waiters', waiters, current)
           /\ KernelInv' /\ state[current] = "RUNNING" /\ pc'[current] = "app"
           /\ \A t \in Slots : t # current => SameWait(t) /\ SameCode(t)
           /\ UNCHANGED <<ring, current, state, basePriority, priority, flags>>
           /\ current \in Tasks /\ current \in Slots
           /\ \A t \in Slots : t # current =>
                 request'[t] = request[t] /\ result'[t] = result[t]
           /\ request' \in [Slots -> Requests \cup {NoRequest}]
           /\ result' \in [Slots -> SUBSET Flags]
  <1>1. /\ Resuming /\ GoTo("app")
        /\ waitType' \in {waitType, [waitType EXCEPT ![current] = "NONE"]}
        /\ UNCHANGED <<ring, current, pendsv, state, delay, basePriority, priority,
                       waitResult, flags>>
        /\ request' = [request EXCEPT ![current] = NoRequest]
        /\ result' = [result EXCEPT ![current] = {}]
    BY DEF EndWait, ringVars
  <1>2. /\ KernelInv'
        /\ \A t \in Slots : t # current => SameWait(t) /\ SameCode(t)
        /\ state[current] = "RUNNING" /\ pc'[current] = "app"
        /\ current # Idle /\ pc[current] = "resume"
    BY <1>1, EndWaitEffect DEF EventsIInv
  <1>3. current \in Tasks /\ current \in Slots
    BY IInvFacts
  <1>4. Removed(waiters', waiters, current)
    <2>1. CASE waitResult[current] = "TIMEOUT"
      <3>1. waiters' = WaitRemove(waiters, current)
        BY <2>1 DEF EndWait
      <3> QED  BY <3>1, RemoveUnlinks, IInvFacts
    <2>2. CASE waitResult[current] # "TIMEOUT"
      <3>1. waiters' = waiters
        BY <2>2 DEF EndWait
      <3>2. ~Linked(waiters, current)
        BY <1>2, <1>3, <2>2 DEF EventsIInv, LinkedIsInWait
      <3> QED  BY <3>1, <3>2, IInvFacts DEF Removed
    <2> QED  BY <2>1, <2>2
  <1>5. /\ request' \in [Slots -> Requests \cup {NoRequest}]
        /\ result' \in [Slots -> SUBSET Flags]
        /\ \A t \in Slots : t # current =>
                 request'[t] = request[t] /\ result'[t] = result[t]
    BY <1>1, <1>3 DEF EventsIInv, EventTypes
  <1> QED  BY <1>1, <1>2, <1>3, <1>4, <1>5

LEMMA EndWaitHolds ==
    ASSUME EventsIInv, EndWait
    PROVE  EventsIInv'
  <1> USE EndWaitFacts
  <1>1. Tasks' = Tasks /\ Tasks \subseteq Slots
    BY TasksHold, IInvFacts
  <1>2. BlockedIsLinked'
    BY <1>1 DEF EventsIInv, BlockedIsLinked, SameWait, SameCode, InWait, Removed
  <1>3. LinkedIsInWait'
    BY <1>1 DEF EventsIInv, LinkedIsInWait, SameWait, SameCode, InWait, Removed
  <1>4. NobodyMatches'
    <2>1. ASSUME NEW t \in Tasks, state'[t] = "BLOCKED"
          PROVE  Matched(flags, request'[t]) = {}
      BY <1>1, <2>1 DEF EventsIInv, NobodyMatches
    <2> QED  BY <1>1, <2>1 DEF NobodyMatches, Matched
  <1>5. EventTypes'
    BY <1>1 DEF EventsIInv, EventTypes, Removed
  <1> QED
    BY <1>1, <1>2, <1>3, <1>4, <1>5 DEF EventsIInv, PrioritiesAreBase, Removed
-------------------------------------------------------------------------------
(* What a set does, with the outcome s of its loop.                             *)
LEMMA SetEffect ==
    ASSUME EventsIInv, NEW raised \in SomeFlags, Set(raised) \/ SetIsr(raised)
    PROVE  \E s : /\ ScanSoFar(s, Len(waiters))
                  /\ flags' = s.flags /\ waiters' = s.kept /\ result' = s.result
                  /\ \A t \in Slots :
                        IF t \in s.woken THEN state'[t] = "READY" ELSE SameWait(t)
                  /\ \A t \in Slots : InWait(t)' <=> InWait(t)
                  /\ KernelInv'
                  /\ UNCHANGED <<ring, basePriority, priority, request>>
  <1>1. PICK s : s = Scanned(raised)
    OBVIOUS
  <1>2. ScanSoFar(s, Len(waiters))
    BY <1>1, ScanHolds, IInvFacts DEF SomeFlags
  <1>3. /\ flags' = s.flags /\ waiters' = s.kept /\ result' = s.result
        /\ state' = [t \in Slots |-> IF t \in s.woken THEN "READY" ELSE state[t]]
        /\ delay' = [t \in Slots |-> IF t \in s.woken THEN 0 ELSE delay[t]]
        /\ waitType' = [t \in Slots |-> IF t \in s.woken THEN "NONE" ELSE waitType[t]]
        /\ waitResult' = [t \in Slots |-> IF t \in s.woken THEN "OK" ELSE waitResult[t]]
        /\ UNCHANGED <<ring, basePriority, current, priority, request>>
    BY <1>1 DEF Set, SetIsr, SetCommon, ringVars
  <1>4. /\ KernelTypes /\ RingIsWhole /\ ServedRuns /\ IdleStaysOut
        /\ current \in Slots /\ Idle \in Slots
    BY TaskFacts DEF EventsIInv, KernelInv, KernelTypes
  <1>5. /\ state' \in [Slots -> States] /\ waitResult' \in [Slots -> Results]
        /\ delay' \in [Slots -> Nat] /\ waitType' \in [Slots -> WaitTypes]
    BY <1>3, <1>4 DEF KernelTypes, States, Results, WaitTypes
  <1>6. \A t \in Slots : IF t \in s.woken THEN state'[t] = "READY" ELSE SameWait(t)
    BY <1>3 DEF SameWait
  <1>7. \A t \in s.woken : state[t] = "BLOCKED"
    BY <1>2 DEF ScanSoFar, KeptOrWoken, StillWaiting
  <1>8. Tasks' = Tasks /\ RingIsWhole'
    BY <1>3, <1>4, TasksHold
  <1>9. /\ pendsv' \in BOOLEAN /\ pc' \in [Slots -> PCs]
        /\ \A t \in Slots : InWait(t)' <=> InWait(t)
        /\ ServedRuns' /\ pc'[Idle] = "app"
    <2>1. CASE Set(raised)
      <3>1. PICK point \in {"app", "kick"} : pc' = [pc EXCEPT ![current] = point]
        BY <2>1 DEF Set, GoTo
      <3>2. /\ pendsv' = pendsv /\ ~pendsv /\ current # Idle /\ pc[current] = "app"
        BY <2>1 DEF Set, InApp
      <3>3. pc' \in [Slots -> PCs] /\ \A t \in Slots : t # current => pc'[t] = pc[t]
        BY <1>4, <3>1 DEF KernelTypes, PCs
      <3>4. pc'[current] = point
        BY <1>4, <3>1 DEF KernelTypes
      <3>5. state'[current] = "RUNNING"
        BY <1>4, <1>6, <1>7, <3>2 DEF ServedRuns, SameWait
      <3>6. pc'[Idle] = "app" /\ \A t \in Slots : InWait(t)' <=> InWait(t)
        BY <1>4, <3>1, <3>2, <3>3, <3>4 DEF InWait, IdleStaysOut
      <3> QED
        BY <1>3, <1>4, <3>2, <3>3, <3>5, <3>6 DEF ServedRuns, KernelTypes
    <2>2. CASE SetIsr(raised)
      <3>1. pc' = pc /\ pendsv' = (pendsv \/ s.woken # {})
        BY <1>1, <2>2 DEF SetIsr
      <3>2. ServedRuns'
        <4>1. ~pendsv' => ~pendsv /\ current \notin s.woken
          BY <3>1
        <4> QED  BY <1>3, <1>4, <1>6, <3>1, <4>1 DEF ServedRuns, SameWait
      <3>3. pendsv' \in BOOLEAN
        BY <3>1
      <3> QED  BY <1>4, <3>1, <3>2, <3>3 DEF InWait, IdleStaysOut, KernelTypes
    <2> QED  BY <2>1, <2>2
  <1>10. IdleStaysOut'
    BY <1>4, <1>6, <1>7, <1>9 DEF IdleStaysOut, SameWait
  <1>11. KernelInv'
    BY <1>3, <1>4, <1>5, <1>8, <1>9, <1>10 DEF KernelInv, KernelTypes
  <1> QED  BY <1>2, <1>3, <1>6, <1>9, <1>11

LEMMA SetHolds ==
    ASSUME EventsIInv, NEW raised \in SomeFlags, Set(raised) \/ SetIsr(raised)
    PROVE  EventsIInv'
  <1>1. PICK s : /\ ScanSoFar(s, Len(waiters))
                 /\ flags' = s.flags /\ waiters' = s.kept /\ result' = s.result
                 /\ \A t \in Slots :
                       IF t \in s.woken THEN state'[t] = "READY" ELSE SameWait(t)
                 /\ \A t \in Slots : InWait(t)' <=> InWait(t)
                 /\ KernelInv'
                 /\ UNCHANGED <<ring, basePriority, priority, request>>
    BY SetEffect
  <1>2. Tasks' = Tasks /\ Tasks \subseteq Slots
    BY <1>1, TasksHold, IInvFacts
  <1>3. \A t \in Tasks : Linked(waiters, t) <=> t \in Met(Len(waiters))
    BY DEF Linked, Met
  <1>4. \A t \in Tasks : Linked(s.kept, t) <=> Linked(waiters, t) /\ t \notin s.woken
    BY <1>1, <1>3 DEF ScanSoFar, KeptOrWoken
  <1>5. \A t \in Tasks : state'[t] = "BLOCKED" => t \notin s.woken /\ SameWait(t)
    BY <1>1, <1>2
  <1>6. BlockedIsLinked'
    BY <1>1, <1>2, <1>4, <1>5 DEF EventsIInv, BlockedIsLinked, SameWait
  <1>7. LinkedIsInWait'
    BY <1>1, <1>2, <1>4 DEF EventsIInv, LinkedIsInWait, SameWait
  <1>8. NobodyMatches'
    <2>1. ASSUME NEW t \in Tasks, state'[t] = "BLOCKED"
          PROVE  Matched(s.flags, request[t]) = {}
      BY <1>4, <1>5, <2>1, <1>1
      DEF EventsIInv, BlockedIsLinked, SameWait, ScanSoFar, NoneOverlooked, StillWaiting
    <2> QED  BY <1>1, <1>2, <2>1 DEF NobodyMatches, Matched
  <1>9. EventTypes' /\ NoRepeats(waiters)'
    BY <1>1, <1>2 DEF EventsIInv, EventTypes, ScanSoFar, ScanTypes, KeptOrWoken, NoRepeats
  <1> QED
    BY <1>1, <1>2, <1>6, <1>7, <1>8, <1>9 DEF EventsIInv, PrioritiesAreBase

LEMMA NextHolds == EventsIInv /\ [EventsNext]_groupVars => EventsIInv'
  <1> SUFFICES ASSUME EventsIInv, [EventsNext]_groupVars PROVE EventsIInv'
    OBVIOUS
  <1>1. CASE KernelStep /\ UNCHANGED eventVars
    BY <1>1, EventsKernelStepHolds
  <1>2. CASE \E r \in Requests : TakeFlags(r)
    BY <1>2, LoweringHolds DEF TakeFlags
  <1>3. CASE \E r \in Requests, ms \in EventTimeouts : StartWait(r, ms)
    BY <1>3, StartWaitHolds
  <1>4. CASE \E fs \in SomeFlags : Set(fs) \/ SetIsr(fs)
    BY <1>4, SetHolds
  <1>5. CASE \E fs \in SomeFlags : Clear(fs)
    BY <1>5, LoweringHolds DEF Clear
  <1>6. CASE EndWait
    BY <1>6, EndWaitHolds
  <1>7. CASE UNCHANGED groupVars
    BY <1>7, LoweringHolds DEF groupVars, eventVars
  <1> QED  BY <1>1, <1>2, <1>3, <1>4, <1>5, <1>6, <1>7 DEF EventsNext, EventStep

LEMMA AlwaysHolds == EventsSpec => []EventsIInv
  BY EventsInitHolds, NextHolds, PTL DEF EventsSpec
-------------------------------------------------------------------------------
(* Every variable keeps its type.                                               *)
THEOREM TypeCorrect == EventsSpec => []EventsTypeOK
  <1>1. EventsIInv => EventsTypeOK
    BY DEF EventsIInv, KernelInv, KernelTypes, EventTypes, EventsTypeOK
  <1> QED  BY <1>1, AlwaysHolds, PTL

(* Every task that waits is linked, once, so that a set finds it; one that was  *)
(* served, or has left its wait, is linked no more.                             *)
THEOREM ListStaysExact == EventsSpec => []ListIsExact
  <1>1. EventsIInv => ListIsExact
    BY DEF EventsIInv, BlockedIsLinked, LinkedIsInWait, ListIsExact, StillWaiting
  <1> QED  BY <1>1, AlwaysHolds, PTL

(* No task waits for flags that are up, however many tasks one set serves and   *)
(* whatever each of them takes away.                                            *)
THEOREM NobodyIsOverlooked == EventsSpec => []NoWaiterOverlooked
  <1>1. EventsIInv => NoWaiterOverlooked
    BY DEF EventsIInv, NobodyMatches, NoWaiterOverlooked, StillWaiting
  <1> QED  BY <1>1, AlwaysHolds, PTL

(* A set serves each waiter with what it asked for, and what one takes away is  *)
(* neither left up nor given to a waiter behind it.                             *)
ServedOnce ==
    \A t \in Tasks : (state[t] = "BLOCKED" /\ Served(t)) =>
        /\ result'[t] # {} /\ result'[t] \subseteq request[t].flags
        /\ request[t].all => result'[t] = request[t].flags
        /\ request[t].clear =>
              /\ result'[t] \cap flags' = {}
              /\ \A u \in Tasks : Before(waiters, t, u) /\ Served(u) =>
                     result'[t] \cap result'[u] = {}
THEOREM TakenFlagsStayGone == EventsSpec => TakenFlagsAreGone
  <1>1. ASSUME EventsIInv, NEW raised \in SomeFlags, Set(raised) \/ SetIsr(raised)
        PROVE  ServedOnce
    <2>1. PICK s : /\ ScanSoFar(s, Len(waiters))
                   /\ flags' = s.flags /\ result' = s.result
      BY <1>1, SetEffect
    <2>2. ASSUME NEW t \in Tasks, Served(t)
          PROVE  t \in s.woken
      BY <1>1, <2>1, <2>2, IInvFacts DEF Served, ScanSoFar, KeptOrWoken
    <2>3. ASSUME NEW t \in Tasks, Served(t)
          PROVE  WellServed(t, result'[t], flags')
      BY <2>1, <2>2, <2>3 DEF ScanSoFar, AllWellServed
    <2>4. ASSUME NEW t \in Tasks, NEW u \in Tasks, Served(t), Served(u),
                 request[t].clear, Before(waiters, t, u)
          PROVE  result'[t] \cap result'[u] = {}
      <3>1. t \in s.woken /\ u \in s.woken
        BY <2>2, <2>4
      <3>2. PICK i, j \in 1 .. Len(waiters) : i < j /\ waiters[i] = t /\ waiters[j] = u
        BY <2>4 DEF Before
      <3> QED  BY <2>1, <2>4, <3>1, <3>2 DEF ScanSoFar, TakenOnce
    <2> QED  BY <2>3, <2>4 DEF ServedOnce, WellServed
  <1>2. ASSUME EventsIInv, EndWait
        PROVE  ServedOnce
    BY <1>2, EndWaitFacts, IInvFacts DEF ServedOnce, Served
  <1>3. ASSUME UNCHANGED result
        PROVE  ServedOnce
    BY <1>3 DEF ServedOnce, Served
  <1>4. EventsIInv /\ [EventsNext]_groupVars => ServedOnce
    BY <1>1, <1>2, <1>3
    DEF EventsNext, EventStep, TakeFlags, StartWait, Clear, groupVars, eventVars
  <1>5. EventsIInv /\ [EventsNext]_groupVars =>
          [\A t \in Tasks : (state[t] = "BLOCKED" /\ Served(t)) =>
              /\ result'[t] # {} /\ result'[t] \subseteq request[t].flags
              /\ request[t].all => result'[t] = request[t].flags
              /\ request[t].clear =>
                    /\ result'[t] \cap flags' = {}
                    /\ \A u \in Tasks : Before(waiters, t, u) /\ Served(u) =>
                           result'[t] \cap result'[u] = {}]_groupVars
    BY <1>4 DEF ServedOnce
  <1> QED  BY <1>5, AlwaysHolds, PTL DEF EventsSpec, TakenFlagsAreGone
-------------------------------------------------------------------------------

(* A worker that waits, or is about to, with items in the queue has been told,  *)
(* or a submitter is about to tell it.                                          *)
WorkerIsTold ==
    (/\ pendingItems > 0
     /\ workerAt = "await" \/ AwaitsNotification(Worker)
     /\ \A t \in Tasks : pc[t] # "submit") => notifyPending[Worker]

(* In its wait for a notification the worker is past the "await" of its loop.   *)
WorkerPastAwait == pc[Worker] \in {"block", "resume"} => workerAt = "drain"

(* Head, tail and count of the ring agree.                                      *)
TailInStep == workTail = (workHead + pendingItems) % WorkLength

(* The inductive invariant.                                                     *)
IInv ==
    /\ TypeOK
    /\ RingIsWhole
    /\ NoNotificationMissed
    /\ WorkerPastAwait
    /\ WorkerIsTold
    /\ TailInStep

NotifyTypes ==
    /\ notifyValue \in [Slots -> SUBSET Bits] /\ clearOnExit \in [Slots -> SUBSET Bits]
    /\ notifyPending \in [Slots -> BOOLEAN]
WorkTypes ==
    /\ workQueue \in [0 .. WorkLength - 1 -> Items \cup {NoItem}]
    /\ workHead \in 0 .. WorkLength - 1 /\ workTail \in 0 .. WorkLength - 1
    /\ pendingItems \in 0 .. WorkLength
    /\ workerAt \in WorkerPoints
    /\ running \in Items \cup {NoItem}

LEMMA TypesSplit ==
    /\ TypeOK <=> KernelTypes /\ NotifyTypes /\ WorkTypes
    /\ TypeOK' <=> KernelTypes' /\ NotifyTypes' /\ WorkTypes'
  BY DEF TypeOK, KernelTypes, NotifyTypes, WorkTypes

(* The worker is a task of the application.                                     *)
LEMMA WorkerFacts ==
    ASSUME RingIsWhole
    PROVE  Worker \in Tasks /\ Worker # Idle
  BY ConstantsLemma DEF RingIsWhole, Tasks, Slots, Idle, Worker

LEMMA ConstantTypes ==
    /\ FOREVER \in Nat /\ WorkBit \in Bits /\ Timeouts \subseteq Nat
    /\ WorkLength \in Nat \ {0} /\ NoItem \notin Items
    /\ ClearMasks \subseteq SUBSET Bits
  BY WorkAssumption, WordAssumption DEF FOREVER, WorkBit
-------------------------------------------------------------------------------
(* The run list never changes.                                                  *)
LEMMA RingHolds == Next => ring' = ring
  BY DEF Next, KernelStep, Tick, PendSV, Deferred, Dispatched, Yield, UserStep,
         Submit, Notify, NotifyAndReturn, Sleep, NotifyWait, CallStep, NotifyWorker,
         EndNotifyWait, WorkerStep, WorkerAwaits, WorkerPops, HandlerReturns,
         IsrStep, SubmitIsr, NotifyIsr, kernelVars, ringVars

(* The kernel lets no task fall asleep: what it does to a task's state and code *)
(* starts no wait for a notification.                                           *)
LEMMA KernelKeepsWaits ==
    ASSUME IInv, KernelStep
    PROVE  /\ \A t \in Tasks : AwaitsNotification(t)' => AwaitsNotification(t)
           /\ \A t \in Tasks : pc[t]' = "submit" <=> pc[t] = "submit"
           /\ pc[Worker]' \in {"block", "resume"} => pc[Worker] \in {"block", "resume"}
  <1> USE TaskFacts, WorkerFacts
  <1>1. KernelTypes /\ RingIsWhole
    BY TypesSplit DEF IInv
  <1>2. CASE Tick
    BY <1>1, <1>2
    DEF Tick, TaskTick, AwaitsNotification, StillWaiting, KernelTypes
  <1>3. CASE PendSV
    <2>1. UNCHANGED <<waitType, waitResult, pc>>
      BY <1>3 DEF PendSV
    <2>2. \A t \in Tasks : state'[t] = "BLOCKED" => state[t] = "BLOCKED"
      <3>1. CASE Deferred
        BY <3>1 DEF Deferred
      <3>2. CASE Dispatched
        <4>1. PICK best \in Tasks : state' = [Released EXCEPT ![best] = "RUNNING"]
          BY <3>2 DEF Dispatched
        <4>2. \A t \in Tasks : Released[t] = "BLOCKED" => state[t] = "BLOCKED"
          BY <1>1 DEF Released, KernelTypes
        <4>3. Released \in [Slots -> States]
          BY <1>1 DEF Released, KernelTypes, States
        <4> QED  BY <4>1, <4>2, <4>3, <1>1
      <3> QED  BY <1>3, <3>1, <3>2 DEF PendSV
    <2> QED  BY <2>1, <2>2 DEF AwaitsNotification, StillWaiting
  <1>4. CASE Yield
    <2>1. UNCHANGED tcbVars
      BY <1>4 DEF Yield
    <2>2. /\ pc[current] \in {"kick", "block", "exit"}
          /\ pc' = [pc EXCEPT ![current] = AfterYield[pc[current]]]
          /\ AfterYield[pc[current]] \in {"app", "resume", "dead"}
          /\ AfterYield[pc[current]] = "resume" => pc[current] = "block"
      BY <1>4 DEF Yield, AfterYield
    <2>3. pc \in [Slots -> PCs] /\ current \in Slots /\ current \in Tasks
      BY <1>1 DEF KernelTypes
    <2>4. \A t \in Tasks : pc[t]' = "submit" <=> pc[t] = "submit"
      BY <1>1, <2>2, <2>3
    <2>5. pc[Worker]' \in {"block", "resume"} => pc[Worker] \in {"block", "resume"}
      BY <1>1, <2>2, <2>3
    <2> QED  BY <2>1, <2>4, <2>5 DEF tcbVars, AwaitsNotification, StillWaiting
  <1> QED  BY <1>2, <1>3, <1>4 DEF KernelStep
-------------------------------------------------------------------------------
(* A notification of a task, by a task or from an interrupt.                    *)
LEMMA NotifyCommonKeeps ==
    ASSUME IInv, ring' = ring, NEW t \in Tasks,
           NEW bits \in SUBSET Bits, bits # {}, NotifyCommon(t, bits)
    PROVE  /\ state' \in [Slots -> States] /\ delay' \in [Slots -> Nat]
           /\ NotifyTypes' /\ NoNotificationMissed'
           /\ \A s \in Tasks : AwaitsNotification(s)' => AwaitsNotification(s)
           /\ notifyPending'[t]
           /\ \A s \in Tasks : notifyPending[s] => notifyPending'[s]
  <1>1. KernelTypes /\ NotifyTypes /\ t \in Slots /\ Tasks \subseteq Slots
    BY TypesSplit, TaskFacts, WorkerFacts DEF IInv
  <1>2. Tasks' = Tasks
    BY TasksHold
  <1>3. state' \in [Slots -> States] /\ delay' \in [Slots -> Nat]
    BY <1>1 DEF NotifyCommon, KernelTypes, States
  <1>4. /\ notifyValue' = [notifyValue EXCEPT ![t] = @ \cup bits]
        /\ notifyPending' = [notifyPending EXCEPT ![t] = TRUE]
        /\ UNCHANGED <<waitType, waitResult, clearOnExit>>
    BY DEF NotifyCommon
  <1>5. NotifyTypes'
    BY <1>1, <1>4 DEF NotifyTypes
  <1>6. \A s \in Tasks : AwaitsNotification(s)' => AwaitsNotification(s)
    BY <1>1, <1>4 DEF NotifyCommon, KernelTypes, AwaitsNotification, StillWaiting
  <1>7. ~AwaitsNotification(t)'
    BY <1>1, <1>4 DEF NotifyCommon, WokenBy, KernelTypes, AwaitsNotification, StillWaiting
  <1>8. \A s \in Tasks : notifyPending[s] => notifyPending'[s]
    BY <1>1, <1>4 DEF NotifyTypes
  <1>9. NoNotificationMissed'
    <2>1. ASSUME NEW s \in Tasks
          PROVE  /\ AwaitsNotification(s)' => ~notifyPending'[s]
                 /\ notifyPending'[s] <=> notifyValue'[s] # {}
      <3>1. CASE s = t
        BY <1>1, <1>4, <1>7, <3>1 DEF NotifyTypes
      <3>2. CASE s # t
        BY <1>1, <1>4, <1>6, <3>2 DEF NotifyTypes, IInv, NoNotificationMissed
      <3> QED  BY <3>1, <3>2
    <2> QED  BY <1>2, <2>1 DEF NoNotificationMissed
  <1>10. notifyPending'[t]
    BY <1>1, <1>4 DEF NotifyTypes
  <1> QED  BY <1>3, <1>5, <1>6, <1>8, <1>9, <1>10

(* Taking the value keeps the mark in step with the bits.                       *)
LEMMA TakeValueKeeps ==
    ASSUME IInv, NEW onEntry \in SUBSET Bits, NEW onExit \in SUBSET Bits,
           TakeValue(onEntry, onExit)
    PROVE  /\ notifyValue' \in [Slots -> SUBSET Bits]
           /\ notifyPending' \in [Slots -> BOOLEAN]
           /\ \A s \in Tasks : notifyPending'[s] <=> notifyValue'[s] # {}
           /\ \A s \in Tasks : notifyPending'[s] => notifyPending[s]
           /\ \A s \in Tasks : s # current => (notifyPending'[s] <=> notifyPending[s])
  <1>1. KernelTypes /\ NotifyTypes /\ current \in Slots /\ Tasks \subseteq Slots
    BY TypesSplit, TaskFacts, WorkerFacts DEF IInv, KernelTypes
  <1> DEFINE rest == (notifyValue[current] \ onEntry) \ onExit
  <1>2. /\ notifyValue' = [notifyValue EXCEPT ![current] = rest]
        /\ notifyPending' = [notifyPending EXCEPT
                                ![current] = notifyPending[current] /\ rest # {}]
    BY DEF TakeValue
  <1>3. rest \in SUBSET Bits /\ (rest # {} => notifyValue[current] # {})
    BY <1>1 DEF NotifyTypes
  <1>4. current \in Tasks /\ \A s \in Tasks : notifyPending[s] <=> notifyValue[s] # {}
    BY <1>1 DEF IInv, NoNotificationMissed, KernelTypes
  <1> HIDE DEF rest
  <1>5. notifyValue' \in [Slots -> SUBSET Bits]
    BY <1>1, <1>2, <1>3 DEF NotifyTypes
  <1>6. notifyPending' \in [Slots -> BOOLEAN]
    BY <1>1, <1>2, Zenon DEF NotifyTypes
  <1>7. \A s \in Tasks : s # current =>
            /\ notifyPending'[s] <=> notifyPending[s]
            /\ notifyValue'[s] = notifyValue[s]
    BY <1>1, <1>2 DEF NotifyTypes
  <1>8. notifyValue'[current] = rest /\ (notifyPending'[current] <=> rest # {})
    BY <1>1, <1>2, <1>3, <1>4 DEF NotifyTypes
  <1> QED
    BY <1>3, <1>4, <1>5, <1>6, <1>7, <1>8

(* A wait for a notification, up to its yield.                                  *)
LEMMA NotifyWaitKeeps ==
    ASSUME IInv, ring' = ring, NEW onEntry \in SUBSET Bits, NEW onExit \in SUBSET Bits,
           NEW ms \in Nat, NotifyWait(onEntry, onExit, ms)
    PROVE  /\ KernelTypes' /\ NotifyTypes' /\ NoNotificationMissed'
           /\ \A s \in Tasks : s # current =>
                 /\ AwaitsNotification(s)' <=> AwaitsNotification(s)
                 /\ notifyPending'[s] <=> notifyPending[s]
                 /\ pc'[s] = pc[s]
           /\ AwaitsNotification(current)' => ~notifyPending[current]
           /\ pc'[current] \in {"app", "block"}
  <1>1. /\ KernelTypes /\ NotifyTypes /\ Tasks \subseteq Slots
        /\ current \in Slots /\ current \in Tasks
    BY TypesSplit, TaskFacts, WorkerFacts DEF IInv, KernelTypes
  <1>2. Tasks' = Tasks
    BY TasksHold
  <1>3. pc[current] = "app" /\ UNCHANGED <<current, pendsv>>
    BY DEF NotifyWait, InApp
  <1>4. CASE notifyPending[current]
    <2>1. TakeValue(onEntry, onExit) /\ UNCHANGED <<tcbVars, pc, clearOnExit>>
      BY <1>4 DEF NotifyWait
    <2>2. KernelTypes'
      BY <1>1, <1>2, <1>3, <2>1 DEF KernelTypes, tcbVars
    <2>3. NotifyTypes'
      BY <1>1, <2>1, TakeValueKeeps DEF NotifyTypes
    <2>4. \A s \in Tasks : AwaitsNotification(s)' <=> AwaitsNotification(s)
      BY <2>1 DEF AwaitsNotification, StillWaiting, tcbVars
    <2>5. ~AwaitsNotification(current)
      BY <1>1, <1>4 DEF IInv, NoNotificationMissed
    <2>6. NoNotificationMissed'
      BY <1>2, <2>1, <2>4, TakeValueKeeps DEF NoNotificationMissed, IInv
    <2> QED  BY <1>1, <1>3, <2>1, <2>2, <2>3, <2>4, <2>5, <2>6, TakeValueKeeps
  <1>5. CASE ~notifyPending[current]
    <2>1. /\ notifyValue' = [notifyValue EXCEPT ![current] = @ \ onEntry]
          /\ UNCHANGED notifyPending
      BY <1>5 DEF NotifyWait
    <2>2. notifyValue[current] = {}
      BY <1>1, <1>5 DEF IInv, NoNotificationMissed
    <2>3. notifyValue' = notifyValue
      BY <1>1, <2>1, <2>2 DEF NotifyTypes
    <2>4. CASE ms = 0
      <3>1. UNCHANGED <<tcbVars, pc, clearOnExit>>
        BY <1>5, <2>4 DEF NotifyWait
      <3>2. \A s \in Tasks : AwaitsNotification(s)' <=> AwaitsNotification(s)
        BY <3>1 DEF AwaitsNotification, StillWaiting, tcbVars
      <3>3. KernelTypes' /\ NotifyTypes'
        BY <1>1, <1>2, <1>3, <2>1, <2>3, <3>1 DEF KernelTypes, NotifyTypes, tcbVars
      <3>4. NoNotificationMissed'
        BY <1>2, <2>1, <2>3, <3>2 DEF NoNotificationMissed, IInv
      <3> QED  BY <1>1, <1>3, <1>5, <2>1, <3>1, <3>2, <3>3, <3>4
    <2>5. CASE ms # 0
      <3>1. /\ BlockCurrent("NOTIFICATION", ms, "block")
            /\ clearOnExit' = [clearOnExit EXCEPT ![current] = onExit]
        BY <1>5, <2>5 DEF NotifyWait
      <3>2. MsToTicks(ms) \in Nat
        BY MsToTicksType
      <3>3. KernelTypes'
        BY <1>1, <1>2, <1>3, <3>1, <3>2
        DEF BlockCurrent, KernelTypes, States, WaitTypes, Results, PCs
      <3>4. NotifyTypes'
        BY <1>1, <2>1, <2>3, <3>1 DEF NotifyTypes
      <3>5. \A s \in Tasks : s # current =>
               /\ AwaitsNotification(s)' <=> AwaitsNotification(s)
               /\ pc'[s] = pc[s]
        BY <1>1, <3>1 DEF BlockCurrent, KernelTypes, AwaitsNotification, StillWaiting
      <3>6. NoNotificationMissed'
        BY <1>2, <1>5, <2>1, <2>3, <3>5 DEF NoNotificationMissed, IInv
      <3>7. pc'[current] = "block"
        BY <1>1, <3>1 DEF BlockCurrent, KernelTypes
      <3> QED  BY <1>5, <2>1, <3>3, <3>4, <3>5, <3>6, <3>7
    <2> QED  BY <2>4, <2>5
  <1> QED  BY <1>4, <1>5

(* The end of such a wait.                                                      *)
LEMMA EndNotifyWaitKeeps ==
    ASSUME IInv, ring' = ring, EndNotifyWait
    PROVE  /\ KernelTypes' /\ NotifyTypes' /\ NoNotificationMissed'
           /\ \A s \in Tasks : AwaitsNotification(s)' =>
                 s # current /\ AwaitsNotification(s)
           /\ \A s \in Tasks : s # current => (notifyPending'[s] <=> notifyPending[s])
           /\ pc[current] = "resume"
           /\ \A s \in Tasks : pc'[s] = IF s = current THEN "app" ELSE pc[s]
  <1>1. /\ KernelTypes /\ NotifyTypes /\ Tasks \subseteq Slots
        /\ current \in Slots /\ current \in Tasks
    BY TypesSplit, TaskFacts, WorkerFacts DEF IInv, KernelTypes
  <1>2. Tasks' = Tasks
    BY TasksHold
  <1>3. /\ pc[current] = "resume" /\ UNCHANGED <<current, pendsv, state, delay, waitResult>>
        /\ waitType' = [waitType EXCEPT ![current] = "NONE"]
        /\ clearOnExit' = [clearOnExit EXCEPT ![current] = {}]
        /\ pc' = [pc EXCEPT ![current] = "app"]
    BY DEF EndNotifyWait, Resuming, GoTo
  <1>4. KernelTypes'
    BY <1>1, <1>2, <1>3 DEF KernelTypes, WaitTypes, PCs
  <1>5. clearOnExit[current] \in SUBSET Bits /\ {} \in SUBSET Bits
    BY <1>1 DEF NotifyTypes
  <1>6. /\ notifyValue' \in [Slots -> SUBSET Bits]
        /\ notifyPending' \in [Slots -> BOOLEAN]
        /\ \A s \in Tasks : notifyPending'[s] <=> notifyValue'[s] # {}
        /\ \A s \in Tasks : notifyPending'[s] => notifyPending[s]
        /\ \A s \in Tasks : s # current => (notifyPending'[s] <=> notifyPending[s])
    <2>1. CASE waitResult[current] = "TIMEOUT"
      <3>1. UNCHANGED <<notifyValue, notifyPending>>
        BY <2>1 DEF EndNotifyWait
      <3> QED  BY <1>1, <3>1 DEF NotifyTypes, IInv, NoNotificationMissed
    <2>2. CASE waitResult[current] # "TIMEOUT"
      <3>1. TakeValue({}, clearOnExit[current])
        BY <2>2 DEF EndNotifyWait
      <3> QED  BY <1>5, <3>1, TakeValueKeeps
    <2> QED  BY <2>1, <2>2
  <1>7. NotifyTypes'
    BY <1>1, <1>3, <1>6 DEF NotifyTypes
  <1>8. \A s \in Tasks : AwaitsNotification(s)' => s # current /\ AwaitsNotification(s)
    BY <1>1, <1>3 DEF AwaitsNotification, StillWaiting, KernelTypes
  <1>9. NoNotificationMissed'
    BY <1>2, <1>6, <1>8 DEF NoNotificationMissed, IInv
  <1>10. \A s \in Tasks : pc'[s] = IF s = current THEN "app" ELSE pc[s]
    BY <1>1, <1>3 DEF KernelTypes
  <1> QED  BY <1>3, <1>4, <1>6, <1>7, <1>8, <1>9, <1>10
-------------------------------------------------------------------------------
(* Steps that leave the worker and the queue alone, or only take work away.     *)
LEMMA ToldKept ==
    ASSUME WorkerIsTold, Worker \in Tasks, Tasks' = Tasks,
           pendingItems' > 0 => pendingItems > 0,
           workerAt' = "await" => workerAt = "await",
           AwaitsNotification(Worker)' => AwaitsNotification(Worker),
           \A t \in Tasks : pc[t] = "submit" => pc'[t] = "submit",
           notifyPending[Worker] => notifyPending'[Worker]
    PROVE  WorkerIsTold'
  BY DEF WorkerIsTold

LEMMA EnqueueKeepsQueue ==
    ASSUME WorkTypes, TailInStep, NEW item \in Items, EnqueueWork(item)
    PROVE  WorkTypes' /\ TailInStep'
  <1> USE ConstantTypes
  <1>1. /\ pendingItems \in 0 .. WorkLength - 1 /\ pendingItems' = pendingItems + 1
        /\ workHead \in 0 .. WorkLength - 1 /\ workTail \in 0 .. WorkLength - 1
        /\ workTail' = (workTail + 1) % WorkLength
        /\ UNCHANGED <<workHead, workerAt, running>>
    BY DEF EnqueueWork, WorkTypes
  <1>2. workTail + 1 \in 0 .. WorkLength + WorkLength - 1
    BY <1>1
  <1>3. workTail' \in 0 .. WorkLength - 1
    BY <1>1, <1>2, Wrap
  <1>4. workQueue' \in [0 .. WorkLength - 1 -> Items \cup {NoItem}]
    BY <1>1 DEF EnqueueWork, WorkTypes
  <1>5. workTail' = (workHead + (pendingItems + 1)) % WorkLength
    BY <1>1, TailMovesOn DEF TailInStep
  <1> QED  BY <1>1, <1>3, <1>4, <1>5 DEF WorkTypes, TailInStep

LEMMA PopKeepsQueue ==
    ASSUME WorkTypes, TailInStep, WorkerPops
    PROVE  WorkTypes' /\ TailInStep'
  <1> USE ConstantTypes
  <1>1. UNCHANGED <<workQueue, workTail>>
    BY DEF WorkerPops
  <1>2. CASE pendingItems = 0
    BY <1>1, <1>2 DEF WorkerPops, WorkTypes, TailInStep, WorkerPoints
  <1>3. CASE pendingItems # 0
    <2>1. /\ pendingItems \in 1 .. WorkLength /\ pendingItems' = pendingItems - 1
          /\ workHead \in 0 .. WorkLength - 1 /\ workHead' = (workHead + 1) % WorkLength
          /\ running' = workQueue[workHead] /\ workerAt' = "handle"
      BY <1>3 DEF WorkerPops, WorkTypes
    <2>2. TailInStep'
      BY <1>1, <2>1, TailStays DEF TailInStep
    <2>3. workQueue[workHead] \in Items \cup {NoItem}
      BY <2>1 DEF WorkTypes
    <2>4. workHead + 1 \in 0 .. WorkLength + WorkLength - 1
      BY <2>1
    <2>5. workHead' \in 0 .. WorkLength - 1
      BY <2>1, <2>4, Wrap
    <2> QED  BY <1>1, <2>1, <2>2, <2>3, <2>5 DEF WorkTypes, WorkerPoints
  <1> QED  BY <1>2, <1>3
-------------------------------------------------------------------------------
LEMMA SubmitHolds ==
    ASSUME IInv, ring' = ring, NEW item \in Items, Submit(item)
    PROVE  IInv'
  <1> USE TaskFacts, WorkerFacts
  <1>1. KernelTypes /\ NotifyTypes /\ WorkTypes /\ RingIsWhole /\ TailInStep
    BY TypesSplit DEF IInv
  <1>2. Tasks' = Tasks /\ RingIsWhole'
    BY <1>1, TasksHold
  <1>3. /\ EnqueueWork(item) /\ pc' = [pc EXCEPT ![current] = "submit"]
        /\ UNCHANGED <<tcbVars, current, pendsv, notifyVars, workerAt>>
    BY DEF Submit, GoTo, EnqueueWork
  <1>4. current \in Slots /\ current \in Tasks
    BY <1>1 DEF KernelTypes
  <1>5. KernelTypes'
    BY <1>1, <1>2, <1>3 DEF KernelTypes, PCs, tcbVars
  <1>6. NotifyTypes'
    BY <1>1, <1>3 DEF NotifyTypes, notifyVars
  <1>7. WorkTypes' /\ TailInStep'
    BY <1>1, <1>3, EnqueueKeepsQueue
  <1>8. NoNotificationMissed'
    BY <1>2, <1>3 DEF IInv, NoNotificationMissed, AwaitsNotification, StillWaiting,
                      tcbVars, notifyVars
  <1>9. pc'[current] = "submit"
    BY <1>1, <1>3, <1>4 DEF KernelTypes
  <1>10. WorkerIsTold'
    BY <1>2, <1>4, <1>9 DEF WorkerIsTold
  <1>11. WorkerPastAwait'
    BY <1>1, <1>3, <1>4 DEF IInv, WorkerPastAwait, KernelTypes
  <1> QED
    BY <1>2, <1>5, <1>6, <1>7, <1>8, <1>10, <1>11, TypesSplit DEF IInv

LEMMA NotifyWorkerHolds ==
    ASSUME IInv, ring' = ring, NotifyWorker
    PROVE  IInv'
  <1> USE TaskFacts, WorkerFacts
  <1>1. KernelTypes /\ NotifyTypes /\ WorkTypes /\ RingIsWhole /\ TailInStep
    BY TypesSplit DEF IInv
  <1>2. Tasks' = Tasks /\ RingIsWhole'
    BY <1>1, TasksHold
  <1>3. /\ NotifyCommon(Worker, {WorkBit}) /\ {WorkBit} \in SUBSET Bits /\ {WorkBit} # {}
        /\ UNCHANGED <<current, pendsv, waitType, waitResult>> /\ UNCHANGED workVars
    BY ConstantTypes DEF NotifyWorker, NotifyAndReturn, NotifyCommon
  <1>4. /\ state' \in [Slots -> States] /\ delay' \in [Slots -> Nat]
        /\ NotifyTypes' /\ NoNotificationMissed' /\ notifyPending'[Worker]
    BY <1>1, <1>3, NotifyCommonKeeps
  <1>5. PICK point \in {"kick", "app"} : pc' = [pc EXCEPT ![current] = point]
    BY DEF NotifyWorker, NotifyAndReturn, GoTo
  <1>6. current \in Slots
    BY <1>1 DEF KernelTypes
  <1>7. KernelTypes'
    BY <1>1, <1>2, <1>3, <1>4, <1>5 DEF KernelTypes, PCs
  <1>8. WorkTypes' /\ TailInStep'
    BY <1>1, <1>3 DEF WorkTypes, TailInStep, workVars
  <1>9. WorkerIsTold'
    BY <1>4 DEF WorkerIsTold
  <1>10. WorkerPastAwait'
    BY <1>1, <1>3, <1>5, <1>6 DEF IInv, WorkerPastAwait, KernelTypes, workVars
  <1> QED
    BY <1>2, <1>4, <1>7, <1>8, <1>9, <1>10, TypesSplit DEF IInv

LEMMA SubmitIsrHolds ==
    ASSUME IInv, ring' = ring, NEW item \in Items, SubmitIsr(item)
    PROVE  IInv'
  <1> USE TaskFacts, WorkerFacts
  <1>1. KernelTypes /\ NotifyTypes /\ WorkTypes /\ RingIsWhole /\ TailInStep
    BY TypesSplit DEF IInv
  <1>2. Tasks' = Tasks /\ RingIsWhole'
    BY <1>1, TasksHold
  <1>3. /\ NotifyCommon(Worker, {WorkBit}) /\ {WorkBit} \in SUBSET Bits /\ {WorkBit} # {}
        /\ pendsv' = (pendsv \/ WokenBy(Worker))
        /\ EnqueueWork(item)
        /\ UNCHANGED <<current, pc, waitType, waitResult, workerAt>>
    BY ConstantTypes DEF SubmitIsr, NotifyIsr, NotifyCommon, EnqueueWork
  <1>4. /\ state' \in [Slots -> States] /\ delay' \in [Slots -> Nat]
        /\ NotifyTypes' /\ NoNotificationMissed' /\ notifyPending'[Worker]
    BY <1>1, <1>3, NotifyCommonKeeps
  <1>5. pendsv' \in BOOLEAN
    BY <1>3
  <1>6. KernelTypes'
    BY <1>1, <1>2, <1>3, <1>4, <1>5 DEF KernelTypes
  <1>7. WorkTypes' /\ TailInStep'
    BY <1>1, <1>3, EnqueueKeepsQueue
  <1>8. WorkerIsTold'
    BY <1>4 DEF WorkerIsTold
  <1>9. WorkerPastAwait'
    BY <1>3 DEF IInv, WorkerPastAwait
  <1> QED
    BY <1>2, <1>4, <1>6, <1>7, <1>8, <1>9, TypesSplit DEF IInv
-------------------------------------------------------------------------------
LEMMA KernelStepHolds ==
    ASSUME IInv, ring' = ring, KernelStep, UNCHANGED <<notifyVars, workVars>>
    PROVE  IInv'
  <1>1. Tasks' = Tasks /\ RingIsWhole' /\ Worker \in Tasks
    BY TasksHold, TaskFacts, WorkerFacts DEF IInv
  <1>2. UNCHANGED <<notifyValue, notifyPending, clearOnExit>>
    BY DEF notifyVars
  <1>3. UNCHANGED <<workQueue, workHead, workTail, pendingItems, workerAt, running>>
    BY DEF workVars
  <1>4. KernelTypes' /\ NotifyTypes' /\ WorkTypes' /\ TailInStep'
    BY <1>2, <1>3, TypesSplit, KernelKeepsTypes
    DEF IInv, NotifyTypes, WorkTypes, TailInStep
  <1>5. NoNotificationMissed'
    BY <1>1, <1>2, KernelKeepsWaits DEF IInv, NoNotificationMissed
  <1>6. WorkerIsTold'
    BY <1>1, <1>2, <1>3, KernelKeepsWaits DEF IInv, WorkerIsTold
  <1>7. WorkerPastAwait'
    BY <1>3, KernelKeepsWaits DEF IInv, WorkerPastAwait
  <1> QED  BY <1>1, <1>4, <1>5, <1>6, <1>7, TypesSplit DEF IInv

(* Another task, or an interrupt, notifies an application task.                 *)
LEMMA NotifyHolds ==
    ASSUME IInv, ring' = ring, NEW t \in 1 .. AppTasks, NEW bit \in Bits,
           Notify(t, {bit}), UNCHANGED workVars
    PROVE  IInv'
  <1>1. KernelTypes /\ NotifyTypes /\ WorkTypes /\ RingIsWhole /\ TailInStep
    BY TypesSplit DEF IInv
  <1>2. /\ Tasks' = Tasks /\ RingIsWhole' /\ Worker \in Tasks /\ t \in Tasks
        /\ Tasks \subseteq Slots
    BY <1>1, TasksHold, TaskFacts, WorkerFacts
  <1>3. /\ NotifyCommon(t, {bit}) /\ {bit} \in SUBSET Bits /\ {bit} # {}
        /\ UNCHANGED <<current, pendsv, waitType, waitResult>>
        /\ pc[current] = "app"
    BY DEF Notify, InApp, NotifyAndReturn, NotifyCommon
  <1>4. UNCHANGED <<workQueue, workHead, workTail, pendingItems, workerAt, running>>
    BY DEF workVars
  <1>5. /\ state' \in [Slots -> States] /\ delay' \in [Slots -> Nat]
        /\ NotifyTypes' /\ NoNotificationMissed'
        /\ AwaitsNotification(Worker)' => AwaitsNotification(Worker)
        /\ notifyPending[Worker] => notifyPending'[Worker]
    BY <1>2, <1>3, NotifyCommonKeeps
  <1>6. PICK point \in {"kick", "app"} : pc' = [pc EXCEPT ![current] = point]
    BY DEF Notify, NotifyAndReturn, GoTo
  <1>7. current \in Slots
    BY <1>1, <1>2 DEF KernelTypes
  <1>8. KernelTypes'
    BY <1>1, <1>2, <1>3, <1>5, <1>6 DEF KernelTypes, PCs
  <1>9. WorkTypes' /\ TailInStep'
    BY <1>1, <1>4 DEF WorkTypes, TailInStep
  <1>10. \A s \in Tasks : pc[s] = "submit" => pc'[s] = "submit"
    BY <1>1, <1>2, <1>3, <1>6, <1>7 DEF KernelTypes
  <1>11. WorkerIsTold'
    BY <1>2, <1>4, <1>5, <1>10, ToldKept DEF IInv
  <1>12. WorkerPastAwait'
    BY <1>1, <1>2, <1>4, <1>6, <1>7 DEF IInv, WorkerPastAwait, KernelTypes
  <1> QED
    BY <1>2, <1>5, <1>8, <1>9, <1>11, <1>12, TypesSplit DEF IInv

LEMMA NotifyIsrHolds ==
    ASSUME IInv, ring' = ring, NEW t \in 1 .. AppTasks, NEW bit \in Bits,
           NotifyIsr(t, {bit}), UNCHANGED workVars
    PROVE  IInv'
  <1>1. KernelTypes /\ NotifyTypes /\ WorkTypes /\ RingIsWhole /\ TailInStep
    BY TypesSplit DEF IInv
  <1>2. Tasks' = Tasks /\ RingIsWhole' /\ Worker \in Tasks /\ t \in Tasks
    BY <1>1, TasksHold, TaskFacts, WorkerFacts
  <1>3. /\ NotifyCommon(t, {bit}) /\ {bit} \in SUBSET Bits /\ {bit} # {}
        /\ UNCHANGED <<current, pc, waitType, waitResult>>
        /\ pendsv' \in BOOLEAN
    BY DEF NotifyIsr, NotifyCommon
  <1>4. UNCHANGED <<workQueue, workHead, workTail, pendingItems, workerAt, running>>
    BY DEF workVars
  <1>5. /\ state' \in [Slots -> States] /\ delay' \in [Slots -> Nat]
        /\ NotifyTypes' /\ NoNotificationMissed'
        /\ AwaitsNotification(Worker)' => AwaitsNotification(Worker)
        /\ notifyPending[Worker] => notifyPending'[Worker]
    BY <1>2, <1>3, NotifyCommonKeeps
  <1>6. KernelTypes'
    BY <1>1, <1>2, <1>3, <1>5 DEF KernelTypes
  <1>7. WorkTypes' /\ TailInStep'
    BY <1>1, <1>4 DEF WorkTypes, TailInStep
  <1>8. WorkerIsTold'
    BY <1>2, <1>3, <1>4, <1>5, ToldKept DEF IInv
  <1>9. WorkerPastAwait'
    BY <1>3, <1>4 DEF IInv, WorkerPastAwait
  <1> QED
    BY <1>2, <1>5, <1>6, <1>7, <1>8, <1>9, TypesSplit DEF IInv

LEMMA SleepHolds ==
    ASSUME IInv, ring' = ring, NEW ms \in Nat, Sleep(ms), UNCHANGED <<notifyVars, workVars>>
    PROVE  IInv'
  <1>1. KernelTypes /\ NotifyTypes /\ WorkTypes /\ RingIsWhole /\ TailInStep
    BY TypesSplit DEF IInv
  <1>2. /\ Tasks' = Tasks /\ RingIsWhole' /\ Worker \in Tasks
        /\ Tasks \subseteq Slots /\ current \in Slots
    BY <1>1, TasksHold, TaskFacts, WorkerFacts DEF KernelTypes
  <1>3. /\ BlockCurrent("SLEEP", ms, "kick") /\ pc[current] = "app"
        /\ UNCHANGED <<current, pendsv>>
    BY DEF Sleep, InApp
  <1>4. UNCHANGED <<workQueue, workHead, workTail, pendingItems, workerAt, running>>
    BY DEF workVars
  <1>5. UNCHANGED <<notifyValue, notifyPending, clearOnExit>>
    BY DEF notifyVars
  <1>6. MsToTicks(ms) \in Nat
    BY MsToTicksType
  <1>7. KernelTypes'
    BY <1>1, <1>2, <1>3, <1>6
    DEF BlockCurrent, KernelTypes, States, WaitTypes, Results, PCs
  <1>8. NotifyTypes' /\ WorkTypes' /\ TailInStep'
    BY <1>1, <1>4, <1>5 DEF NotifyTypes, WorkTypes, TailInStep
  <1>9. \A s \in Tasks : AwaitsNotification(s)' => AwaitsNotification(s)
    BY <1>1, <1>2, <1>3 DEF BlockCurrent, KernelTypes, AwaitsNotification, StillWaiting
  <1>10. \A s \in Tasks : /\ pc[s] = "submit" => pc'[s] = "submit"
                          /\ pc'[s] \in {"block", "resume"} => pc[s] \in {"block", "resume"}
    BY <1>1, <1>2, <1>3 DEF BlockCurrent, KernelTypes
  <1>11. NoNotificationMissed'
    BY <1>2, <1>5, <1>9 DEF IInv, NoNotificationMissed
  <1>12. WorkerIsTold'
    BY <1>2, <1>4, <1>5, <1>9, <1>10, ToldKept DEF IInv
  <1>13. WorkerPastAwait'
    BY <1>2, <1>4, <1>10 DEF IInv, WorkerPastAwait
  <1> QED
    BY <1>2, <1>7, <1>8, <1>11, <1>12, <1>13, TypesSplit DEF IInv

(* An application task waits.                                                   *)
LEMMA NotifyWaitHolds ==
    ASSUME IInv, ring' = ring, NEW onEntry \in SUBSET Bits, NEW onExit \in SUBSET Bits,
           NEW ms \in Nat, current # Worker, NotifyWait(onEntry, onExit, ms),
           UNCHANGED workVars
    PROVE  IInv'
  <1>1. KernelTypes /\ NotifyTypes /\ WorkTypes /\ RingIsWhole /\ TailInStep
    BY TypesSplit DEF IInv
  <1>2. Tasks' = Tasks /\ RingIsWhole' /\ Worker \in Tasks
    BY <1>1, TasksHold, TaskFacts, WorkerFacts
  <1>3. UNCHANGED <<workQueue, workHead, workTail, pendingItems, workerAt, running>>
    BY DEF workVars
  <1>4. /\ KernelTypes' /\ NotifyTypes' /\ NoNotificationMissed'
        /\ \A s \in Tasks : s # current =>
              /\ AwaitsNotification(s)' <=> AwaitsNotification(s)
              /\ notifyPending'[s] <=> notifyPending[s]
              /\ pc'[s] = pc[s]
    BY NotifyWaitKeeps
  <1>5. pc[current] = "app"
    BY DEF NotifyWait, InApp
  <1>6. WorkTypes' /\ TailInStep'
    BY <1>1, <1>3 DEF WorkTypes, TailInStep
  <1>7. \A s \in Tasks : pc[s] = "submit" => pc'[s] = "submit"
    BY <1>4, <1>5
  <1>8. WorkerIsTold'
    BY <1>2, <1>3, <1>4, <1>7, ToldKept DEF IInv
  <1>9. WorkerPastAwait'
    BY <1>2, <1>3, <1>4 DEF IInv, WorkerPastAwait
  <1> QED  BY <1>2, <1>4, <1>6, <1>8, <1>9, TypesSplit DEF IInv

(* The end of a wait: the worker goes on to its first look at the queue.        *)
LEMMA EndNotifyWaitHolds ==
    ASSUME IInv, ring' = ring, EndNotifyWait, UNCHANGED workVars
    PROVE  IInv'
  <1>1. KernelTypes /\ NotifyTypes /\ WorkTypes /\ RingIsWhole /\ TailInStep
    BY TypesSplit DEF IInv
  <1>2. Tasks' = Tasks /\ RingIsWhole' /\ Worker \in Tasks
    BY <1>1, TasksHold, TaskFacts, WorkerFacts
  <1>3. UNCHANGED <<workQueue, workHead, workTail, pendingItems, workerAt, running>>
    BY DEF workVars
  <1>4. /\ KernelTypes' /\ NotifyTypes' /\ NoNotificationMissed'
        /\ \A s \in Tasks : AwaitsNotification(s)' =>
              s # current /\ AwaitsNotification(s)
        /\ \A s \in Tasks : s # current => (notifyPending'[s] <=> notifyPending[s])
        /\ pc[current] = "resume"
        /\ \A s \in Tasks : pc'[s] = IF s = current THEN "app" ELSE pc[s]
    BY EndNotifyWaitKeeps
  <1>5. WorkTypes' /\ TailInStep'
    BY <1>1, <1>3 DEF WorkTypes, TailInStep
  <1>6. \A s \in Tasks : pc[s] = "submit" => pc'[s] = "submit"
    BY <1>4
  <1>7. WorkerIsTold'
    <2>1. CASE current = Worker
      <3>1. workerAt' = "drain" /\ ~AwaitsNotification(Worker)'
        BY <1>2, <1>3, <1>4, <2>1 DEF IInv, WorkerPastAwait
      <3> QED  BY <3>1 DEF WorkerIsTold
    <2>2. CASE current # Worker
      BY <1>2, <1>3, <1>4, <1>6, <2>2, ToldKept DEF IInv
    <2> QED  BY <2>1, <2>2
  <1>8. WorkerPastAwait'
    BY <1>2, <1>3, <1>4 DEF IInv, WorkerPastAwait
  <1> QED  BY <1>2, <1>4, <1>5, <1>7, <1>8, TypesSplit DEF IInv
-------------------------------------------------------------------------------
(* The worker goes to sleep only if nothing is pending for it; the last look at *)
(* the queue found it empty, or somebody has told the worker since.             *)
LEMMA WorkerAwaitsHolds ==
    ASSUME IInv, ring' = ring, WorkerAwaits
    PROVE  IInv'
  <1>1. KernelTypes /\ NotifyTypes /\ WorkTypes /\ RingIsWhole /\ TailInStep
    BY TypesSplit DEF IInv
  <1>2. Tasks' = Tasks /\ RingIsWhole' /\ Worker \in Tasks
    BY <1>1, TasksHold, TaskFacts, WorkerFacts
  <1>3. /\ current = Worker /\ workerAt = "await" /\ NotifyWait({}, Bits, FOREVER)
        /\ workerAt' = "drain"
        /\ UNCHANGED <<workQueue, workHead, workTail, pendingItems, running>>
    BY DEF WorkerAwaits
  <1>4. {} \in SUBSET Bits /\ Bits \in SUBSET Bits /\ FOREVER \in Nat
    BY ConstantTypes
  <1>5. /\ KernelTypes' /\ NotifyTypes' /\ NoNotificationMissed'
        /\ \A s \in Tasks : s # current => pc'[s] = pc[s]
        /\ AwaitsNotification(current)' => ~notifyPending[current]
    BY <1>3, <1>4, NotifyWaitKeeps
  <1>6. WorkTypes' /\ TailInStep'
    BY <1>1, <1>3 DEF WorkTypes, TailInStep, WorkerPoints
  <1>7. pc[current] = "app" /\ current' = Worker
    BY <1>3 DEF NotifyWait, InApp
  <1>8. \A s \in Tasks : pc[s] = "submit" => pc'[s] = "submit"
    BY <1>5, <1>7
  <1>9. WorkerIsTold'
    <2> SUFFICES ASSUME pendingItems' > 0,
                        workerAt' = "await" \/ AwaitsNotification(Worker)',
                        \A t \in Tasks : pc'[t] # "submit"
                 PROVE  FALSE
      BY <1>2 DEF WorkerIsTold
    <2>1. ~notifyPending[Worker]
      <3>1. AwaitsNotification(Worker)'
        BY <1>3
      <3> QED  BY <1>3, <1>5, <1>7, <3>1 DEF AwaitsNotification, StillWaiting
    <2>2. \A t \in Tasks : pc[t] # "submit"
      BY <1>8
    <2> QED  BY <1>3, <2>1, <2>2 DEF IInv, WorkerIsTold
  <1>10. WorkerPastAwait'
    BY <1>3 DEF WorkerPastAwait
  <1> QED  BY <1>2, <1>5, <1>6, <1>9, <1>10, TypesSplit DEF IInv

LEMMA WorkerLoopHolds ==
    ASSUME IInv, ring' = ring, WorkerPops \/ HandlerReturns
    PROVE  IInv'
  <1>1. KernelTypes /\ NotifyTypes /\ WorkTypes /\ RingIsWhole /\ TailInStep
    BY TypesSplit DEF IInv
  <1>2. Tasks' = Tasks /\ RingIsWhole' /\ Worker \in Tasks
    BY <1>1, TasksHold, TaskFacts, WorkerFacts
  <1>3. /\ current = Worker /\ pc[Worker] = "app"
        /\ UNCHANGED <<current, pendsv, state, delay, waitType, waitResult, pc>>
        /\ UNCHANGED <<notifyValue, notifyPending, clearOnExit>>
    BY DEF WorkerPops, HandlerReturns, InApp, kernelVars, tcbVars, notifyVars
  <1>4. KernelTypes' /\ NotifyTypes'
    BY <1>1, <1>2, <1>3 DEF KernelTypes, NotifyTypes
  <1>5. WorkTypes' /\ TailInStep'
    <2>1. CASE WorkerPops
      BY <1>1, <2>1, PopKeepsQueue
    <2>2. CASE HandlerReturns
      BY <1>1, <2>2 DEF HandlerReturns, WorkTypes, TailInStep, WorkerPoints
    <2> QED  BY <2>1, <2>2
  <1>6. \A s \in Tasks : AwaitsNotification(s)' <=> AwaitsNotification(s)
    BY <1>3 DEF AwaitsNotification, StillWaiting
  <1>7. NoNotificationMissed'
    BY <1>2, <1>3, <1>6 DEF IInv, NoNotificationMissed
  <1>8. WorkerIsTold'
    <2>1. pendingItems' > 0 => pendingItems > 0 /\ workerAt' # "await"
      BY <1>1 DEF WorkerPops, HandlerReturns, WorkTypes
    <2> QED  BY <1>2, <1>3, <1>6, <2>1 DEF IInv, WorkerIsTold
  <1>9. WorkerPastAwait'
    BY <1>3 DEF WorkerPastAwait
  <1> QED  BY <1>2, <1>4, <1>5, <1>7, <1>8, <1>9, TypesSplit DEF IInv
-------------------------------------------------------------------------------
LEMMA InitHolds == Init => IInv
  <1> SUFFICES ASSUME Init  PROVE IInv
    OBVIOUS
  <1> USE ConstantsLemma
  <1>1. KernelInit /\ NotifyInit /\ WorkInit
    BY DEF Init
  <1>2. RingIsWhole
    BY <1>1, InitialRing DEF RingIsWhole, TaskCount
  <1>3. Worker \in Tasks /\ Tasks \subseteq Slots
    BY <1>2, TaskFacts, WorkerFacts
  <1>4. KernelTypes
    BY <1>1, <1>3 DEF KernelInit, KernelTypes, States, WaitTypes, Results, PCs, Worker
  <1>5. NotifyTypes
    BY <1>1 DEF NotifyInit, NotifyTypes
  <1>6. WorkTypes
    BY <1>1, ConstantTypes DEF WorkInit, WorkTypes, WorkerPoints
  <1>7. NoNotificationMissed
    <2>1. \A t \in Slots : ~StillWaiting(t)
      BY <1>1 DEF KernelInit, StillWaiting
    <2> QED  BY <1>1, <1>3, <2>1 DEF NotifyInit, NoNotificationMissed, AwaitsNotification
  <1>8. WorkerPastAwait
    BY <1>1, <1>3 DEF KernelInit, WorkerPastAwait
  <1>9. WorkerIsTold
    BY <1>1 DEF WorkInit, WorkerIsTold
  <1>10. TailInStep
    <2>1. \A n \in Nat \ {0} : 0 % n = 0
      OBVIOUS
    <2> QED  BY <1>1, <2>1, ConstantTypes DEF WorkInit, TailInStep
  <1> QED
    BY <1>2, <1>4, <1>5, <1>6, <1>7, <1>8, <1>9, <1>10, TypesSplit DEF IInv

LEMMA StepHolds == IInv /\ [Next]_vars => IInv'
  <1> SUFFICES ASSUME IInv, [Next]_vars  PROVE IInv'
    OBVIOUS
  <1>1. CASE UNCHANGED vars
    BY <1>1
    DEF vars, kernelVars, ringVars, tcbVars, notifyVars, workVars, IInv, TypeOK,
        RingIsWhole, Tasks, TaskCount, NoNotificationMissed, AwaitsNotification,
        StillWaiting, WorkerPastAwait, WorkerIsTold, TailInStep
  <1>2. CASE Next
    <2>1. ring' = ring
      BY <1>2, RingHolds
    <2>2. CASE KernelStep /\ UNCHANGED <<notifyVars, workVars>>
      BY <2>1, <2>2, KernelStepHolds
    <2>3. CASE InUserCode /\ UserStep
      <3>1. CASE \E item \in Items : Submit(item)
        BY <2>1, <3>1, SubmitHolds
      <3>2. CASE /\ \E t \in 1 .. AppTasks, bit \in Bits : Notify(t, {bit})
                 /\ UNCHANGED workVars
        BY <2>1, <3>2, NotifyHolds
      <3>3. CASE /\ \E ms \in Timeouts \ {FOREVER} : Sleep(ms) /\ UNCHANGED notifyVars
                 /\ UNCHANGED workVars
        BY <2>1, <3>3, SleepHolds, ConstantTypes
      <3>4. CASE /\ current # Worker
                 /\ \E onEntry, onExit \in ClearMasks, ms \in Timeouts :
                        NotifyWait(onEntry, onExit, ms)
                 /\ UNCHANGED workVars
        BY <2>1, <3>4, NotifyWaitHolds, ConstantTypes
      <3> QED  BY <2>3, <3>1, <3>2, <3>3, <3>4 DEF UserStep
    <2>4. CASE CallStep
      BY <2>1, <2>4, NotifyWorkerHolds, EndNotifyWaitHolds DEF CallStep
    <2>5. CASE WorkerStep
      BY <2>1, <2>5, WorkerAwaitsHolds, WorkerLoopHolds DEF WorkerStep
    <2>6. CASE IsrStep
      BY <2>1, <2>6, SubmitIsrHolds, NotifyIsrHolds DEF IsrStep
    <2> QED  BY <1>2, <2>2, <2>3, <2>4, <2>5, <2>6 DEF Next
  <1> QED  BY <1>1, <1>2
-------------------------------------------------------------------------------
(* The inductive invariant behind the other theorems: the notifications, the    *)
(* ring of work items and the worker's loop agree (task.c:299-385, work.c).     *)
THEOREM WorkQueueInvariant == Spec => []IInv
  <1> QED  BY InitHolds, StepHolds, PTL DEF Spec

(* The variables of work.c and of the notifications keep their types; in        *)
(* particular the ring never holds more items than it has cells.                *)
THEOREM WorkQueueTypeCorrect == Spec => []TypeOK
  <1>1. IInv => TypeOK
    BY DEF IInv
  <1> QED  BY <1>1, WorkQueueInvariant, PTL

(* No task sleeps through a notification, and the mark is up exactly while bits *)
(* are, whatever the masks of the waits (task.c:303-318, 346-354, 375-385).     *)
THEOREM NotificationsArrive == Spec => []NoNotificationMissed
  <1>1. IInv => NoNotificationMissed
    BY DEF IInv
  <1> QED  BY <1>1, WorkQueueInvariant, PTL

(* Only a task itself takes bits of its value away, in the two places of its    *)
(* waits that may.                                                              *)
MayTake(t) ==
    /\ t = current
    /\ \/ InApp
       \/ Resuming /\ waitType[t] = "NOTIFICATION" /\ waitResult[t] = "OK"
KeepsNotifications ==
    \A t \in Tasks : notifyValue[t] \subseteq notifyValue'[t] \/ MayTake(t)

LEMMA NotifyCommonKeepsBits ==
    ASSUME NotifyTypes, Tasks \subseteq Slots, NEW t \in Tasks,
           NEW bits \in SUBSET Bits, NotifyCommon(t, bits)
    PROVE  KeepsNotifications
  BY DEF NotifyCommon, NotifyTypes, KeepsNotifications

LEMMA NotifyWaitKeepsBits ==
    ASSUME NotifyTypes, Tasks \subseteq Slots, NEW onEntry, NEW onExit, NEW ms,
           NotifyWait(onEntry, onExit, ms)
    PROVE  KeepsNotifications
  <1>1. InApp
    BY DEF NotifyWait
  <1>2. PICK rest : notifyValue' = [notifyValue EXCEPT ![current] = rest]
    BY DEF NotifyWait, TakeValue
  <1>3. \A t \in Tasks : t # current => notifyValue'[t] = notifyValue[t]
    BY <1>2 DEF NotifyTypes
  <1> QED  BY <1>1, <1>3 DEF KeepsNotifications, MayTake

LEMMA EndNotifyWaitKeepsBits ==
    ASSUME KernelTypes, NotifyTypes, Tasks \subseteq Slots, EndNotifyWait
    PROVE  KeepsNotifications
  <1>1. CASE waitResult[current] = "TIMEOUT"
    BY <1>1 DEF EndNotifyWait, KeepsNotifications
  <1>2. CASE waitResult[current] # "TIMEOUT"
    <2>1. Resuming /\ waitType[current] = "NOTIFICATION" /\ waitResult[current] = "OK"
      BY <1>2 DEF EndNotifyWait, KernelTypes, Results
    <2>2. PICK rest : notifyValue' = [notifyValue EXCEPT ![current] = rest]
      BY <1>2 DEF EndNotifyWait, TakeValue
    <2>3. \A t \in Tasks : t # current => notifyValue'[t] = notifyValue[t]
      BY <2>2 DEF NotifyTypes
    <2> QED  BY <2>1, <2>3 DEF KeepsNotifications, MayTake
  <1> QED  BY <1>1, <1>2

(* No notification is thrown away: one that meets a wait that has timed out, or *)
(* a task that waits for anything else, is there for the next wait              *)
(* (task.c:303-318, 346-354, 375-385).                                          *)
THEOREM NotificationsStay == Spec => NotificationsAreKept
  <1>1. ASSUME IInv, [Next]_vars
        PROVE  KeepsNotifications \/ UNCHANGED notifyVars
    <2>1. KernelTypes /\ NotifyTypes /\ Tasks \subseteq Slots /\ Worker \in Tasks
      BY <1>1, TypesSplit, TaskFacts, WorkerFacts DEF IInv
    <2>2. \A bit \in Bits : {bit} \in SUBSET Bits
      OBVIOUS
    <2>3. CASE InUserCode /\ UserStep
      <3>1. \A t \in 1 .. AppTasks : t \in Tasks
        BY <1>1, TaskFacts DEF IInv
      <3>2. CASE \E item \in Items : Submit(item)
        BY <3>2 DEF Submit
      <3>3. CASE \E t \in 1 .. AppTasks, bit \in Bits : Notify(t, {bit})
        BY <2>1, <2>2, <3>1, <3>3, NotifyCommonKeepsBits DEF Notify, NotifyAndReturn
      <3>4. CASE \E onEntry, onExit \in ClearMasks, ms \in Timeouts :
                     NotifyWait(onEntry, onExit, ms)
        BY <2>1, <3>4, NotifyWaitKeepsBits
      <3> QED  BY <2>3, <3>2, <3>3, <3>4 DEF UserStep
    <2>4. CASE CallStep
      <3>1. CASE NotifyWorker
        BY <2>1, <2>2, <3>1, ConstantTypes, NotifyCommonKeepsBits
        DEF NotifyWorker, NotifyAndReturn
      <3>2. CASE EndNotifyWait
        BY <2>1, <3>2, EndNotifyWaitKeepsBits
      <3> QED  BY <2>4, <3>1, <3>2 DEF CallStep
    <2>5. CASE WorkerStep
      <3>1. CASE WorkerAwaits
        BY <2>1, <3>1, NotifyWaitKeepsBits DEF WorkerAwaits
      <3> QED  BY <2>5, <3>1 DEF WorkerStep, WorkerPops, HandlerReturns
    <2>6. CASE IsrStep
      <3>1. \A t \in 1 .. AppTasks : t \in Tasks
        BY <1>1, TaskFacts DEF IInv
      <3> QED  BY <2>1, <2>2, <2>6, <3>1, ConstantTypes, NotifyCommonKeepsBits
               DEF IsrStep, SubmitIsr, NotifyIsr
    <2> QED  BY <1>1, <2>3, <2>4, <2>5, <2>6 DEF Next, vars
  <1>2. IInv /\ [Next]_vars =>
          [\A t \in Tasks :
              \/ notifyValue[t] \subseteq notifyValue'[t]
              \/ /\ t = current
                 /\ \/ InApp
                    \/ /\ Resuming
                       /\ waitType[t] = "NOTIFICATION" /\ waitResult[t] = "OK"]_notifyVars
    BY <1>1 DEF KeepsNotifications, MayTake
  <1> QED  BY <1>2, WorkQueueInvariant, PTL DEF Spec, NotificationsAreKept

(* The worker never sleeps while items wait, unless a submitter is about to     *)
(* notify it (work.c:40-53, 78-87).                                             *)
THEOREM WorkIsNotLeft == Spec => []NoWorkLeftBehind
  <1>1. IInv => NoWorkLeftBehind
    BY TaskFacts, WorkerFacts DEF IInv, NoNotificationMissed, WorkerIsTold, NoWorkLeftBehind
  <1> QED  BY <1>1, WorkQueueInvariant, PTL
-------------------------------------------------------------------------------
(* The items in the ring, oldest first: what the channel contains.              *)
Contents == [i \in 1 .. pendingItems |-> workQueue[(workHead + i - 1) % WorkLength]]

LEMMA ContentsInRing ==
    /\ Contents = RingContents(workQueue, workHead, pendingItems, WorkLength)
    /\ Contents' = RingContents(workQueue', workHead', pendingItems', WorkLength)
  BY DEF Contents, RingContents, Cell

LEMMA EnqueuePuts ==
    ASSUME WorkTypes, TailInStep, NEW item \in Items, EnqueueWork(item)
    PROVE  /\ Len(Contents) < WorkLength
           /\ Contents' = Append(Contents, item)
           /\ running' = running
  <1> USE ConstantTypes
  <1> DEFINE S == Items \cup {NoItem}
  <1>1. /\ workQueue \in [0 .. WorkLength - 1 -> S] /\ item \in S
        /\ pendingItems \in 0 .. WorkLength - 1 /\ pendingItems \in 0 .. WorkLength
        /\ pendingItems' = pendingItems + 1
        /\ workHead \in 0 .. WorkLength - 1 /\ workHead' = workHead
        /\ workQueue' = WithPut(workQueue, workHead, pendingItems, WorkLength, item)
        /\ running' = running
    BY DEF EnqueueWork, WorkTypes, TailInStep, WithPut, Cell
  <1> HIDE DEF S
  <1>2. IsAppend(RingContents(workQueue', workHead', pendingItems', WorkLength),
                 RingContents(workQueue, workHead, pendingItems, WorkLength), item)
    BY <1>1, RingPut
  <1>3. ReadFrom(Contents, workQueue, workHead, pendingItems, WorkLength)
    BY <1>1, ContentsInRing, RingContentsFacts
  <1> QED  BY <1>1, <1>2, <1>3, ContentsInRing DEF ReadFrom, IsAppend

LEMMA PopGets ==
    ASSUME WorkTypes, TailInStep, WorkerPops, pendingItems # 0
    PROVE  /\ Contents # <<>>
           /\ Contents' = Tail(Contents)
           /\ running' = Head(Contents)
  <1> USE ConstantTypes
  <1> DEFINE S == Items \cup {NoItem}
  <1>1. /\ workQueue \in [0 .. WorkLength - 1 -> S]
        /\ pendingItems \in 1 .. WorkLength /\ pendingItems' = pendingItems - 1
        /\ workHead \in 0 .. WorkLength - 1
        /\ workHead' = Cell(workHead + 1, WorkLength)
        /\ workQueue' = workQueue /\ running' = workQueue[workHead]
    BY DEF WorkerPops, WorkTypes, Cell
  <1> HIDE DEF S
  <1> DEFINE old == RingContents(workQueue, workHead, pendingItems, WorkLength)
  <1>2. /\ old # <<>>
        /\ Head(old) = workQueue[workHead]
        /\ RingContents(workQueue', workHead', pendingItems', WorkLength) = Tail(old)
    BY <1>1, RingGet
  <1> HIDE DEF old
  <1>3. Contents = old
    BY ContentsInRing DEF old
  <1> QED  BY <1>1, <1>2, <1>3, ContentsInRing

(* What each step does to the queue.                                            *)
LEMMA QueueSteps ==
    ASSUME [Next]_vars
    PROVE  \/ \E item \in Items : EnqueueWork(item)
           \/ WorkerPops
           \/ UNCHANGED <<workQueue, workHead, pendingItems, running>>
  BY DEF Next, UserStep, Submit, CallStep, NotifyWorker, WorkerStep, WorkerAwaits,
         HandlerReturns, IsrStep, SubmitIsr, vars, workVars

(* The ring, with its head, tail and count, implements a bounded first-in       *)
(* first-out channel (work.c:20-38, 55-69): every step of the work queue is     *)
(* one of the channel, or leaves the channel as it is.                          *)
THEOREM WorkQueueIsFifo == Spec => WorkIsFifo
  <1>1. Init => WorkChannel!ChannelInit
    <2> SUFFICES ASSUME Init  PROVE WorkChannel!ChannelInit
      OBVIOUS
    <2>1. WorkTypes /\ pendingItems = 0 /\ running = NoItem
      BY InitHolds, TypesSplit DEF IInv, Init, WorkInit
    <2>2. Contents = <<>>
      BY <2>1 DEF Contents, WorkTypes
    <2> QED  BY <2>1, <2>2 DEF WorkChannel!ChannelInit, Contents
  <1>2. IInv /\ [Next]_vars => [WorkChannel!ChannelNext]_(WorkChannel!channel)
    <2> SUFFICES ASSUME IInv, [Next]_vars
                 PROVE  [WorkChannel!ChannelNext]_(WorkChannel!channel)
      OBVIOUS
    <2>1. WorkTypes /\ TailInStep
      BY TypesSplit DEF IInv
    <2>2. ASSUME NEW item \in Items, EnqueueWork(item)
          PROVE  WorkChannel!Put(item)
      BY <2>1, <2>2, EnqueuePuts DEF WorkChannel!Put, Contents
    <2>3. ASSUME WorkerPops, pendingItems # 0
          PROVE  WorkChannel!Get
      BY <2>1, <2>3, PopGets DEF WorkChannel!Get, Contents
    <2>4. ASSUME UNCHANGED <<workQueue, workHead, pendingItems, running>>
          PROVE  UNCHANGED WorkChannel!channel
      BY <2>4 DEF WorkChannel!channel
    <2>5. ASSUME WorkerPops, pendingItems = 0
          PROVE  UNCHANGED <<workQueue, workHead, pendingItems, running>>
      BY <2>5 DEF WorkerPops
    <2> QED
      BY <2>2, <2>3, <2>4, <2>5, QueueSteps DEF WorkChannel!ChannelNext
  <1> QED  BY <1>1, <1>2, WorkQueueInvariant, PTL DEF Spec, WorkIsFifo, WorkChannel!ChannelSpec
===============================================================================
