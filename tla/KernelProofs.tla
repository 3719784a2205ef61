------------------------------ MODULE KernelProofs ------------------------------
(* What the proofs of every object rest on: what the three operations on wait   *)
(* lists return, for lists of any length, and what the pieces of Kernel keep.   *)
EXTENDS Kernel, WellFoundedInduction, SequenceTheorems, TLAPS

(* Every non-empty set of naturals has a least element.                         *)
LEMMA LeastElement ==
    ASSUME NEW I \in SUBSET Nat, I # {}
    PROVE  \E i \in I : \A j \in I : i <= j
  <1> DEFINE R == OpToRel(<, Nat)
  <1>1. \A a, b \in Nat : <<a, b>> \in R <=> a < b
    BY DEF OpToRel
  <1>2. \E i \in I : \A j \in I : <<j, i>> \notin R
    <2> HIDE DEF R
    <2>1. IsWellFoundedOn(R, Nat)
      BY NatLessThanWellFounded DEF R
    <2> QED  BY <2>1, WFMin
  <1> HIDE DEF R
  <1>3. PICK i \in I : \A j \in I : <<j, i>> \notin R
    BY <1>2
  <1>4. \A j \in I : ~(j < i)
    BY <1>1, <1>3
  <1> QED  BY <1>4

(* FirstIndex stops at the first element of S, or past the end.                 *)
LEMMA FirstIndexFinds ==
    ASSUME NEW T, NEW q \in Seq(T), NEW S
    PROVE  /\ FirstIndex(q, S) \in 1 .. Len(q) + 1
           /\ FirstIndex(q, S) <= Len(q) => q[FirstIndex(q, S)] \in S
           /\ \A j \in 1 .. FirstIndex(q, S) - 1 : q[j] \notin S
  <1> DEFINE I == {i \in 1 .. Len(q) + 1 : i <= Len(q) => q[i] \in S}
  <1>1. Len(q) \in Nat
    BY LenProperties
  <1>2. PICK i \in I : \A j \in I : i <= j
    <2>1. Len(q) + 1 \in I
      BY <1>1
    <2>2. I \in SUBSET Nat
      BY <1>1
    <2> HIDE DEF I
    <2> QED  BY <2>1, <2>2, LeastElement
  <1>3. \A j \in 1 .. i - 1 : q[j] \notin S
    BY <1>1, <1>2
  <1>4. \E k \in 1 .. Len(q) + 1 :
           /\ k <= Len(q) => q[k] \in S
           /\ \A j \in 1 .. k - 1 : q[j] \notin S
    BY <1>2, <1>3
  <1> QED  BY <1>4 DEF FirstIndex

(* Where a task is linked, FirstIndex finds it.                                 *)
LEMMA FirstIndexOfLinked ==
    ASSUME NEW T, NEW q \in Seq(T), NEW t, Linked(q, t)
    PROVE  /\ FirstIndex(q, {t}) \in 1 .. Len(q)
           /\ q[FirstIndex(q, {t})] = t
  BY FirstIndexFinds, LenProperties DEF Linked

(* InsertAt, element by element.                                                *)
InsertedAt(p, q, i, t) ==
    /\ Len(p) = Len(q) + 1
    /\ \A j \in 1 .. Len(q) + 1 :
          p[j] = IF j < i THEN q[j] ELSE IF j = i THEN t ELSE q[j - 1]

LEMMA InsertAtProperties ==
    ASSUME NEW T, NEW q \in Seq(T), NEW t \in T, NEW i \in 1 .. Len(q) + 1
    PROVE  InsertAt(q, i, t) \in Seq(T) /\ InsertedAt(InsertAt(q, i, t), q, i, t)
  <1>1. Len(q) \in Nat
    BY LenProperties
  <1> DEFINE front == SubSeq(q, 1, i - 1)
             back  == SubSeq(q, i, Len(q))
             mid   == front \o <<t>>
  <1>2. /\ front \in Seq(T) /\ Len(front) = i - 1
        /\ \A j \in 1 .. i - 1 : front[j] = q[j]
    BY <1>1, SubSeqProperties
  <1>3. /\ back \in Seq(T) /\ Len(back) = Len(q) + 1 - i
        /\ \A j \in 1 .. Len(q) + 1 - i : back[j] = q[i + j - 1]
    BY <1>1, SubSeqProperties
  <1>4. <<t>> \in Seq(T) /\ Len(<<t>>) = 1 /\ <<t>>[1] = t
    OBVIOUS
  <1>5. /\ mid \in Seq(T) /\ Len(mid) = i
        /\ \A j \in 1 .. i : mid[j] = IF j < i THEN q[j] ELSE t
    <2> HIDE DEF front
    <2>1. /\ mid \in Seq(T) /\ Len(mid) = Len(front) + Len(<<t>>)
          /\ \A j \in 1 .. Len(front) + Len(<<t>>) :
                mid[j] = IF j <= Len(front) THEN front[j] ELSE <<t>>[j - Len(front)]
      BY <1>2, <1>4, ConcatProperties
    <2> HIDE DEF mid
    <2>2. i \in Nat /\ Len(front) = i - 1
      BY <1>1, <1>2
    <2>3. <<t>>[i - Len(front)] = t
      BY <1>4, <2>2
    <2>4. \A j \in 1 .. i : j < i \/ j = i
      BY <2>2
    <2> QED  BY <2>1, <2>2, <2>3, <2>4, <1>2, <1>4
  <1>6. InsertAt(q, i, t) = mid \o back
    BY DEF InsertAt
  <1> HIDE DEF front, back, mid
  <1>7. /\ mid \o back \in Seq(T) /\ Len(mid \o back) = Len(mid) + Len(back)
        /\ \A j \in 1 .. Len(mid) + Len(back) :
              (mid \o back)[j] = IF j <= Len(mid) THEN mid[j] ELSE back[j - Len(mid)]
    BY <1>3, <1>5, ConcatProperties
  <1>8. Len(mid) + Len(back) = Len(q) + 1
    BY <1>1, <1>3, <1>5
  <1>9. \A j \in 1 .. Len(q) + 1 :
           (mid \o back)[j] =
              IF j < i THEN q[j] ELSE IF j = i THEN t ELSE q[j - 1]
    <2> TAKE j \in 1 .. Len(q) + 1
    <2>0. j <= i \/ j > i
      BY <1>1
    <2>1. CASE j <= i
      BY <2>1, <1>1, <1>5, <1>7, <1>8
    <2>2. CASE j > i
      <3>1. (mid \o back)[j] = back[j - i]
        BY <2>2, <1>1, <1>5, <1>7, <1>8
      <3>2. j - i \in 1 .. Len(q) + 1 - i
        BY <2>2, <1>1
      <3>3. back[j - i] = q[i + (j - i) - 1]
        BY <3>2, <1>3
      <3> QED  BY <3>1, <3>3, <2>2, <1>1
    <2> QED  BY <2>0, <2>1, <2>2
  <1> QED  BY <1>6, <1>7, <1>8, <1>9 DEF InsertedAt

(* RemoveAt, element by element.                                                *)
LEMMA RemoveAtProperties ==
    ASSUME NEW T, NEW q \in Seq(T), NEW i \in 1 .. Len(q)
    PROVE  /\ RemoveAt(q, i) \in Seq(T)
           /\ Len(RemoveAt(q, i)) = Len(q) - 1
           /\ \A j \in 1 .. Len(q) - 1 :
                 RemoveAt(q, i)[j] = IF j < i THEN q[j] ELSE q[j + 1]
  <1>1. Len(q) \in Nat
    BY LenProperties
  <1> DEFINE front == SubSeq(q, 1, i - 1)
             back  == SubSeq(q, i + 1, Len(q))
  <1>2. /\ front \in Seq(T) /\ Len(front) = i - 1
        /\ \A j \in 1 .. i - 1 : front[j] = q[j]
    BY <1>1, SubSeqProperties
  <1>3. /\ back \in Seq(T) /\ Len(back) = Len(q) - i
        /\ \A j \in 1 .. Len(q) - i : back[j] = q[i + j]
    BY <1>1, SubSeqProperties
  <1>4. RemoveAt(q, i) = front \o back
    BY DEF RemoveAt
  <1> HIDE DEF front, back
  <1>5. /\ front \o back \in Seq(T) /\ Len(front \o back) = Len(front) + Len(back)
        /\ \A j \in 1 .. Len(front) + Len(back) :
              (front \o back)[j] =
                 IF j <= Len(front) THEN front[j] ELSE back[j - Len(front)]
    BY <1>2, <1>3, ConcatProperties
  <1>6. Len(front) + Len(back) = Len(q) - 1
    BY <1>1, <1>2, <1>3
  <1>7. \A j \in 1 .. Len(q) - 1 :
           (front \o back)[j] = IF j < i THEN q[j] ELSE q[j + 1]
    <2> TAKE j \in 1 .. Len(q) - 1
    <2>0. j < i \/ j >= i
      BY <1>1
    <2>1. CASE j < i
      BY <2>1, <1>1, <1>2, <1>5, <1>6
    <2>2. CASE j >= i
      <3>1. (front \o back)[j] = back[j - (i - 1)]
        BY <2>2, <1>1, <1>2, <1>5, <1>6
      <3>2. j - (i - 1) \in 1 .. Len(q) - i
        BY <2>2, <1>1
      <3>3. back[j - (i - 1)] = q[i + (j - (i - 1))]
        BY <3>2, <1>3
      <3> QED  BY <3>1, <3>3, <2>2, <1>1
    <2> QED  BY <2>0, <2>1, <2>2
  <1> QED  BY <1>4, <1>5, <1>6, <1>7
(* Inserting keeps every element, adds the new one and repeats nothing.         *)
LEMMA InsertAtLinks ==
    ASSUME NEW T, NEW q \in Seq(T), NEW t \in T, NEW i \in 1 .. Len(q) + 1
    PROVE  /\ InsertAt(q, i, t) \in Seq(T)
           /\ Len(InsertAt(q, i, t)) = Len(q) + 1
           /\ \A u : Linked(InsertAt(q, i, t), u) <=> u = t \/ Linked(q, u)
           /\ NoRepeats(q) /\ ~Linked(q, t) => NoRepeats(InsertAt(q, i, t))
  <1> DEFINE p == InsertAt(q, i, t)
  <1>1. Len(q) \in Nat
    BY LenProperties
  <1>2. i \in 1 .. Len(q) + 1
    OBVIOUS
  <1>3. p = InsertAt(q, i, t)
    OBVIOUS
  <1> HIDE DEF p
  <1>4. /\ p \in Seq(T)
        /\ Len(p) = Len(q) + 1
        /\ \A j \in 1 .. Len(q) + 1 :
              p[j] = IF j < i THEN q[j] ELSE IF j = i THEN t ELSE q[j - 1]
    <2>1. p \in Seq(T) /\ InsertedAt(p, q, i, t)
      BY <1>2, <1>3, InsertAtProperties
    <2> QED  BY <2>1 DEF InsertedAt
  <1> DEFINE n == Len(q)
             from(j) == IF j < i THEN j ELSE j - 1
  <1>a. n \in Nat /\ i \in 1 .. n + 1
    BY <1>1, <1>2
  <1>b. \A j \in 1 .. n + 1 : j # i => from(j) \in 1 .. n
    BY <1>a
  <1>c. \A j \in 1 .. n + 1 : p[j] = IF j = i THEN t ELSE q[from(j)]
    <2> TAKE j \in 1 .. n + 1
    <2>1. j < i \/ j = i \/ (j > i /\ ~(j < i) /\ j # i)
      BY <1>a
    <2> QED  BY <2>1, <1>a, <1>4
  <1>d. \A j, k \in 1 .. n + 1 : j # i /\ k # i /\ j < k => from(j) < from(k)
    BY <1>a
  <1>e. \A j \in 1 .. n + 1 : j # i => (from(j) < i <=> j < i)
    BY <1>a
  <1> HIDE DEF from
  <1>5. ASSUME NEW u PROVE Linked(p, u) <=> u = t \/ Linked(q, u)
    <2>1. ASSUME Linked(p, u) PROVE u = t \/ Linked(q, u)
      <3>1. PICK j \in 1 .. Len(q) + 1 : p[j] = u
        BY <2>1, <1>4 DEF Linked
      <3>2. CASE j = i
        BY <3>1, <3>2, <1>c
      <3>3. CASE j # i
        <4>1. from(j) \in 1 .. n /\ q[from(j)] = u
          BY <3>1, <3>3, <1>b, <1>c
        <4> QED  BY <4>1 DEF Linked
      <3> QED  BY <3>2, <3>3
    <2>2. Linked(p, t)
      <3>1. i \in 1 .. Len(p) /\ p[i] = t
        BY <1>1, <1>2, <1>4
      <3> QED  BY <3>1 DEF Linked
    <2>3. ASSUME Linked(q, u) PROVE Linked(p, u)
      <3>1. PICK j \in 1 .. Len(q) : q[j] = u
        BY <2>3 DEF Linked
      <3>2. CASE j < i
        <4>1. j \in 1 .. Len(p) /\ p[j] = u
          BY <3>1, <3>2, <1>1, <1>2, <1>4
        <4> QED  BY <4>1 DEF Linked
      <3>3. CASE j >= i
        <4>1. j + 1 \in 1 .. Len(p) /\ p[j + 1] = u
          BY <3>1, <3>3, <1>1, <1>2, <1>4
        <4> QED  BY <4>1 DEF Linked
      <3>4. j < i \/ j >= i
        BY <1>1, <1>2
      <3> QED  BY <3>2, <3>3, <3>4
    <2> QED  BY <2>1, <2>2, <2>3
  <1>6. ASSUME NoRepeats(q), ~Linked(q, t) PROVE NoRepeats(p)
    <2>1. \A j \in 1 .. Len(q) : q[j] # t
      BY <1>6 DEF Linked
    <2>2. \A j, k \in 1 .. Len(q) : q[j] = q[k] => j = k
      BY <1>6 DEF NoRepeats
    <2>3. ASSUME NEW j \in 1 .. n + 1, NEW k \in 1 .. n + 1, j < k, p[j] = p[k]
          PROVE  FALSE
      <3>1. CASE j # i /\ k # i
        <4>1. from(j) \in 1 .. n /\ from(k) \in 1 .. n /\ from(j) < from(k)
          BY <3>1, <2>3, <1>b, <1>d
        <4>2. q[from(j)] = q[from(k)]
          BY <3>1, <2>3, <1>c
        <4>3. from(j) = from(k)
          BY <4>1, <4>2, <2>2
        <4> QED  BY <4>1, <4>3, <1>a
      <3>2. CASE j = i
        <4>1. k # i /\ p[j] = t
          BY <3>2, <2>3, <1>a, <1>c
        <4> QED  BY <4>1, <2>1, <2>3, <1>b, <1>c
      <3>3. CASE k = i
        <4>1. j # i /\ p[k] = t
          BY <3>3, <2>3, <1>a, <1>c
        <4> QED  BY <4>1, <2>1, <2>3, <1>b, <1>c
      <3> QED  BY <3>1, <3>2, <3>3
    <2>4. ASSUME NEW j \in 1 .. Len(q) + 1, NEW k \in 1 .. Len(q) + 1, p[j] = p[k]
          PROVE  j = k
      <3>1. j < k \/ k < j \/ j = k
        BY <1>1
      <3> QED  BY <3>1, <2>3, <2>4
    <2> QED  BY <2>4, <1>4 DEF NoRepeats
  <1> QED  BY <1>4, <1>5, <1>6, <1>3
-------------------------------------------------------------------------------
(* wait_push links the task, keeps every other one, links nothing twice and     *)
(* keeps the list in order of priority.                                         *)
THEOREM WaitPushCorrect ==
    ASSUME NEW D, NEW T \in SUBSET D, NEW q \in Seq(T), NEW t \in T,
           NEW prio \in [D -> Nat]
    PROVE  /\ WaitPush(q, t, prio) \in Seq(T)
           /\ \A u : Linked(WaitPush(q, t, prio), u) <=> u = t \/ Linked(q, u)
           /\ NoRepeats(q) /\ ~Linked(q, t) => NoRepeats(WaitPush(q, t, prio))
           /\ Sorted(q, prio) => Sorted(WaitPush(q, t, prio), prio)
  <1> DEFINE i == FirstIndex(q, LessUrgent(t, prio))
             p == WaitPush(q, t, prio)
  <1>1. Len(q) \in Nat /\ \A j \in 1 .. Len(q) : q[j] \in T
    BY LenProperties, ElementOfSeq
  <1>2. /\ i \in 1 .. Len(q) + 1
        /\ i <= Len(q) => prio[q[i]] < prio[t]
        /\ \A j \in 1 .. i - 1 : prio[q[j]] >= prio[t]
    <2>1. /\ i \in 1 .. Len(q) + 1
          /\ i <= Len(q) => q[i] \in LessUrgent(t, prio)
          /\ \A j \in 1 .. i - 1 : q[j] \notin LessUrgent(t, prio)
      BY FirstIndexFinds
    <2> HIDE DEF i
    <2>2. \A u \in T : u \in LessUrgent(t, prio) <=> prio[u] < prio[t]
      BY DEF LessUrgent
    <2>3. \A u \in T : prio[u] \in Nat
      OBVIOUS
    <2>4. \A j \in 1 .. i - 1 : q[j] \in T
      BY <1>1, <2>1
    <2>5. \A j \in 1 .. i - 1 : prio[q[j]] >= prio[t]
      BY <2>1, <2>2, <2>3, <2>4
    <2>6. i <= Len(q) => prio[q[i]] < prio[t]
      BY <1>1, <2>1, <2>2
    <2> QED  BY <2>1, <2>5, <2>6
  <1>3. p = InsertAt(q, i, t)
    BY DEF WaitPush
  <1> HIDE DEF i, p
  <1>4. /\ p \in Seq(T)
        /\ Len(p) = Len(q) + 1
        /\ \A j \in 1 .. Len(q) + 1 :
              p[j] = IF j < i THEN q[j] ELSE IF j = i THEN t ELSE q[j - 1]
    <2>1. p \in Seq(T) /\ InsertedAt(p, q, i, t)
      BY <1>2, <1>3, InsertAtProperties
    <2> QED  BY <2>1 DEF InsertedAt
  <1> DEFINE n == Len(q)
             from(j) == IF j < i THEN j ELSE j - 1
  <1>a. n \in Nat /\ i \in 1 .. n + 1
    BY <1>1, <1>2
  <1>b. \A j \in 1 .. n + 1 : j # i => from(j) \in 1 .. n
    BY <1>a
  <1>c. \A j \in 1 .. n + 1 : p[j] = IF j = i THEN t ELSE q[from(j)]
    <2> TAKE j \in 1 .. n + 1
    <2>1. j < i \/ j = i \/ (j > i /\ ~(j < i) /\ j # i)
      BY <1>a
    <2> QED  BY <2>1, <1>a, <1>4
  <1>d. \A j, k \in 1 .. n + 1 : j # i /\ k # i /\ j < k => from(j) < from(k)
    BY <1>a
  <1>e. \A j \in 1 .. n + 1 : j # i => (from(j) < i <=> j < i)
    BY <1>a
  <1> HIDE DEF from
  <1>5. /\ \A u : Linked(p, u) <=> u = t \/ Linked(q, u)
        /\ NoRepeats(q) /\ ~Linked(q, t) => NoRepeats(p)
    BY <1>2, <1>3, InsertAtLinks
  <1>6. ASSUME Sorted(q, prio) PROVE Sorted(p, prio)
    <2>1. \A j, k \in 1 .. Len(q) : j <= k => prio[q[k]] <= prio[q[j]]
      BY <1>6 DEF Sorted
    <2>2. /\ prio[t] \in Nat
          /\ \A j \in 1 .. Len(q) : prio[q[j]] \in Nat
      BY <1>1
    <2>3. \A k \in 1 .. Len(q) : k >= i => prio[q[k]] <= prio[t]
      <3> TAKE k \in 1 .. Len(q)
      <3> HAVE k >= i
      <3>1. i \in 1 .. Len(q)
        BY <1>1, <1>2
      <3>2. prio[q[k]] <= prio[q[i]] /\ prio[q[i]] < prio[t]
        BY <3>1, <2>1, <1>2
      <3> QED  BY <3>1, <3>2, <2>2
    <2>4. ASSUME NEW j \in 1 .. n + 1, NEW k \in 1 .. n + 1, j < k
          PROVE  prio[p[k]] <= prio[p[j]]
      <3>1. CASE j # i /\ k # i
        <4>1. /\ from(j) \in 1 .. n /\ from(k) \in 1 .. n /\ from(j) <= from(k)
              /\ p[j] = q[from(j)] /\ p[k] = q[from(k)]
          BY <3>1, <2>4, <1>a, <1>b, <1>c, <1>d
        <4> QED  BY <4>1, <2>1
      <3>2. CASE j = i
        <4>1. /\ k # i /\ from(k) \in 1 .. n /\ from(k) >= i
              /\ p[j] = t /\ p[k] = q[from(k)]
          BY <3>2, <2>4, <1>a, <1>b, <1>c, <1>e
        <4> QED  BY <4>1, <2>3
      <3>3. CASE k = i
        <4>1. /\ j # i /\ from(j) \in 1 .. n /\ from(j) \in 1 .. i - 1
              /\ p[k] = t /\ p[j] = q[from(j)]
          BY <3>3, <2>4, <1>a, <1>b, <1>c, <1>e
        <4> QED  BY <4>1, <1>2, <2>2
      <3> QED  BY <3>1, <3>2, <3>3
    <2>5. \A j \in 1 .. Len(q) + 1 : prio[p[j]] \in Nat
      BY <1>1, <1>4, ElementOfSeq
    <2>6. ASSUME NEW j \in 1 .. Len(q) + 1, NEW k \in 1 .. Len(q) + 1, j <= k
          PROVE  prio[p[k]] <= prio[p[j]]
      <3>1. j < k \/ j = k
        BY <1>1, <2>6
      <3>2. CASE j = k
        BY <3>2, <2>5
      <3> QED  BY <3>1, <3>2, <2>4
    <2> QED  BY <2>6, <1>4 DEF Sorted
  <1> QED  BY <1>4, <1>5, <1>6 DEF p
-------------------------------------------------------------------------------
(* wait_pop takes the first task still waiting, which is the most urgent one of *)
(* a list in order; no task still waiting behind it is lost, what is left is in *)
(* order, and if it takes nothing then nobody in the list is still waiting.     *)
THEOREM WaitPopCorrect ==
    ASSUME NEW T, NEW q \in Seq(T), NEW W, NEW prio
    PROVE  LET i == FirstIndex(q, W)
               r == WaitPop(q, W)
           IN  /\ r \in Seq(T)
               /\ \A u : Linked(r, u) => Linked(q, u)
               /\ NoRepeats(q) => NoRepeats(r)
               /\ Sorted(q, prio) => Sorted(r, prio)
               /\ i <= Len(q) =>
                     /\ Linked(q, q[i]) /\ q[i] \in W /\ q[i] \in T
                     /\ \A u \in W : Linked(q, u) => u = q[i] \/ Linked(r, u)
                     /\ NoRepeats(q) => ~Linked(r, q[i])
                     /\ Sorted(q, prio) =>
                           \A u \in W : Linked(q, u) => prio[u] <= prio[q[i]]
               /\ i > Len(q) => r = <<>> /\ \A u \in W : ~Linked(q, u)
  <1> DEFINE i == FirstIndex(q, W)
             r == WaitPop(q, W)
             n == Len(q)
  <1>1. n \in Nat /\ \A j \in 1 .. n : q[j] \in T
    BY LenProperties, ElementOfSeq
  <1>2. /\ i \in 1 .. n + 1
        /\ i <= n => q[i] \in W
        /\ \A j \in 1 .. i - 1 : q[j] \notin W
    BY FirstIndexFinds
  <1>3. r = SubSeq(q, i + 1, n)
    BY DEF WaitPop
  <1> HIDE DEF i, r
  <1>4. CASE i = n + 1
    <2>1. r = <<>>
      BY <1>1, <1>3, <1>4, SubSeqEmpty
    <2>2. Len(r) = 0 /\ r \in Seq(T)
      BY <2>1, EmptySeq
    <2>3. \A u \in W : ~Linked(q, u)
      BY <1>1, <1>2, <1>4 DEF Linked
    <2>4. \A u : ~Linked(r, u)
      BY <2>2 DEF Linked
    <2>5. NoRepeats(r) /\ Sorted(r, prio)
      BY <2>2 DEF NoRepeats, Sorted
    <2>6. ~(i <= n)
      BY <1>1, <1>4
    <2> QED  BY <2>1, <2>2, <2>3, <2>4, <2>5, <2>6 DEF i, r
  <1>5. CASE i \in 1 .. n
    <2>1. /\ r \in Seq(T) /\ Len(r) = n - i
          /\ \A j \in 1 .. n - i : r[j] = q[i + j]
      <3>1. /\ SubSeq(q, i + 1, n) \in Seq(T)
            /\ Len(SubSeq(q, i + 1, n)) = n - (i + 1) + 1
            /\ \A j \in 1 .. n - (i + 1) + 1 :
                  SubSeq(q, i + 1, n)[j] = q[(i + 1) + j - 1]
        BY <1>1, <1>5, SubSeqProperties
      <3>2. n - (i + 1) + 1 = n - i /\ \A j \in 1 .. n - i : (i + 1) + j - 1 = i + j
        BY <1>1, <1>5
      <3> QED  BY <3>1, <3>2, <1>3
    <2>2. \A j \in 1 .. n - i : i + j \in 1 .. n
      BY <1>1, <1>5
    <2>3. ASSUME NEW u, Linked(r, u) PROVE Linked(q, u)
      BY <2>1, <2>2, <2>3 DEF Linked
    <2>4. ASSUME NoRepeats(q) PROVE NoRepeats(r)
      <3>1. \A j, k \in 1 .. n : q[j] = q[k] => j = k
        BY <2>4 DEF NoRepeats
      <3>2. ASSUME NEW j \in 1 .. n - i, NEW k \in 1 .. n - i, r[j] = r[k] PROVE j = k
        <4>1. i + j = i + k
          BY <3>1, <3>2, <2>1, <2>2
        <4> QED  BY <4>1, <1>1, <1>5
      <3> QED  BY <3>2, <2>1 DEF NoRepeats
    <2>5. ASSUME Sorted(q, prio) PROVE Sorted(r, prio)
      <3>1. \A j, k \in 1 .. n : j <= k => prio[q[k]] <= prio[q[j]]
        BY <2>5 DEF Sorted
      <3>2. ASSUME NEW j \in 1 .. n - i, NEW k \in 1 .. n - i, j <= k
            PROVE  prio[r[k]] <= prio[r[j]]
        <4>1. i + j <= i + k
          BY <3>2, <1>1, <1>5
        <4> QED  BY <4>1, <3>1, <2>1, <2>2
      <3> QED  BY <3>2, <2>1 DEF Sorted
    <2>6. Linked(q, q[i]) /\ q[i] \in W /\ q[i] \in T
      BY <1>1, <1>2, <1>5 DEF Linked
    <2>7. ASSUME NEW u \in W, NEW k \in 1 .. n, q[k] = u
          PROVE  k >= i
      BY <2>7, <1>1, <1>2, <1>5
    <2>8. ASSUME NEW u \in W, Linked(q, u), u # q[i] PROVE Linked(r, u)
      <3>1. PICK k \in 1 .. n : q[k] = u
        BY <2>8 DEF Linked
      <3>2. k # i /\ k >= i
        BY <3>1, <2>7, <2>8
      <3>3. k - i \in 1 .. n - i /\ i + (k - i) = k
        BY <3>2, <1>1, <1>5
      <3>4. r[k - i] = u
        BY <3>1, <3>3, <2>1
      <3> QED  BY <3>3, <3>4, <2>1 DEF Linked
    <2>9. ASSUME NoRepeats(q), Linked(r, q[i]) PROVE FALSE
      <3>1. PICK j \in 1 .. n - i : r[j] = q[i]
        BY <2>9, <2>1 DEF Linked
      <3>2. q[i + j] = q[i] /\ i + j \in 1 .. n
        BY <3>1, <2>1, <2>2
      <3>3. i + j = i
        BY <3>2, <2>9, <1>5 DEF NoRepeats
      <3> QED  BY <3>3, <1>1, <1>5
    <2>10. ASSUME Sorted(q, prio), NEW u \in W, Linked(q, u)
           PROVE  prio[u] <= prio[q[i]]
      <3>1. PICK k \in 1 .. n : q[k] = u
        BY <2>10 DEF Linked
      <3>2. i <= k
        BY <3>1, <2>7, <1>1, <1>5
      <3> QED  BY <3>1, <3>2, <2>10, <1>5 DEF Sorted
    <2>11. ~(i > n)
      BY <1>1, <1>5
    <2> QED
      BY <2>1, <2>3, <2>4, <2>5, <2>6, <2>8, <2>9, <2>10, <2>11 DEF i, r
  <1>6. i = n + 1 \/ i \in 1 .. n
    BY <1>1, <1>2
  <1> QED  BY <1>4, <1>5, <1>6

(* wait_remove unlinks the task and no other.                                   *)
THEOREM WaitRemoveCorrect ==
    ASSUME NEW T, NEW q \in Seq(T), NEW t, NEW prio, NoRepeats(q)
    PROVE  /\ WaitRemove(q, t) \in Seq(T)
           /\ \A u : Linked(WaitRemove(q, t), u) <=> Linked(q, u) /\ u # t
           /\ NoRepeats(WaitRemove(q, t))
           /\ Sorted(q, prio) => Sorted(WaitRemove(q, t), prio)
  <1> DEFINE i == FirstIndex(q, {t})
             r == WaitRemove(q, t)
             n == Len(q)
  <1>1. n \in Nat
    BY LenProperties
  <1>2. /\ i \in 1 .. n + 1
        /\ i <= n => q[i] = t
        /\ \A j \in 1 .. i - 1 : q[j] # t
    BY FirstIndexFinds
  <1>3. r = IF i <= n THEN RemoveAt(q, i) ELSE q
    BY DEF WaitRemove
  <1> HIDE DEF i, r
  <1>4. CASE i = n + 1
    <2>1. r = q /\ ~Linked(q, t)
      BY <1>1, <1>2, <1>3, <1>4 DEF Linked
    <2> QED  BY <2>1 DEF r
  <1>5. CASE i \in 1 .. n
    <2> DEFINE from(j) == IF j < i THEN j ELSE j + 1
    <2>1. r = RemoveAt(q, i)
      BY <1>1, <1>3, <1>5
    <2>2. /\ RemoveAt(q, i) \in Seq(T) /\ Len(RemoveAt(q, i)) = n - 1
          /\ \A j \in 1 .. n - 1 :
                RemoveAt(q, i)[j] = IF j < i THEN q[j] ELSE q[j + 1]
      BY <1>5, RemoveAtProperties
    <2>3. r \in Seq(T) /\ Len(r) = n - 1 /\ \A j \in 1 .. n - 1 : r[j] = q[from(j)]
      BY <2>1, <2>2
    <2>4. \A j \in 1 .. n - 1 : from(j) \in 1 .. n /\ from(j) # i
      BY <1>1, <1>5
    <2>5. \A j, k \in 1 .. n - 1 : j < k => from(j) < from(k)
      BY <1>1, <1>5
    <2>6. \A k \in 1 .. n : k # i => \E j \in 1 .. n - 1 : from(j) = k
      <3> TAKE k \in 1 .. n
      <3> HAVE k # i
      <3>1. CASE k < i
        <4>1. k \in 1 .. n - 1 /\ from(k) = k
          BY <3>1, <1>1, <1>5
        <4> QED  BY <4>1
      <3>2. CASE k > i
        <4>1. k - 1 \in 1 .. n - 1 /\ from(k - 1) = k
          BY <3>2, <1>1, <1>5
        <4> QED  BY <4>1
      <3>3. k < i \/ k > i
        BY <1>1, <1>5
      <3> QED  BY <3>1, <3>2, <3>3
    <2> HIDE DEF from
    <2>7. q[i] = t
      BY <1>1, <1>2, <1>5
    <2>8. \A j, k \in 1 .. n : q[j] = q[k] => j = k
      BY DEF NoRepeats
    <2>9. ASSUME NEW u PROVE Linked(r, u) <=> Linked(q, u) /\ u # t
      <3>1. ASSUME Linked(r, u) PROVE Linked(q, u) /\ u # t
        <4>1. PICK j \in 1 .. n - 1 : r[j] = u
          BY <3>1, <2>3 DEF Linked
        <4>2. q[from(j)] = u /\ from(j) \in 1 .. n /\ from(j) # i
          BY <4>1, <2>3, <2>4
        <4>3. u # t
          BY <4>2, <1>5, <2>7, <2>8
        <4> QED  BY <4>2, <4>3 DEF Linked
      <3>2. ASSUME Linked(q, u), u # t PROVE Linked(r, u)
        <4>1. PICK k \in 1 .. n : q[k] = u
          BY <3>2 DEF Linked
        <4>2. k # i
          BY <4>1, <3>2, <2>7
        <4>3. PICK j \in 1 .. n - 1 : from(j) = k
          BY <4>2, <2>6
        <4>4. r[j] = u
          BY <4>1, <4>3, <2>3
        <4> QED  BY <4>4, <2>3 DEF Linked
      <3> QED  BY <3>1, <3>2
    <2>10. NoRepeats(r)
      <3>1. ASSUME NEW j \in 1 .. n - 1, NEW k \in 1 .. n - 1, j < k PROVE r[j] # r[k]
        <4>1. from(j) \in 1 .. n /\ from(k) \in 1 .. n /\ from(j) # from(k)
          BY <3>1, <2>4, <2>5, <1>1
        <4> QED  BY <4>1, <2>3, <2>8
      <3>2. ASSUME NEW j \in 1 .. n - 1, NEW k \in 1 .. n - 1, r[j] = r[k] PROVE j = k
        <4>1. j < k \/ k < j \/ j = k
          BY <1>1
        <4> QED  BY <4>1, <3>1, <3>2
      <3> QED  BY <3>2, <2>3 DEF NoRepeats
    <2>11. ASSUME Sorted(q, prio) PROVE Sorted(r, prio)
      <3>1. ASSUME NEW j \in 1 .. n - 1, NEW k \in 1 .. n - 1, j <= k
            PROVE  prio[r[k]] <= prio[r[j]]
        <4>1. from(j) \in 1 .. n /\ from(k) \in 1 .. n
          BY <2>4
        <4>2. j < k \/ j = k
          BY <3>1, <1>1
        <4>3. from(j) <= from(k)
          BY <4>1, <4>2, <2>5, <1>1
        <4> QED  BY <4>1, <4>3, <2>3, <2>11 DEF Sorted
      <3> QED  BY <3>1, <2>3 DEF Sorted
    <2> QED  BY <2>3, <2>9, <2>10, <2>11 DEF r
  <1>6. i = n + 1 \/ i \in 1 .. n
    BY <1>1, <1>2
  <1> QED  BY <1>4, <1>5, <1>6
-------------------------------------------------------------------------------
LEMMA ConstantsLemma ==
    /\ MaxTasks \in Nat /\ AppTasks \in Nat /\ 1 <= AppTasks /\ AppTasks < MaxTasks
    /\ Idle \in Slots /\ 1 \in Slots /\ Idle # 1
    /\ WordMod \in Nat /\ TickHz \in Nat
  BY SlotsAssumption, WordAssumption DEF Slots, Idle

(* A timeout is a natural number of ticks.                                      *)
LEMMA MsToTicksType == \A ms \in Nat : MsToTicks(ms) \in Nat
  <1> TAKE ms \in Nat
  <1>1. ms * TickHz \in Nat /\ WordMod \in Nat \ {0}
    BY WordAssumption
  <1> DEFINE total == (ms * TickHz) + 999
  <1>2. total \in Nat
    BY <1>1
  <1> HIDE DEF total
  <1>3. total % WordMod \in Nat
    BY <1>1, <1>2
  <1>4. (total % WordMod) \div 1000 \in Nat
    BY <1>3
  <1> QED  BY <1>4 DEF MsToTicks, total

(* The run list that rtos_start() finds: every task created so far, once.       *)
LEMMA InitialRing ==
    ASSUME KernelInit
    PROVE  /\ ring \in Seq(Slots) /\ Len(ring) = Idle
           /\ \A i \in 1 .. Idle : ring[i] = IF i = 1 THEN 1 ELSE Idle + 2 - i
  <1> USE ConstantsLemma
  <1>1. \A i \in 1 .. Idle : (IF i = 1 THEN 1 ELSE Idle + 2 - i) \in Slots
    BY DEF Slots, Idle
  <1>2. ring \in [1 .. Idle -> Slots]
    BY <1>1 DEF KernelInit
  <1>3. Idle \in Nat
    BY DEF Idle
  <1>4. ring \in Seq(Slots)
    BY <1>2, <1>3, SeqDef
  <1>5. Len(ring) = Idle
    BY <1>2, <1>3, <1>4, LenProperties
  <1> QED  BY <1>4, <1>5 DEF KernelInit
-------------------------------------------------------------------------------
(* The scan starting behind position p meets every position.                    *)
LEMMA ScanMeetsAll ==
    ASSUME NEW n \in Nat, NEW p \in 1 .. n, NEW k \in 1 .. n
    PROVE  \E j \in 1 .. n : ((p + j - 1) % n) + 1 = k
  <1>1. CASE k > p
    <2>1. k - p \in 1 .. n /\ p + (k - p) - 1 = k - 1
      BY <1>1
    <2>2. (k - 1) % n = k - 1
      OBVIOUS
    <2>3. ((p + (k - p) - 1) % n) + 1 = k
      BY <2>1, <2>2
    <2> QED  BY <2>1, <2>3
  <1>2. CASE k <= p
    <2>1. k - p + n \in 1 .. n /\ p + (k - p + n) - 1 = (k - 1) + n
      BY <1>2
    <2>2. ((k - 1) + n) % n = k - 1
      OBVIOUS
    <2>3. ((p + (k - p + n) - 1) % n) + 1 = k
      BY <2>1, <2>2
    <2> QED  BY <2>1, <2>3
  <1> QED  BY <1>1, <1>2

(* The scan meets every task of a list that holds them all, and so the task it  *)
(* keeps is ready, and no ready task has a greater priority.                    *)
RingHasAll == \A t \in Tasks : \E i \in 1 .. TaskCount : ring[i] = t

LEMMA ScanIsComplete ==
    ASSUME TaskCount \in Nat, RingHasAll, current \in Tasks, NEW t \in Tasks
    PROVE  \E j \in 1 .. TaskCount : ScanOrder[j] = t
  <1>1. PICK k \in 1 .. TaskCount : ring[k] = t
    BY DEF RingHasAll
  <1>2. RingPosition(current) \in 1 .. TaskCount
    BY DEF RingHasAll, RingPosition
  <1>3. PICK j \in 1 .. TaskCount : ((RingPosition(current) + j - 1) % TaskCount) + 1 = k
    BY <1>2, ScanMeetsAll
  <1>4. ScanOrder[j] = ring[((RingPosition(current) + j - 1) % TaskCount) + 1]
    BY DEF ScanOrder
  <1> QED  BY <1>1, <1>3, <1>4

LEMMA ScanKeepsMostUrgent ==
    ASSUME TaskCount \in Nat, RingHasAll, current \in Tasks, Tasks \subseteq Slots,
           priority \in [Slots -> Nat], NEW best \in Tasks, ScanKeeps(best)
    PROVE  /\ Released[best] = "READY"
           /\ \A t \in Tasks : Released[t] = "READY" => priority[t] <= priority[best]
  <1>1. Released[best] = "READY"
    BY DEF ScanKeeps
  <1>2. ASSUME NEW t \in Tasks, Released[t] = "READY"
        PROVE  priority[t] <= priority[best]
    <2>1. PICK j \in 1 .. TaskCount : ScanOrder[j] = t
      BY ScanIsComplete
    <2>2. priority[t] < priority[best] \/ priority[t] = priority[best]
      BY <1>2, <2>1 DEF ScanKeeps
    <2>3. priority[t] \in Nat /\ priority[best] \in Nat
      OBVIOUS
    <2> QED  BY <2>2, <2>3
  <1> QED  BY <1>1, <1>2

(* The list rtos_start() finds is such a list.                                  *)
LEMMA InitialRingHasAll ==
    ASSUME KernelInit
    PROVE  RingHasAll
  <1> USE ConstantsLemma
  <1>1. /\ Len(ring) = Idle
        /\ \A i \in 1 .. Idle : ring[i] = IF i = 1 THEN 1 ELSE Idle + 2 - i
    BY InitialRing
  <1>2. \A t \in 1 .. Idle : \E i \in 1 .. Idle : ring[i] = t
    <2> TAKE t \in 1 .. Idle
    <2>1. CASE t = 1
      BY <1>1, <2>1 DEF Idle
    <2>2. CASE t # 1
      <3>1. Idle + 2 - t \in 1 .. Idle /\ Idle + 2 - t # 1
        BY <2>2 DEF Idle
      <3>2. ring[Idle + 2 - t] = Idle + 2 - (Idle + 2 - t)
        BY <1>1, <3>1
      <3>3. Idle + 2 - (Idle + 2 - t) = t
        BY DEF Idle
      <3> QED  BY <3>1, <3>2, <3>3
    <2> QED  BY <2>1, <2>2
  <1>3. TaskCount = Idle /\ Tasks = 1 .. Idle
    BY <1>1 DEF Tasks, TaskCount
  <1> QED  BY <1>2, <1>3 DEF RingHasAll

-------------------------------------------------------------------------------
(* The objects create no task after the start: the run list stays as it is.     *)
RingIsWhole == TaskCount = Idle

LEMMA TaskFacts ==
    ASSUME RingIsWhole
    PROVE  /\ Tasks = 1 .. Idle /\ Tasks \subseteq Slots
           /\ 1 .. AppTasks \subseteq Tasks /\ Idle \in Tasks
           /\ \A t \in Tasks : t \in 1 .. AppTasks \/ t = Idle
           /\ Idle \notin 1 .. AppTasks
  BY ConstantsLemma DEF RingIsWhole, Tasks, Slots, Idle

LEMMA TasksHold ==
    ASSUME ring' = ring
    PROVE  Tasks' = Tasks /\ (RingIsWhole' <=> RingIsWhole)
  BY DEF Tasks, TaskCount, RingIsWhole

(* What the three list operations do to a list of tasks, in the form in which   *)
(* the proofs about the objects use it: who is linked afterwards.               *)
Pushed(p, q, t) ==
    /\ p \in Seq(Tasks) /\ NoRepeats(p)
    /\ \A u \in Tasks : Linked(p, u) <=> u = t \/ Linked(q, u)
Chosen(q) == q[FirstIndex(q, Waiting)]
Popped(r, q) ==
    /\ r \in Seq(Tasks) /\ NoRepeats(r)
    /\ \A u \in Tasks : Linked(r, u) => Linked(q, u)
    /\ \A u \in Tasks : Linked(q, u) /\ StillWaiting(u) =>
          ~NobodyWaits(q) /\ (u = Chosen(q) \/ Linked(r, u))
    /\ ~NobodyWaits(q) => ~Linked(r, Chosen(q))
Removed(r, q, t) ==
    /\ r \in Seq(Tasks) /\ NoRepeats(r)
    /\ \A u \in Tasks : Linked(r, u) <=> Linked(q, u) /\ u # t
MostUrgent(q, prio) ==
    ~NobodyWaits(q) =>
        \A u \in Tasks : Linked(q, u) /\ StillWaiting(u) => prio[u] <= prio[Chosen(q)]

LEMMA PushLinks ==
    ASSUME RingIsWhole, NEW q \in Seq(Tasks), NEW t \in Tasks, NEW prio \in [Slots -> Nat],
           NoRepeats(q), ~Linked(q, t)
    PROVE  /\ Pushed(WaitPush(q, t, prio), q, t)
           /\ Sorted(q, prio) => Sorted(WaitPush(q, t, prio), prio)
  <1>1. Tasks \in SUBSET Slots
    BY TaskFacts
  <1>2. /\ WaitPush(q, t, prio) \in Seq(Tasks)
        /\ \A u : Linked(WaitPush(q, t, prio), u) <=> u = t \/ Linked(q, u)
        /\ NoRepeats(q) /\ ~Linked(q, t) => NoRepeats(WaitPush(q, t, prio))
        /\ Sorted(q, prio) => Sorted(WaitPush(q, t, prio), prio)
    BY <1>1, WaitPushCorrect
  <1> QED  BY <1>2 DEF Pushed

(* Wherever it is put, it is linked.                                            *)
LEMMA PushLinksAny ==
    ASSUME RingIsWhole, NEW q \in Seq(Tasks), NEW t \in Tasks, NEW prio,
           NoRepeats(q), ~Linked(q, t)
    PROVE  Pushed(WaitPush(q, t, prio), q, t)
  <1>1. FirstIndex(q, LessUrgent(t, prio)) \in 1 .. Len(q) + 1
    BY FirstIndexFinds
  <1>2. /\ WaitPush(q, t, prio) \in Seq(Tasks) /\ NoRepeats(WaitPush(q, t, prio))
        /\ \A u : Linked(WaitPush(q, t, prio), u) <=> u = t \/ Linked(q, u)
    BY <1>1, InsertAtLinks DEF WaitPush
  <1> QED  BY <1>2 DEF Pushed

LEMMA PopLinks ==
    ASSUME NEW q \in Seq(Tasks), NoRepeats(q)
    PROVE  Popped(WaitPop(q, Waiting), q)
  <1> DEFINE i == FirstIndex(q, Waiting)
             r == WaitPop(q, Waiting)
  <1>1. Len(q) \in Nat /\ i \in 1 .. Len(q) + 1
    BY FirstIndexFinds, LenProperties
  <1>2. /\ r \in Seq(Tasks) /\ NoRepeats(r)
        /\ \A u : Linked(r, u) => Linked(q, u)
        /\ i <= Len(q) =>
              /\ \A u \in Waiting : Linked(q, u) => u = q[i] \/ Linked(r, u)
              /\ ~Linked(r, q[i])
        /\ i > Len(q) => \A u \in Waiting : ~Linked(q, u)
    BY WaitPopCorrect
  <1> HIDE DEF r
  <1>3. /\ Chosen(q) = q[i]
        /\ NobodyWaits(q) <=> i > Len(q)
    BY DEF Chosen, NobodyWaits
  <1> HIDE DEF i
  <1>4. i <= Len(q) \/ i > Len(q)
    BY <1>1
  <1>5. Popped(r, q)
    BY <1>1, <1>2, <1>3, <1>4 DEF Popped, Waiting
  <1> QED  BY <1>5 DEF r

(* In a list in order the chosen waiter is the most urgent one.                 *)
LEMMA PopServes ==
    ASSUME NEW q \in Seq(Tasks), NEW prio
    PROVE  /\ Sorted(q, prio) => Sorted(WaitPop(q, Waiting), prio)
           /\ Sorted(q, prio) => MostUrgent(q, prio)
  <1>1. Len(q) \in Nat /\ FirstIndex(q, Waiting) \in 1 .. Len(q) + 1
    BY FirstIndexFinds, LenProperties
  <1>2. /\ Sorted(q, prio) => Sorted(WaitPop(q, Waiting), prio)
        /\ FirstIndex(q, Waiting) <= Len(q) /\ Sorted(q, prio) =>
              \A u \in Waiting : Linked(q, u) => prio[u] <= prio[q[FirstIndex(q, Waiting)]]
    BY WaitPopCorrect
  <1> QED  BY <1>1, <1>2 DEF MostUrgent, Chosen, NobodyWaits, Waiting

LEMMA RemoveUnlinks ==
    ASSUME NEW q \in Seq(Tasks), NEW t, NEW prio, NoRepeats(q)
    PROVE  /\ Removed(WaitRemove(q, t), q, t)
           /\ Sorted(q, prio) => Sorted(WaitRemove(q, t), prio)
  <1>1. /\ WaitRemove(q, t) \in Seq(Tasks)
        /\ \A u : Linked(WaitRemove(q, t), u) <=> Linked(q, u) /\ u # t
        /\ NoRepeats(WaitRemove(q, t))
        /\ Sorted(q, prio) => Sorted(WaitRemove(q, t), prio)
    BY WaitRemoveCorrect
  <1> QED  BY <1>1 DEF Removed

KernelTypes ==
    /\ current \in Tasks /\ pendsv \in BOOLEAN
    /\ state \in [Slots -> States] /\ delay \in [Slots -> Nat]
    /\ waitType \in [Slots -> WaitTypes] /\ waitResult \in [Slots -> Results]
    /\ pc \in [Slots -> PCs]

LEMMA KernelKeepsTypes ==
    ASSUME KernelTypes, RingIsWhole, KernelStep
    PROVE  KernelTypes'
  <1> USE TaskFacts
  <1>2. ring' = ring
    BY DEF KernelStep, Tick, PendSV, Deferred, Dispatched, Yield, ringVars
  <1>3. Tasks' = Tasks
    BY <1>2, TasksHold
  <1>4. CASE Tick
    <2>1. state' \in [Slots -> States] /\ waitResult' \in [Slots -> Results]
      BY <1>4 DEF Tick, TaskTick, KernelTypes, States, Results
    <2>2. ASSUME NEW t \in Slots
          PROVE  (IF Counting(t) THEN delay[t] - 1 ELSE delay[t]) \in Nat
      BY DEF Counting, KernelTypes
    <2>3. delay' \in [Slots -> Nat]
      BY <1>4, <2>2 DEF Tick, TaskTick
    <2>4. UNCHANGED <<current, waitType, pc>> /\ pendsv' = TRUE
      BY <1>4 DEF Tick
    <2> QED  BY <1>3, <2>1, <2>3, <2>4 DEF KernelTypes
  <1>5. CASE PendSV
    <2>1. Released \in [Slots -> States]
      BY DEF Released, KernelTypes, States
    <2>2. state' \in [Slots -> States] /\ current' \in Tasks
      <3>1. CASE Deferred
        BY <3>1 DEF Deferred, KernelTypes
      <3>2. CASE Dispatched
        <4>1. PICK best \in Tasks : /\ current' = best
                                    /\ state' = [Released EXCEPT ![best] = "RUNNING"]
          BY <3>2 DEF Dispatched
        <4> QED  BY <2>1, <4>1 DEF States
      <3> QED  BY <1>5, <3>1, <3>2 DEF PendSV
    <2>3. UNCHANGED <<delay, waitType, waitResult, pc>> /\ pendsv' = FALSE
      BY <1>5 DEF PendSV
    <2> QED  BY <1>3, <2>2, <2>3 DEF KernelTypes
  <1>6. CASE Yield
    <2>1. AfterYield[pc[current]] \in PCs
      BY <1>6 DEF Yield, AfterYield, PCs
    <2>2. pc' \in [Slots -> PCs]
      BY <1>6, <2>1 DEF Yield, KernelTypes
    <2>3. UNCHANGED <<tcbVars, current>> /\ pendsv' = TRUE
      BY <1>6 DEF Yield
    <2> QED  BY <1>3, <2>2, <2>3 DEF KernelTypes, tcbVars
  <1> QED  BY <1>4, <1>5, <1>6 DEF KernelStep
-------------------------------------------------------------------------------
(* A task that has got the processor back is marked RUNNING; one that still has *)
(* it only until its next yield may be BLOCKED already.                         *)
ServedRuns ==
    ~pendsv => state[current] = "RUNNING" \/ pc[current] \in {"kick", "block", "exit"}

(* The idle task makes no kernel calls, so it never waits.                      *)
IdleStaysOut == pc[Idle] = "app" /\ state[Idle] # "BLOCKED"

(* The part of every object's inductive invariant that is about the kernel.     *)
KernelInv == KernelTypes /\ RingIsWhole /\ ServedRuns /\ IdleStaysOut

(* No object but the mutex ever changes a priority.                             *)
PrioritiesAreBase ==
    /\ basePriority \in [Slots -> Nat] /\ priority = basePriority
    /\ \A t \in 1 .. AppTasks : basePriority[t] = BasePriority[t]

InWaitCode(t) == pc[t] \in {"block", "resume"}

(* What a step does to task t: nothing but, maybe, a switch; a time-out; a      *)
(* change of another kind of its state, wait or code that it leaves alone.      *)
Runnable == {"READY", "RUNNING"}
OnlySwitched(t) ==
    /\ waitResult'[t] = waitResult[t]
    /\ state'[t] = state[t] \/ (state[t] \in Runnable /\ state'[t] \in Runnable)
TimesOut(t) ==
    state[t] = "BLOCKED" /\ state'[t] = "READY" /\ waitResult'[t] = "TIMEOUT"
SameWait(t) ==
    state'[t] = state[t] /\ waitType'[t] = waitType[t] /\ waitResult'[t] = waitResult[t]
SameCode(t) == pc'[t] = pc[t]

LEMMA CallerFacts ==
    ASSUME KernelInv, ~pendsv, pc[current] \in {"app", "resume", "retry"}
    PROVE  /\ state[current] = "RUNNING" /\ current \in Tasks /\ current \in Slots
           /\ pc[current] # "app" => current # Idle
  BY TaskFacts DEF KernelInv, KernelTypes, ServedRuns, IdleStaysOut

LEMMA KernelInitHolds ==
    ASSUME KernelInit
    PROVE  /\ KernelInv
           /\ \A t \in Slots : state[t] # "BLOCKED" /\ pc[t] = "app"
           /\ PrioritiesAreBase
  <1> USE ConstantsLemma
  <1>1. RingIsWhole
    BY InitialRing DEF RingIsWhole, TaskCount
  <1>2. 1 \in Tasks /\ Idle \in Slots
    BY <1>1, TaskFacts
  <1>3. KernelTypes
    BY <1>2 DEF KernelInit, KernelTypes, States, WaitTypes, Results, PCs
  <1>4. ServedRuns
    BY DEF KernelInit, ServedRuns
  <1>5. \A t \in Slots : state[t] # "BLOCKED" /\ pc[t] = "app"
    BY DEF KernelInit
  <1>6. basePriority \in [Slots -> Nat]
    BY PriorityAssumption DEF KernelInit, Slots
  <1>7. \A t \in 1 .. AppTasks : basePriority[t] = BasePriority[t]
    <2>1. \A t \in 1 .. AppTasks : t \in Slots /\ t <= AppTasks
      BY DEF Slots
    <2> QED  BY <2>1 DEF KernelInit
  <1>8. priority = basePriority
    BY DEF KernelInit
  <1> QED  BY <1>1, <1>2, <1>3, <1>4, <1>5, <1>6, <1>7, <1>8
    DEF KernelInv, IdleStaysOut, PrioritiesAreBase

(* SysTick, PendSV and the yields start no wait and end one only by a time-out. *)
KernelEffect(t) ==
    /\ OnlySwitched(t) \/ TimesOut(t)
    /\ InWaitCode(t)' <=> InWaitCode(t)
    /\ pc'[t] = "retry" <=> pc[t] = "retry"

LEMMA KernelStepEffect ==
    ASSUME KernelInv, KernelStep
    PROVE  /\ KernelInv' /\ ring' = ring
           /\ UNCHANGED <<basePriority, priority, waitType>>
           /\ \A t \in Slots : KernelEffect(t)
  <1> USE TaskFacts, ConstantsLemma
  <1>1. /\ KernelTypes /\ RingIsWhole /\ ServedRuns /\ IdleStaysOut
        /\ current \in Slots /\ Idle \in Slots
    BY DEF KernelInv, KernelTypes
  <1>2. ring' = ring /\ UNCHANGED <<basePriority, priority, waitType>>
    BY DEF KernelStep, Tick, PendSV, Deferred, Dispatched, Yield, ringVars, tcbVars
  <1>3. KernelTypes' /\ RingIsWhole'
    BY <1>1, <1>2, KernelKeepsTypes, TasksHold
  <1>4. CASE Tick
    <2>1. UNCHANGED pc /\ pendsv' = TRUE
      BY <1>4 DEF Tick
    <2>2. ASSUME NEW t \in Slots
          PROVE  OnlySwitched(t) \/ TimesOut(t)
      BY <1>4 DEF Tick, TaskTick, Counting, Expiring, OnlySwitched, TimesOut
    <2>3. state'[Idle] # "BLOCKED"
      BY <1>1, <2>2 DEF IdleStaysOut, OnlySwitched, TimesOut, Runnable
    <2> QED
      BY <1>1, <1>2, <1>3, <2>1, <2>2, <2>3
      DEF KernelInv, ServedRuns, IdleStaysOut, KernelEffect, InWaitCode
  <1>5. CASE PendSV
    <2>1. UNCHANGED <<waitResult, pc>>
      BY <1>5 DEF PendSV
    <2>2. /\ state'[current'] = "RUNNING"
          /\ \A t \in Slots : OnlySwitched(t)
      <3>1. CASE Deferred
        BY <2>1, <3>1 DEF Deferred, HoldsProcessor, OnlySwitched
      <3>2. CASE Dispatched
        <4>1. PICK best \in Tasks : /\ ScanKeeps(best)
                                    /\ current' = best
                                    /\ state' = [Released EXCEPT ![best] = "RUNNING"]
          BY <3>2 DEF Dispatched
        <4>2. Released[best] = "READY" /\ best \in Slots
          BY <1>1, <4>1 DEF ScanKeeps
        <4>3. /\ Released \in [Slots -> States]
              /\ \A t \in Slots : Released[t] = state[t] \/
                                  (state[t] = "RUNNING" /\ Released[t] = "READY")
          BY <1>1 DEF Released, KernelTypes, States
        <4> QED  BY <2>1, <4>1, <4>2, <4>3 DEF OnlySwitched, Runnable
      <3> QED  BY <1>5, <3>1, <3>2 DEF PendSV
    <2>3. state'[Idle] # "BLOCKED"
      BY <1>1, <2>2 DEF IdleStaysOut, OnlySwitched, Runnable
    <2> QED
      BY <1>1, <1>2, <1>3, <2>1, <2>2, <2>3
      DEF KernelInv, ServedRuns, IdleStaysOut, KernelEffect, InWaitCode
  <1>6. CASE Yield
    <2>1. UNCHANGED <<state, waitResult>> /\ pendsv' = TRUE
      BY <1>6 DEF Yield, tcbVars
    <2>2. /\ pc[current] \in {"kick", "block", "exit"}
          /\ pc' = [pc EXCEPT ![current] = AfterYield[pc[current]]]
          /\ AfterYield[pc[current]] \in {"app", "resume", "dead"}
          /\ AfterYield[pc[current]] = "resume" <=> pc[current] = "block"
      BY <1>6 DEF Yield, AfterYield
    <2>3. pc \in [Slots -> PCs]
      BY <1>1 DEF KernelTypes
    <2>4. ASSUME NEW t \in Slots
          PROVE  /\ InWaitCode(t)' <=> InWaitCode(t)
                 /\ pc'[t] = "retry" <=> pc[t] = "retry"
      BY <1>1, <2>2, <2>3 DEF InWaitCode
    <2>5. pc'[Idle] = "app"
      BY <1>1, <2>2, <2>3 DEF IdleStaysOut
    <2> QED
      BY <1>1, <1>2, <1>3, <2>1, <2>4, <2>5
      DEF KernelInv, ServedRuns, IdleStaysOut, KernelEffect, OnlySwitched
  <1> QED  BY <1>4, <1>5, <1>6 DEF KernelStep

(* The running task blocks.                                                     *)
BlockEffect(type, point, t) ==
    IF t = current
    THEN state'[t] = "BLOCKED" /\ waitType'[t] = type /\ waitResult'[t] = "OK" /\ pc'[t] = point
    ELSE SameWait(t) /\ SameCode(t)

LEMMA BlockCurrentEffect ==
    ASSUME KernelInv, ~pendsv, current # Idle, NEW type \in WaitTypes, NEW ms \in Nat,
           NEW point \in {"kick", "block"}, BlockCurrent(type, ms, point),
           UNCHANGED <<ring, current, pendsv>>
    PROVE  KernelInv' /\ \A t \in Slots : BlockEffect(type, point, t)
  <1>1. KernelTypes /\ RingIsWhole /\ IdleStaysOut /\ current \in Slots /\ Idle \in Slots
    BY TaskFacts DEF KernelInv, KernelTypes
  <1>2. Tasks' = Tasks /\ RingIsWhole'
    BY <1>1, TasksHold
  <1>3. ASSUME NEW t \in Slots PROVE BlockEffect(type, point, t)
    BY <1>1, <1>3 DEF BlockCurrent, BlockEffect, KernelTypes, SameWait, SameCode
  <1>4. MsToTicks(ms) \in Nat
    BY MsToTicksType
  <1>5. state' \in [Slots -> States] /\ waitResult' \in [Slots -> Results]
    BY <1>1 DEF BlockCurrent, KernelTypes, States, Results
  <1>6. delay' \in [Slots -> Nat] /\ waitType' \in [Slots -> WaitTypes]
    BY <1>1, <1>4 DEF BlockCurrent, KernelTypes
  <1>7. pc' \in [Slots -> PCs]
    BY <1>1 DEF BlockCurrent, KernelTypes, PCs
  <1>8. KernelTypes'
    BY <1>1, <1>2, <1>5, <1>6, <1>7 DEF KernelTypes
  <1>9. ServedRuns' /\ IdleStaysOut'
    BY <1>1, <1>3 DEF BlockEffect, ServedRuns, IdleStaysOut, SameWait, SameCode
  <1> QED  BY <1>2, <1>3, <1>8, <1>9 DEF KernelInv

(* The waiter a pop loop finds is woken, and it was waiting.                    *)
WakeEffect(q, t) ==
    IF ~NobodyWaits(q) /\ t = Chosen(q)
    THEN state'[t] = "READY" /\ waitType'[t] = "NONE" /\ waitResult'[t] = "OK"
    ELSE SameWait(t)

LEMMA ChosenWaits ==
    ASSUME KernelInv, NEW q \in Seq(Tasks), ~NobodyWaits(q)
    PROVE  /\ Chosen(q) \in Tasks /\ Chosen(q) \in Slots /\ Chosen(q) # Idle
           /\ StillWaiting(Chosen(q)) /\ Linked(q, Chosen(q))
  <1>1. Len(q) \in Nat /\ FirstIndex(q, Waiting) \in 1 .. Len(q)
    BY FirstIndexFinds, LenProperties DEF NobodyWaits
  <1>2. Chosen(q) \in Waiting
    BY <1>1, FirstIndexFinds DEF Chosen
  <1>3. Linked(q, Chosen(q))
    BY <1>1 DEF Chosen, Linked
  <1> QED
    BY <1>2, <1>3, TaskFacts
    DEF Waiting, StillWaiting, KernelInv, IdleStaysOut

LEMMA WakeFirstEffect ==
    ASSUME KernelInv, NEW q \in Seq(Tasks), WakeFirst(q)
    PROVE  /\ state' \in [Slots -> States] /\ delay' \in [Slots -> Nat]
           /\ waitType' \in [Slots -> WaitTypes] /\ waitResult' \in [Slots -> Results]
           /\ \A t \in Slots : WakeEffect(q, t)
  <1>1. KernelTypes
    BY DEF KernelInv
  <1>2. CASE NobodyWaits(q)
    BY <1>1, <1>2 DEF WakeFirst, tcbVars, KernelTypes, WakeEffect, SameWait
  <1>3. CASE ~NobodyWaits(q)
    <2>1. WakeTask(Chosen(q))
      BY <1>3 DEF WakeFirst, Chosen
    <2>2. Chosen(q) \in Slots
      BY <1>3, ChosenWaits
    <2>3. state' \in [Slots -> States] /\ waitType' \in [Slots -> WaitTypes]
      BY <1>1, <2>1, <2>2 DEF WakeTask, KernelTypes, States, WaitTypes
    <2>4. delay' \in [Slots -> Nat] /\ waitResult' \in [Slots -> Results]
      BY <1>1, <2>1, <2>2 DEF WakeTask, KernelTypes, Results
    <2>5. ASSUME NEW t \in Slots PROVE WakeEffect(q, t)
      BY <1>1, <1>3, <2>1, <2>2, <2>5 DEF WakeTask, KernelTypes, WakeEffect, SameWait
    <2> QED  BY <2>3, <2>4, <2>5
  <1> QED  BY <1>2, <1>3

(* A task wakes the first waiter and returns, or an interrupt wakes it.         *)
LEMMA TaskWakesEffect ==
    ASSUME KernelInv, ~pendsv, current # Idle, pc[current] \in {"app", "retry"},
           NEW q \in Seq(Tasks), WakeFirst(q), ReturnAfterWake(q),
           UNCHANGED <<ring, current, pendsv>>
    PROVE  /\ KernelInv'
           /\ \A t \in Slots : WakeEffect(q, t)
           /\ \A t \in Slots : t # current => SameCode(t)
           /\ pc'[current] \in {"app", "kick"}
           /\ ~NobodyWaits(q) => current # Chosen(q)
  <1>1. /\ KernelTypes /\ RingIsWhole /\ IdleStaysOut /\ current \in Slots /\ Idle \in Slots
        /\ state[current] = "RUNNING"
    BY TaskFacts, CallerFacts DEF KernelInv, KernelTypes
  <1>2. Tasks' = Tasks /\ RingIsWhole'
    BY <1>1, TasksHold
  <1>3. PICK point \in {"app", "kick"} : pc' = [pc EXCEPT ![current] = point]
    BY DEF ReturnAfterWake, GoTo
  <1>4. /\ pc' \in [Slots -> PCs] /\ pc'[current] \in {"app", "kick"}
        /\ \A t \in Slots : t # current => SameCode(t)
    BY <1>1, <1>3 DEF KernelTypes, PCs, SameCode
  <1>5. KernelTypes'
    BY <1>1, <1>2, <1>4, WakeFirstEffect DEF KernelTypes
  <1>6. ~NobodyWaits(q) => current # Chosen(q) /\ Idle # Chosen(q)
    BY <1>1, ChosenWaits DEF StillWaiting
  <1>7. ServedRuns' /\ IdleStaysOut'
    BY <1>1, <1>4, <1>6, WakeFirstEffect
    DEF WakeEffect, SameWait, SameCode, ServedRuns, IdleStaysOut
  <1> QED  BY <1>2, <1>4, <1>5, <1>6, <1>7, WakeFirstEffect DEF KernelInv

LEMMA IsrWakesEffect ==
    ASSUME KernelInv, NEW q \in Seq(Tasks), WakeFirst(q),
           pendsv' = (pendsv \/ ~NobodyWaits(q)), UNCHANGED <<ring, current, pc>>
    PROVE  KernelInv' /\ \A t \in Slots : WakeEffect(q, t)
  <1>1. KernelTypes /\ RingIsWhole /\ IdleStaysOut /\ current \in Slots /\ Idle \in Slots
    BY TaskFacts DEF KernelInv, KernelTypes
  <1>2. Tasks' = Tasks /\ RingIsWhole'
    BY <1>1, TasksHold
  <1>3. KernelTypes'
    <2>1. pendsv' \in BOOLEAN
      OBVIOUS
    <2> QED  BY <1>1, <1>2, <2>1, WakeFirstEffect DEF KernelTypes
  <1>4. ServedRuns' /\ IdleStaysOut'
    <2>1. ~NobodyWaits(q) => Idle # Chosen(q)
      BY ChosenWaits
    <2> QED
      BY <1>1, <2>1, WakeFirstEffect
      DEF KernelInv, WakeEffect, SameWait, ServedRuns, IdleStaysOut
  <1> QED  BY <1>2, <1>3, <1>4, WakeFirstEffect DEF KernelInv

(* A task goes on behind its wait.                                              *)
LEMMA EndWaitEffect ==
    ASSUME KernelInv, Resuming, NEW point \in {"app", "retry"}, GoTo(point),
           waitType' \in {waitType, [waitType EXCEPT ![current] = "NONE"]},
           UNCHANGED <<ring, current, pendsv, state, delay, waitResult>>
    PROVE  /\ KernelInv'
           /\ \A t \in Slots : t # current => SameWait(t) /\ SameCode(t)
           /\ state[current] = "RUNNING" /\ pc'[current] = point
           /\ current # Idle /\ pc[current] = "resume"
  <1>1. /\ KernelTypes /\ RingIsWhole /\ IdleStaysOut /\ current \in Slots /\ Idle \in Slots
        /\ state[current] = "RUNNING" /\ current # Idle /\ pc[current] = "resume"
    BY TaskFacts, CallerFacts DEF KernelInv, KernelTypes, Resuming
  <1>2. Tasks' = Tasks /\ RingIsWhole'
    BY <1>1, TasksHold
  <1>3. /\ pc' \in [Slots -> PCs] /\ pc'[current] = point
        /\ \A t \in Slots : t # current => pc'[t] = pc[t]
    BY <1>1 DEF GoTo, KernelTypes, PCs
  <1>4. /\ waitType' \in [Slots -> WaitTypes]
        /\ \A t \in Slots : t # current => waitType'[t] = waitType[t]
    BY <1>1 DEF KernelTypes, WaitTypes
  <1>5. KernelTypes'
    BY <1>1, <1>2, <1>3, <1>4 DEF KernelTypes
  <1>6. ServedRuns' /\ IdleStaysOut'
    BY <1>1, <1>3 DEF ServedRuns, IdleStaysOut
  <1> QED  BY <1>1, <1>2, <1>3, <1>4, <1>5, <1>6 DEF KernelInv, SameWait, SameCode
-------------------------------------------------------------------------------
(* A ring buffer of n cells: its contents from the head on, oldest first.       *)
Cell(x, n) == x % n
RingContents(cells, first, used, n) == [i \in 1 .. used |-> cells[Cell(first + i - 1, n)]]

(* The index behind the last of the cells that are in use.                      *)
LEMMA Wrap ==
    ASSUME NEW n \in Nat \ {0}, NEW x \in 0 .. n + n - 1
    PROVE  /\ x % n = IF x < n THEN x ELSE x - n
           /\ x % n \in 0 .. n - 1
  OBVIOUS

(* Appending moves the tail on; taking the oldest item leaves it in place.      *)
LEMMA TailMovesOn ==
    ASSUME NEW n \in Nat \ {0}, NEW h \in 0 .. n - 1, NEW c \in 0 .. n - 1
    PROVE  (((h + c) % n) + 1) % n = (h + (c + 1)) % n
  <1> DEFINE x == h + c
             y == h + (c + 1)
             t == x % n
             u == t + 1
  <1>1. x \in 0 .. n + n - 1 /\ y \in 0 .. n + n - 1 /\ y = x + 1
    OBVIOUS
  <1> HIDE DEF x, y
  <1>2. t = IF x < n THEN x ELSE x - n
    BY <1>1
  <1>3. y % n = IF y < n THEN y ELSE y - n
    BY <1>1
  <1> HIDE DEF t
  <1>4. t \in 0 .. n - 1 /\ u \in 0 .. n + n - 1
    BY <1>1, <1>2
  <1>5. u = t + 1
    OBVIOUS
  <1> HIDE DEF u
  <1>6. u % n = IF u < n THEN u ELSE u - n
    BY <1>4
  <1>7. u % n = y % n
    BY <1>1, <1>2, <1>3, <1>4, <1>5, <1>6
  <1> QED  BY <1>7 DEF x, y, t, u

LEMMA TailStays ==
    ASSUME NEW n \in Nat \ {0}, NEW h \in 0 .. n - 1, NEW c \in 1 .. n
    PROVE  (((h + 1) % n) + (c - 1)) % n = (h + c) % n
  <1> DEFINE x == h + c
             y == h + 1
             g == y % n
             u == g + (c - 1)
  <1>1. x \in 0 .. n + n - 1 /\ y \in 0 .. n + n - 1 /\ x = h + c /\ y = h + 1
    OBVIOUS
  <1> HIDE DEF x, y
  <1>2. g = IF y < n THEN y ELSE y - n
    BY <1>1
  <1>3. x % n = IF x < n THEN x ELSE x - n
    BY <1>1
  <1> HIDE DEF g
  <1>4. g \in 0 .. n - 1 /\ u \in 0 .. n + n - 1 /\ u = g + (c - 1)
    BY <1>1, <1>2
  <1> HIDE DEF u
  <1>5. u % n = IF u < n THEN u ELSE u - n
    BY <1>4
  <1>6. u % n = x % n
    BY <1>1, <1>2, <1>3, <1>4, <1>5
  <1> QED  BY <1>6 DEF x, y, g, u

(* Items in use and the free cell behind them are in different places.          *)
LEMMA CellsDiffer ==
    ASSUME NEW n \in Nat \ {0}, NEW h \in 0 .. n - 1,
           NEW c \in 0 .. n - 1, NEW i \in 1 .. c
    PROVE  /\ (h + i - 1) % n # (h + c) % n
           /\ (h + i - 1) % n \in 0 .. n - 1
  <1> DEFINE x == h + i - 1
             y == h + c
  <1>1. /\ x \in 0 .. n + n - 1 /\ y \in 0 .. n + n - 1
        /\ x < y /\ y - x < n
    OBVIOUS
  <1> HIDE DEF x, y
  <1>2. x % n = IF x < n THEN x ELSE x - n
    BY <1>1
  <1>3. y % n = IF y < n THEN y ELSE y - n
    BY <1>1
  <1>4. x % n # y % n /\ x % n \in 0 .. n - 1
    BY <1>1, <1>2, <1>3
  <1> QED  BY <1>4 DEF x, y

LEMMA CellType ==
    ASSUME NEW n \in Nat \ {0}, NEW x \in 0 .. n + n - 1
    PROVE  /\ Cell(x, n) = IF x < n THEN x ELSE x - n
           /\ Cell(x, n) \in 0 .. n - 1
  BY Wrap DEF Cell

ReadFrom(r, b, h, c, n) ==
    Len(r) = c /\ \A i \in 1 .. c : r[i] = b[Cell(h + i - 1, n)]

LEMMA RingContentsFacts ==
    ASSUME NEW S, NEW n \in Nat \ {0}, NEW b \in [0 .. n - 1 -> S],
           NEW h \in 0 .. n - 1, NEW c \in 0 .. n
    PROVE  /\ RingContents(b, h, c, n) \in Seq(S)
           /\ ReadFrom(RingContents(b, h, c, n), b, h, c, n)
  <1> DEFINE r == RingContents(b, h, c, n)
             e(i) == b[Cell(h + i - 1, n)]
  <1>1. ASSUME NEW i \in 1 .. c
        PROVE  e(i) \in S
    <2>1. h + i - 1 \in 0 .. n + n - 1
      OBVIOUS
    <2> QED  BY <2>1, CellType
  <1>2. r \in [1 .. c -> S] /\ c \in Nat
    <2>1. r = [i \in 1 .. c |-> e(i)]
      BY DEF RingContents
    <2> HIDE DEF e, r
    <2> QED  BY <1>1, <2>1
  <1>3. r \in Seq(S)
    BY <1>2, SeqDef
  <1>4. Len(r) = c
    BY <1>2, <1>3, LenProperties
  <1> QED  BY <1>3, <1>4 DEF RingContents, ReadFrom

(* Writing behind the last of the cells in use appends.                         *)
WithPut(cells, first, used, n, v) == [cells EXCEPT ![Cell(first + used, n)] = v]
IsAppend(p, q, v) == p = Append(q, v)

LEMMA RingPut ==
    ASSUME NEW S, NEW n \in Nat \ {0}, NEW b \in [0 .. n - 1 -> S],
           NEW h \in 0 .. n - 1, NEW c \in 0 .. n - 1, NEW v \in S,
           NEW d, d = WithPut(b, h, c, n, v), NEW k1, k1 = c + 1
    PROVE  IsAppend(RingContents(d, h, k1, n), RingContents(b, h, c, n), v)
  <1> DEFINE t == Cell(h + c, n)
             old == RingContents(b, h, c, n)
             new == RingContents(d, h, k1, n)
             app == Append(old, v)
  <1>1. t \in 0 .. n - 1 /\ c \in 0 .. n /\ k1 \in 0 .. n /\ k1 = c + 1
    BY CellType
  <1>2. /\ old \in Seq(S) /\ Len(old) = c
        /\ \A i \in 1 .. c : old[i] = b[Cell(h + i - 1, n)]
    <2>1. old \in Seq(S) /\ ReadFrom(old, b, h, c, n)
      BY <1>1, RingContentsFacts
    <2> HIDE DEF old
    <2> QED  BY <2>1 DEF ReadFrom
  <1> HIDE DEF t
  <1>0. d = [b EXCEPT ![t] = v]
    BY DEF WithPut, t
  <1>3. d \in [0 .. n - 1 -> S]
    BY <1>0, <1>1
  <1>4. /\ new \in Seq(S) /\ Len(new) = k1
        /\ \A i \in 1 .. k1 : new[i] = d[Cell(h + i - 1, n)]
    <2>1. new \in Seq(S) /\ ReadFrom(new, d, h, k1, n)
      BY <1>1, <1>3, RingContentsFacts
    <2> HIDE DEF new
    <2> QED  BY <2>1 DEF ReadFrom
  <1> HIDE DEF old, new
  <1>5. /\ app \in Seq(S) /\ Len(app) = c + 1
        /\ \A i \in 1 .. c : app[i] = old[i]
        /\ app[c + 1] = v
    BY <1>2
  <1>6. ASSUME NEW i \in 1 .. c + 1
        PROVE  new[i] = app[i]
    <2>1. new[i] = d[Cell(h + i - 1, n)]
      BY <1>4
    <2>2. CASE i = c + 1
      <3>1. h + i - 1 = h + c
        BY <2>2
      <3>2. d[t] = v
        BY <1>0, <1>1
      <3> QED  BY <2>1, <2>2, <3>1, <3>2, <1>5 DEF t
    <2>3. CASE i \in 1 .. c
      <3> DEFINE k == Cell(h + i - 1, n)
      <3>1. k # t /\ k \in 0 .. n - 1
        BY <2>3, CellsDiffer DEF Cell, t
      <3>2. d[k] = b[k]
        <4> HIDE DEF k
        <4> QED  BY <1>0, <3>1
      <3> QED  BY <1>2, <1>5, <2>1, <2>3, <3>2
    <2>4. i = c + 1 \/ i \in 1 .. c
      OBVIOUS
    <2> QED  BY <2>2, <2>3, <2>4
  <1> HIDE DEF app
  <1>7. new = app
    BY <1>4, <1>5, <1>6, SeqEqual
  <1> QED  BY <1>7 DEF new, app, old, IsAppend

(* Moving the head on takes the oldest element away.                            *)
LEMMA RingGet ==
    ASSUME NEW S, NEW n \in Nat \ {0}, NEW b \in [0 .. n - 1 -> S],
           NEW h \in 0 .. n - 1, NEW c \in 1 .. n
    PROVE  /\ RingContents(b, h, c, n) # <<>>
           /\ Head(RingContents(b, h, c, n)) = b[h]
           /\ RingContents(b, Cell(h + 1, n), c - 1, n) = Tail(RingContents(b, h, c, n))
  <1> DEFINE g == Cell(h + 1, n)
             k1 == c - 1
             old == RingContents(b, h, c, n)
             new == RingContents(b, g, k1, n)
             rest == Tail(old)
  <1>1. g \in 0 .. n - 1 /\ c \in 0 .. n /\ k1 \in 0 .. n /\ k1 = c - 1
    BY CellType
  <1>2. /\ old \in Seq(S) /\ Len(old) = c
        /\ \A i \in 1 .. c : old[i] = b[Cell(h + i - 1, n)]
    <2>1. old \in Seq(S) /\ ReadFrom(old, b, h, c, n)
      BY <1>1, RingContentsFacts
    <2> HIDE DEF old
    <2> QED  BY <2>1 DEF ReadFrom
  <1>3. /\ new \in Seq(S) /\ Len(new) = k1
        /\ \A i \in 1 .. k1 : new[i] = b[Cell(g + i - 1, n)]
    <2>1. new \in Seq(S) /\ ReadFrom(new, b, g, k1, n)
      <3> HIDE DEF g, k1
      <3> QED  BY <1>1, RingContentsFacts
    <2> HIDE DEF new
    <2> QED  BY <2>1 DEF ReadFrom
  <1> HIDE DEF old, new
  <1>4. /\ old # <<>> /\ Head(old) = old[1]
        /\ rest \in Seq(S) /\ Len(rest) = c - 1
        /\ \A i \in 1 .. c - 1 : rest[i] = old[i + 1]
    BY <1>2
  <1>5. old[1] = b[h]
    <2>1. 1 \in 1 .. c /\ h + 1 - 1 = h /\ Cell(h, n) = h
      BY CellType
    <2> QED  BY <1>2, <2>1
  <1> HIDE DEF rest
  <1>6. ASSUME NEW i \in 1 .. c - 1
        PROVE  new[i] = rest[i]
    <2>1. new[i] = b[Cell(g + i - 1, n)]
      BY <1>3
    <2>2. i + 1 \in 1 .. c /\ i \in 1 .. n
      OBVIOUS
    <2>3. rest[i] = b[Cell(h + (i + 1) - 1, n)]
      BY <1>2, <1>4, <2>2
    <2>4. h + (i + 1) - 1 = h + i
      OBVIOUS
    <2>5. g + i - 1 = g + (i - 1)
      <3> HIDE DEF g
      <3> QED  BY <1>1
    <2>6. Cell(g + (i - 1), n) = Cell(h + i, n)
      BY <2>2, TailStays DEF Cell
    <2> QED  BY <2>1, <2>3, <2>4, <2>5, <2>6
  <1>7. new = rest
    BY <1>3, <1>4, <1>6, SeqEqual
  <1> QED  BY <1>4, <1>5, <1>7 DEF new, rest, old
===============================================================================
