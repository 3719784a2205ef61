------------------------------- MODULE WaitList -------------------------------
(* The wait lists of semaphores, mutexes, queues, event flags and memory pools. *)
(* Each of those files has its own copy of wait_push, wait_pop and wait_remove  *)
(* over a list linked by task->wait_next; here a list is the sequence of the    *)
(* tasks it links, head first.                                                  *)
EXTENDS Naturals, Sequences

(* Linking t so that it becomes the i-th of the list, unlinking the i-th.       *)
InsertAt(q, i, t) == SubSeq(q, 1, i - 1) \o <<t>> \o SubSeq(q, i, Len(q))
RemoveAt(q, i) == SubSeq(q, 1, i - 1) \o SubSeq(q, i + 1, Len(q))

(* The place of the first element of q that lies in S, one past the end if none *)
(* does: where the "while (scan != NULL ...)" loops stop.                       *)
FirstIndex(q, S) ==
    CHOOSE i \in 1 .. Len(q) + 1 :
        /\ i <= Len(q) => q[i] \in S
        /\ \A j \in 1 .. i - 1 : q[j] \notin S

(* Mutant of LessUrgent: a newcomer is put in front of its peers.               *)
LessUrgent_OrEqual(t, prio) == {u \in DOMAIN prio : prio[u] <= prio[t]}

(* wait_push: in front of the first task of a strictly lower priority.          *)
LessUrgent(t, prio) == {u \in DOMAIN prio : prio[u] < prio[t]}
WaitPush(q, t, prio) == InsertAt(q, FirstIndex(q, LessUrgent(t, prio)), t)

(* wait_pop: unlinks tasks from the head up to and including the first one that *)
(* is still waiting; the ones it passes over have timed out.                    *)
WaitPop(q, waiting) == SubSeq(q, FirstIndex(q, waiting) + 1, Len(q))

(* wait_remove: unlinks the task, if it is still linked.                        *)
WaitRemove(q, t) ==
    LET i == FirstIndex(q, {t})
    IN  IF i <= Len(q) THEN RemoveAt(q, i) ELSE q

Linked(q, t) == \E i \in 1 .. Len(q) : q[i] = t
NoRepeats(q) == \A i, j \in 1 .. Len(q) : q[i] = q[j] => i = j
Sorted(q, prio) == \A i, j \in 1 .. Len(q) : i <= j => prio[q[j]] <= prio[q[i]]
===============================================================================
