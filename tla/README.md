# Verification of the stm32 RTOS kernel

TLA+ models of the kernel in `src/kernel` and of the parts of `src/port` it
rests on, the TLC runs that check them, and proofs that TLAPS checks.
`PROJECT.json` lists the components, the runs, the source lines each definition
models, the mutants that show each property can fail, the hazards and the
theorems.

## The system

One core, one processor mode for tasks, two exceptions of the lowest priority:
SysTick (the tick) and PendSV (the context switch). Kernel code runs in critical
sections (PRIMASK). A task that blocks does it in two halves: a critical section
marks it BLOCKED and links it into the object's wait list, then `rtos_yield()`
pends PendSV; a second critical section, when it runs again, looks whether it was
woken or timed out.

| Component | State | Operations | What makes it correct |
|---|---|---|---|
| Task table, scheduler (`sched.c`, `task.c`) | circular run list, current task, PendSV pending, lock counter and "switch owed" flag, per task: state, priority, delay, wait type and result | yield, sleep, lock/unlock, create, exit, `rtos_schedule_next` | the list is one cycle; one task runs; a blocked one does not; no preemption is missed; a ready task is always found; the top task gets the processor |
| Tick (`tick.c`) | delay counters | count down, time out, walk the timers, pend PendSV | a timeout ends a wait once, and never a wait that a post ended |
| Semaphore (`sem.c`) | count, wait list | wait, post, post from an interrupt | no token idle beside a waiter, none doubled or given to a task that has given up; order of service |
| Mutex (`mutex.c`) | owner, depth, wait list, effective priorities | lock, unlock, recursion | nobody stranded; inheritance neither missing nor left over |
| Queue (`queue.c`) | ring buffer, two wait lists | send, receive, send from an interrupt | FIFO channel; no lost wake-up |
| Event flags (`event.c`) | flags, wait list, each waiter's request | set, clear, wait any/all | no satisfied waiter overlooked; flags taken once |
| Memory pools (`mempool.c`) | free list, wait list | alloc, free | blocks neither lost nor handed out twice |
| Notifications (`task.c`) | per task: a set of bits, a pending mark | notify (task, interrupt), wait with clearing on entry and exit | no notification slept through or thrown away; only waits for a notification are ended by one |
| Work queue (`work.c`) | ring of work items; the worker's loop | submit (task, interrupt), worker loop | no work left while the worker sleeps; FIFO; items the worker was told of get their turn |
| Timers (`timer.c`) | linked list of timers; period, count, reload, active | init, start, stop, the walk of the tick, callbacks | the walk meets each timer once; each fires when it is due and only then |
| Demo (`app/main.c`) | one object of each kind, five tasks, a timer | the loops of the tasks, the callback | what `check_probe.py` asks of the halted target |
| Object registry, trace, debug, assert, fault, board, start-up, tools | tables and records for a debugger | | not part of the kernel's control |

Interactions: every object changes task states under a critical section and
yields after it; the tick times out any wait behind the object's back, leaving the
task linked until it runs; interrupts post, send, set flags, notify and submit work;
timer callbacks do so in the middle of the tick. The hard cases are
therefore: a tick between the two halves of a wait; a post that meets waiters
already timed out; a woken task overtaken by another one; priorities that change
while tasks are queued; the scheduler lock across all of that; callbacks that change
the list of timers the tick is walking. PROJECT.json
"hazards" names each one at its line.

## Modules

    WaitList            wait_push / wait_pop / wait_remove on sequences
    Kernel              task table, PendSV, tick, yield, pieces of blocking calls
      Scheduler         + lock, create, exit                (sched.c, task.c)
      Semaphore         + sem.c        implements AbstractSemaphore
      Mutex             + mutex.c
      Queue             + queue.c      implements AbstractQueue
      EventFlags        + event.c
      Mempool           + mempool.c    implements AbstractSemaphore
      Notify            + the notifications of task.c
        WorkQueue       + work.c       implements AbstractQueue
    Timers              timer.c: the list, the walk of a tick, callbacks
    Demo                app/main.c: instances of all of the above
    MC*                 instances for TLC
    KernelProofs        theorems about WaitList, and what Kernel's actions do to a task
      CoreProofs        theorems about Scheduler, Timers and Semaphore
      MutexProofs       theorems about Mutex
      QueueProofs       theorems about Queue
      MempoolProofs     theorems about Mempool
      SignalProofs      theorems about EventFlags, Notify and WorkQueue
      DemoProofs        theorems about the lists of Demo
        ProbeProofs     theorems about the counters of Demo

**Grain.** An action is one critical section or one exception handler. The
`rtos_yield()` after a critical section is an action of its own (`Yield`), since
the tick can come between the two; `pc` says where a task's code stands. PendSV
has the smaller exception number, so `Tick` waits for it, and no task code runs
while it is pending. An interrupt routine that calls a `*_isr` function is one step
and can come at any time outside the critical sections, at the priority of
SysTick, which is where this repository calls them from. `Timers` cuts the tick's
handler finer, into one step for each timer it visits and each call a callback
makes, since callbacks change the list under the walk; no task runs meanwhile.
`submit_common()` has two critical sections, so that a submission is two steps
(`Submit`, `NotifyWorker`).

**Demo.** `Demo` has the variables of every component and instantiates each
module on its own ones: a task's step is the operation of the component module on
the next call of its loop in `main.c` (`at` says which), the timer callback makes
its four calls as steps of the walk, and `TickBegins` ... `TickEnds` are the
handler of SysTick around it. Here, unlike in the other modules, applications do
what this one does. Two things are scaled: the periods of `main.c`, which keep their
order, and the length of a tick. The tasks never compute for long, so that many
critical sections fit into a tick's 16000 cycles; the model takes `TickSteps` of
them at least, unless the idle task runs. That bound is what makes consumer and
producer keep up with the timer, as they do on the board.

**State.** A list linked by `next` or `wait_next` is a sequence. `switch_count` is
kept as zero or not zero. A semaphore's, a mutex's ... handle is the module itself
(the mutex module takes a set of them). Arguments of a call that survive a block
(`want`, `call`, `request`) are variables. Names, stacks, statistics and returned
status codes are left out; a call that returns an error changes nothing and has
no action.

**Time.** `MsToTicks` computes in the word's arithmetic with the modulus `WordMod`;
the runs use 65536 so that the forever value, `WordMod - 1`, is a number of its own.

## Runs

| Run | Asks | Bounds |
|---|---|---|
| `scheduler` | list, running task, assertion, missed preemption, slot reuse; the top ready task runs | 2 application tasks of 2 priorities, idle, 1 fresh slot, new tasks above both; sleeps of 1 tick or for ever; locks nested twice |
| `round_robin` | documented round robin: **violated** | an urgent task and two peers |
| `semaphore` | list, order of service, refinement, timed waits end | 3 tasks (two peers, one above), count up to 2, timeouts 1, 2 and none |
| `mutex` | lists, stranding, inheritance, bounded inversion | 3 tasks of 3 priorities, recursion to depth 2 |
| `mutex_preempt` | missed preemption at unlock: **violated** | two urgent peers above one task |
| `queue` | lists, lost wake-ups, FIFO refinement | 3 tasks, 2 cells, 2 messages (symmetric) |
| `queue_live` | the most urgent receiver is served | 3 tasks, 1 cell |
| `events` | list, overlooked waiters, flags taken once | 3 tasks, 2 flags, three kinds of request |
| `mempool` | blocks conserved, hand-over, refinement | 3 tasks (two peers, one above), 2 blocks, sleeps beside the waits |
| `work` | notifications, none thrown away, work left behind, FIFO refinement, announced items get their turn | the worker above a task, interrupts, 2 cells, 2 items; waits of 0 and 1 tick and for ever that clear nothing or everything |
| `timers` | the walk covers the list, timers fire on time | 3 timers (symmetric), periods of 1 to 3 ticks |
| `demo` | the probe's questions, lists and wait types across objects, no deferred call dropped | the 5 tasks and priorities of `main.c`; work, message and block counts 2 instead of 4; `TickSteps` 6 |

Why these bounds are enough to see the interesting cases: three tasks give a
waiter, a rival that overtakes it and a task that posts, with two of equal and one
of greater priority; timeouts of one or two ticks and for ever give waiters that
have timed out in front of ones that have not; a buffer of two cells wraps
around; two flags are the fewest that a wait for all differs on; and one fresh slot
beside exiting tasks gives creation in fresh and reused slots. Three timers give one
whose callback runs, one ahead of it and one behind it in the walk; a period of one
tick is due again in the next walk. One notification bit is enough for the worker,
which clears all of them; that a wait can clear part of the bits and leave the rest
pending takes two bits, and `NoNotificationMissed` was checked with two on a smaller
queue as well. Likewise `work` has one application task beside the worker, which no other
task can keep from its notification; that `WorkGetsDone` needs its second condition
takes two (see Fairness), with which it was checked on a smaller instance: tasks of
priorities 3 (the worker), 2 and 1, one item, waits for ever that clear nothing. Interrupts
come at every point they can. No application but the demo
is assumed to do anything in particular: each task makes any call at any time.

In the demo the slot of the one-shot task is used again while other tasks are in
every state; the wait for the semaphore times out and that for the flag ends either
way; and the mutex is woken for, lost to another task and tried again. The waits for
a block, for a free cell and for a notification in time never come to a time-out
there: pool and queue are never full or empty, and the timer is faster.

### Disagreements found

1. *Round robin* (`round_robin`). `architecture.md:112-114` promises round robin
   among equals. The scan starts behind the *interrupted* task. With a task that
   wakes every few ticks and sleeps again, the peer behind it in the list wins each
   time, and the other one starves.
2. *Unlock without a yield* (`mutex_preempt`). The waiters that raised an owner can
   time out while it still has their priority. They are ready, of the owner's raised
   priority; the unlock then lowers the owner (`mutex.c:198`), finds nobody to
   wake and does not yield: until the next tick a task runs below a ready one. With two
   mutexes more comes of it: in that time the task can take a second, free mutex that
   a more urgent task was woken for, and then owns it at its base priority while others
   wait for it, until a later lock call or time-out raises it. A simulation of five tasks
   and two mutexes, each task holding one at a time, showed `OwnerInherits` violated so.

Two statements of the documentation are looser than the code, and are no
properties here. "Setting flags wakes every waiter whose condition is satisfied"
(`architecture.md:167-168`) holds only of waiters that do not clear: a waiter that
takes a flag hides it from those behind it (`event.c:129`; `TakenFlagsAreGone` is what
does hold). "`rtos_sleep(ms)` blocks the current task for at least the requested time"
(`api.md:11`): the first of the ticks it counts may come at once, so that a sleep can
be up to one tick short, and for arguments beyond 2^32 / 1000 the product in
`rtos_ms_to_ticks()` wraps (`MsToTicks` has the same arithmetic).

## Fairness

`KernelFairness`: weak fairness of PendSV (the hardware serves it as soon as
nothing masks it); strong fairness of the tick (the timer runs for ever; it stays
pending while PendSV is served first); strong fairness of `Yield` and of the second
critical section of a wait: a task that has the processor again and again
executes the few instructions to it within a tick's 16000 cycles. In `WorkQueue` also
strong fairness of the worker's loop, whose steps are all its own code, except that
`HandlerReturns` asks of handlers that they return. Applications owe nothing else,
except in `MostUrgentGetsLock`, where a task that holds a mutex goes on to unlock it
(`UnlockAt`), and in `TopPriorityRuns`, which is conditional on the scheduler not
staying locked. `WorkGetsDone` has two conditions. The worker is above the application's
tasks: `rtos_work_init()` creates it at the default priority, where a busier peer or more
urgent tasks may keep it from the processor (finding 1). And the item is announced
(`WorkIsAnnounced`): the worker has a notification pending, or no task stands between
`work.c:76` and `work.c:79`. A submitter that is switched out there by a task that never
gives up the processor leaves its item in the queue until somebody else notifies the
worker, as urgent as the worker may be. With two application tasks TLC finds that
behaviour as soon as the second condition is taken away, and none with it.

## Proofs

`KernelProofs` proves for all lists what the three list operations do: push links
the task, loses and repeats nothing and keeps the order of priorities; pop takes
the most urgent task that still waits and drops only tasks that do not; remove
unlinks exactly the task. The base is that `FirstIndex`, a CHOOSE, always finds its
position (by the well-foundedness of the naturals), and element-by-element lemmas
about `InsertAt` and `RemoveAt`. On top of it the module says once what the pieces of a
blocking call do to each task (`KernelStepEffect`: a tick times a task out, a switch
moves it between READY and RUNNING, and nothing else happens to it behind the object's
back; `BlockCurrentEffect`, `WakeFirstEffect`, `TaskWakesEffect`, `IsrWakesEffect`,
`EndWaitEffect`), and what a put and a get do to a ring buffer (`RingPut`,
`RingGet`). The modules of the objects rest on these facts.

`CoreProofs` proves, first, every safety property of the run `scheduler`, and that only
the current task is marked RUNNING (`OnlyCurrentRuns`), for any number
of tasks and slots, any priorities and timeouts, from the assumptions that Kernel
and Scheduler state about their constants. `IInv` adds to the properties
themselves what they need to be inductive: where a task's code stands in each state
(`CodeMatchesState`, which slot reuse rests on), that no slot but the current one is
marked RUNNING (`OneRuns`), and that the idle task is in the list and never gives up
(`IdleIsReady`, which the assertion rests on). The heart is the context switch: the
scan meets every task of the list (`ScanIsComplete`, from the list being one cycle),
so that the task it keeps has the greatest priority of the ready ones
(`ScanKeepsMostUrgent`), which establishes `NoMissedPreemption` anew; and creation,
where inserting a fresh slot behind the current task keeps the cycle
(`CreateKeepsRing`). `ReuseIsSafe` is an action property and follows from the
invariant step by step.

The same module proves `WalkCoversList` and `TimersFireOnTime` for any number of timers
and any periods. The promise of a timer (how it was last armed, and how many ticks
have ended since) is a history variable that no action reads. `TimersIInv` says that it
stays in step with the timer's count: what remains to count, the promise's age, and
one more if this tick has dealt with the timer already, add up to the period for a
timer that a task started, to one more for one that its own expiry re-armed, and to
either for one that a callback started, ahead of the walk or behind it
(`CountInStep`); and exactly the active timers have a promise, but for a one-shot
timer in its own callback (`ActiveIsPromised`). `ToCome` tells the timers this tick
has still to visit; that the walk leaves each of them once rests on `WalkCoversList`
(`HeadLeavesWalk`). When a timer fires, its count is one and its visit still to come,
so that the sum gives the age at which it fires.

**Signals.** `SignalProofs` has the two components that signal tasks. It proves the
safety properties of the run `work` and its refinement, for any length of the queue,
any number of tasks and any bits, masks and timeouts.
`NoNotificationMissed` is inductive given the types. `NotificationsAreKept` adds what that
invariant cannot see, a value that goes down together with its mark: step by step,
only a wait of the task itself that may take bits does (`MayTake`). `NoWorkLeftBehind`
is not inductive: its strengthening `WorkerIsTold` also covers the worker that is about to wait, after a
look at the queue that found it empty; if there are items by then and nobody stands
before the notification, the worker's mark is up, so that its wait returns at once.
`WorkerPastAwait` says that the worker comes out of a wait in front of a look at the
queue. `WorkIsFifo` rests on head, tail and count agreeing (`TailInStep`): an item
goes to a cell that none of those in use is (`CellsDiffer`), so that a submission
appends to the contents and a pop takes their head.

**Semaphores, pools and queues.** `CoreProofs`, `MempoolProofs` and `QueueProofs`
prove every safety property of their runs, and the refinements, for any number of
tasks, any priorities and timeouts, any count, number of blocks and length of the ring.
The invariants have the same core: where a task's code stands, its state, wait type
and result, and whether it is linked agree; a task that the tick has timed out is
linked still and one that was woken is not. To that the pool adds that
a task carries a block exactly when it was served, and that a block is in one place only
(`BlockIsSomewhere`, `BlockIsOnce`), and the queue that what tasks wait for has been spoken
for (`SpokenFor`). `FirstComeAmongEquals` follows from what push, pop and
remove do to the places of two tasks in the list. `BlocksConserved` counts the tasks that
carry a block, which follows from no two tasks carrying the same one. In both refinements a step on the
implementation's list is one of the abstract operations because the task that `WaitPop` finds
is the most urgent one that waits. `NoLostWakeup` compares a count with the number
of tasks on their way, so that its proof is about cardinalities: a send adds one
message and at the same time one receiver on its way, if any waits; and a task that
leaves the set of those on their way without taking a message goes back to waiting
only because there was none. `ImplementsChannel` rests on the ring lemmas.

**Mutexes.** `MutexProofs` proves for any number of mutexes, held and nested in any
way, that the lists are exact and that nobody is stranded: `SomeoneComes` names the woken
task, which stays runnable until it is in the first critical section again, where it
takes the mutex or finds it taken. The two properties of priorities need that tasks hold
one mutex at a time, the case `architecture.md:120-124` says the inheritance is for.
`RaisesStayJustified` has just that hypothesis (`OneAtATime`): a task with a mutex is in
no wait list, so that a waiter's priority is its base priority (`WaitersHoldNothing`) and
the lists stay in order. `OwnersInherit` supposes that there is one mutex
(`OneMutex`), because with two it does not hold even where each task holds one at a time
(see finding 2). Its invariant is about the moment where a mutex changes hands: while a
mutex is free and tasks wait, one that is on its way is as urgent as each of them
(`BestComes`), and no less urgent task can run before it (`ScheduleInv`), so that whoever
takes the free mutex outranks all who wait. This is where the preemption by PendSV
enters a property of mutexes: an unlock that wakes somebody yields before its caller goes on,
and the scan of `rtos_schedule_next()` finds the most urgent ready task
(`ScanKeepsMostUrgent`).

**Event flags.** `set_common()` walks the wait list and changes the flags as it goes, so that
what a waiter gets depends on those before it. `Scan` is that loop as a function of the number
of waiters it has met. `SignalProofs` shows first that such a function exists for a
list of any length (`ScanExists`), then that after each turn (`ScanSoFar`) the waiters
met are split into those woken and those kept, none of the kept ones that still wait
matches the flags left, and what a woken one that clears took is neither among these nor given to
another one (`KeepHolds`, `ServeHolds`, `ScanHolds`). Both inductions go by a least
counterexample (`LeastElement`). The properties follow with an invariant like the
semaphore's, to which `NobodyMatches` is added: no blocked task's request matches the
flags that are up.

**The demo: lists.** `DemoProofs` proves `ListsAgree` for `Demo`, in which the modules of
all components act on one task table, for any times and lengths of queues and pool.
`DemoAssumption` fixes what `main.c` does: its five tasks in six slots, the consumer as
the most urgent of them, and the order of its times. A task has one wait type, one result and one link, which all
objects use in turn; the question is whether what one of them left there can be taken for
an answer to another one. The proof names the place where a task waits (`Place`), from
its task, its call and its saved arguments, and shows for each list that it holds those
who wait there, each once, and else only some that have timed out there (`Listed`,
`AllListed`); and for each task that its call, its saved arguments, its wait type and its
state fit together (`Placed`). Together with `KernelInv`, which `KernelProofs` has for all
components, that is `WaitInv`, which TLC checked on the run's instance before it was
proved. Most of its steps follow one of three patterns, each a lemma for any place: the
running task goes on the list of a place (`WaitInvAfterBlock`), a task or an interrupt
takes the first waiter off the list of a place (`WaitInvAfterWake`), the running task
comes back from a place (`WaitInvAfterWait`). What is left is that each call of each
component is one of the patterns at its place and touches no other list. Two cases are of
their own: the set of a flag, which walks its list, and the one-shot task, whose slot is
used again.

**The demo: the probe.** `ProbeAlwaysHolds`, in `ProbeProofs`, says that what `check_probe.py` asks of the
counters holds at every instant, or whenever the idle task runs. It does not rest on
times: it follows from who is most urgent. Its invariant, `ProbeInv`, was checked
by TLC first and has three parts beside `WaitInv`:

- `PairInv`: producer and consumer take turns in one way only. The consumer waits for a
  message when the producer locks and sends, and for the mutex when the producer
  unlocks (`Handover`); from the last call of each follow how often it holds the mutex
  (`LocksMatch`), how many messages there are (`CountsMatch`), and that the producer has
  the consumer's priority exactly while the consumer waits for the mutex
  (`ConsumerUrgent`). A step of one of the two is shown to keep this call by call; what
  any other step may touch is stated once (`PairStill`, `PairFrame`).
- `TurnInv`: the consumer has the processor whenever it can run, or is about to get it
  (`ConsumerIsNext`), but for the first turn, which the worker has; and the idle task
  runs only when no other task can. That is what the scan of `rtos_schedule_next()`
  gives (`ScanKeepsMostUrgent`, `DispatchElects`).
- `AsideInv`: the timeout task holds the scheduler lock only while it runs and the
  consumer waits, and has a block only between two calls that do not block; the worker sleeps only when its
  queue is empty and nothing is pending for it (`WorkerTold`); the slot of the one-shot
  task is used twice.

Every component's variables keep their types. Those of the timers, the event flags and
the pool are stated by theorems only (`TimersTypeCorrect`, `TypeCorrect` of `SignalProofs` and
`MempoolProofs`); no run repeats them.

**What the refinement of the semaphore leaves open.** A post that drops its token although the
count is below its maximum and nobody waits would be a stuttering step of
`AbstractSemaphore`, so that `ImplementsAbstract` does not exclude it. For the pool
`BlocksConserved` does. Likewise `NoMissedPreemption` says nothing of a task that has never
run: creation makes it ready without a yield (`task.c:111`).

**Left to TLC.** All liveness: fairness is out of the prover's reach. `NoWorkDropped`: that
the work queue is never full when the callback submits depends on how many steps of the tasks
fit between two ticks and on the period of the timer, which the run fixes.

## Not modelled, and why

- *Object registry* (`object.c`): a table that init functions append to and a
  debugger reads; every caller ignores its result.
- *Trace, debug snapshots, CPU usage, statistics, stack guards, idle hook*: nothing
  in the kernel reads what they write.
- *Assertions and fault capture*: they stop the system. The assertion of the
  scheduler is a property (`NoAssertFailure`).
- *Port, start-up, board, build and probe tools*: register save and restore,
  vectors, clocks, LEDs and host scripts. Modelled of the port are PendSV's pending bit
  and the two exception priorities.
- *Interrupts above SysTick*: the vector table names none that calls the kernel, and
  `rtos_task_tick()`, which has no critical section, would not be safe against one.
- *Mutexes*: the runs hold one at a time, the case `architecture.md:120-124` says the
  code is for, and owners do not exit. The proofs of lists and stranding cover any number
  of mutexes held at once; the inheritance is wrong there (unlock drops its caller to the
  base priority although it may hold another mutex, `mutex.c:198`).
- *Memory pools*: the pool keeps no record of who has a block. Any task may free any
  block that is in use, and the model assumes that it frees only those, once. That a
  woken waiter always carries a block, so that the loop of
  `rtos_mempool_alloc_timeout()` never goes round again, is a property
  (`HandOverIsExact`). Addresses and rounding are abstracted.
- *Work queue*: submissions before `rtos_work_init()`. The worker is there from the
  start, as in `main.c`.
- *A clock finer than the tick*, against which to measure a sleep.
