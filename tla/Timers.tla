-------------------------------- MODULE Timers --------------------------------
(* The software timers of timer.c: a linked list that the tick walks, counting  *)
(* each active timer down and calling back the ones that expire.  Callbacks run *)
(* inside the walk and start, stop and initialise timers themselves.            *)
(* The module knows no tasks: Demo puts its operations among theirs.            *)
EXTENDS Naturals, Sequences

CONSTANTS
    Timers,
    Periods     \* periods, in ticks, that timers are initialised with

ASSUME TimersAssumption == Periods \subseteq Nat \ {0}

VARIABLES
    timerList,      \* the list from timer_list on
    period,         \* period[r]: timer r's period_ticks, 0 before its rtos_timer_init()
    remaining,      \* its remaining_ticks
    reload, active,
    inTick,         \* the handler of SysTick is running
    walk,           \* the timers it has still to visit, the present one first
    firing          \* it is in the callback of the present one

(* What the last start of a timer promised: nothing, or how it was armed, and   *)
(* how many ticks have ended since.  No code reads it.                          *)
VARIABLE promise

timerVars == <<timerList, period, remaining, reload, active, inTick, walk, firing, promise>>

Nowhere == [by |-> "none", age |-> 0]
ArmedBy == {"none", "task", "callback", "reload"}

TimersInit ==
    /\ timerList = <<>>
    /\ period = [r \in Timers |-> 0]
    /\ remaining = [r \in Timers |-> 0]
    /\ reload = [r \in Timers |-> FALSE]
    /\ active = [r \in Timers |-> FALSE]
    /\ inTick = FALSE /\ walk = <<>> /\ firing = FALSE
    /\ promise = [r \in Timers |-> Nowhere]
-------------------------------------------------------------------------------
InList(r) == \E i \in 1 .. Len(timerList) : timerList[i] = r

(* Mutant of LinkTimer: a timer started again is linked again.                  *)
LinkTimer_Always(r) == timerList' = <<r>> \o timerList

(* link_timer(): once, in front of the others.                                  *)
LinkTimer(r) == timerList' = IF InList(r) THEN timerList ELSE <<r>> \o timerList

(* rtos_timer_init(), with the period in ticks, which is never 0; it also stops *)
(* the timer.                                                                   *)
TimerInit(r, ticks, again) ==
    /\ LinkTimer(r)
    /\ period' = [period EXCEPT ![r] = ticks]
    /\ remaining' = [remaining EXCEPT ![r] = ticks]
    /\ reload' = [reload EXCEPT ![r] = again]
    /\ active' = [active EXCEPT ![r] = FALSE]
    /\ promise' = [promise EXCEPT ![r] = Nowhere]
    /\ UNCHANGED <<inTick, walk, firing>>

(* rtos_timer_start(), of an initialised timer only.                            *)
TimerStart(r) ==
    /\ period[r] # 0
    /\ LinkTimer(r)
    /\ remaining' = [remaining EXCEPT ![r] = period[r]]
    /\ active' = [active EXCEPT ![r] = TRUE]
    /\ promise' = [promise EXCEPT ![r] =
          [by |-> IF inTick THEN "callback" ELSE "task", age |-> 0]]
    /\ UNCHANGED <<period, reload, inTick, walk, firing>>

TimerStop(r) ==
    /\ active' = [active EXCEPT ![r] = FALSE]
    /\ promise' = [promise EXCEPT ![r] = Nowhere]
    /\ UNCHANGED <<timerList, period, remaining, reload, inTick, walk, firing>>
-------------------------------------------------------------------------------
(* rtos_timer_tick(), one timer at a time.  A timer linked meanwhile is in      *)
(* front of the walk and waits for the next tick.                               *)
BeginWalk ==
    /\ ~inTick
    /\ inTick' = TRUE
    /\ walk' = timerList
    /\ UNCHANGED <<timerList, period, remaining, reload, active, firing, promise>>

Counted(r) == active[r] /\ remaining[r] > 0

PassOver ==
    /\ inTick /\ ~firing /\ walk # <<>>
    /\ ~Counted(Head(walk))
    /\ walk' = Tail(walk)
    /\ UNCHANGED <<timerList, period, remaining, reload, active, inTick, firing, promise>>

CountDown ==
    /\ inTick /\ ~firing /\ walk # <<>>
    /\ Counted(Head(walk))
    /\ remaining' = [remaining EXCEPT ![Head(walk)] = @ - 1]
    /\ firing' = (remaining[Head(walk)] = 1)
    /\ walk' = IF firing' THEN walk ELSE Tail(walk)
    /\ promise' = IF firing' /\ ~reload[Head(walk)]
                  THEN [promise EXCEPT ![Head(walk)] = Nowhere]
                  ELSE promise
    /\ UNCHANGED <<timerList, period, reload, active, inTick>>

(* Mutant of CallbackReturns: a periodic timer is not given its count back.     *)
CallbackReturns_NotRearmed ==
    /\ firing
    /\ firing' = FALSE
    /\ walk' = Tail(walk)
    /\ LET r == Head(walk)
       IN  /\ active' = [active EXCEPT ![r] = @ /\ reload[r]]
           /\ promise' = [promise EXCEPT ![r] =
                 IF reload[r] /\ @.by # "none"
                 THEN [by |-> "reload", age |-> 0] ELSE Nowhere]
    /\ UNCHANGED <<timerList, period, remaining, reload, inTick>>

(* After the callback.  A periodic timer starts over; any other one stops, even *)
(* if the callback has just started it again.                                   *)
CallbackReturns ==
    /\ firing
    /\ firing' = FALSE
    /\ walk' = Tail(walk)
    /\ LET r == Head(walk)
       IN  /\ IF reload[r]
              THEN /\ remaining' = [remaining EXCEPT ![r] = period[r]]
                   /\ UNCHANGED active
              ELSE /\ active' = [active EXCEPT ![r] = FALSE]
                   /\ UNCHANGED remaining
           /\ promise' = [promise EXCEPT ![r] =
                 IF reload[r] /\ @.by # "none"
                 THEN [by |-> "reload", age |-> 0] ELSE Nowhere]
    /\ UNCHANGED <<timerList, period, reload, inTick>>

(* The handler goes on behind rtos_timer_tick(): the tick is over.              *)
EndWalk ==
    /\ inTick /\ ~firing /\ walk = <<>>
    /\ inTick' = FALSE
    /\ promise' = [r \in Timers |->
          IF promise[r].by = "none" THEN Nowhere
          ELSE [promise[r] EXCEPT !.age = @ + 1]]
    /\ UNCHANGED <<timerList, period, remaining, reload, active, walk, firing>>

WalkStep == PassOver \/ CountDown \/ CallbackReturns
-------------------------------------------------------------------------------
UserCalls ==
    \E r \in Timers :
        \/ \E ticks \in Periods, again \in BOOLEAN : TimerInit(r, ticks, again)
        \/ TimerStart(r) \/ TimerStop(r)

(* Calls come from tasks, between the ticks, and from callbacks.                *)
TimersNext ==
    \/ (~inTick \/ firing) /\ UserCalls
    \/ BeginWalk \/ WalkStep \/ EndWalk

TimersSpec == TimersInit /\ [][TimersNext]_timerVars
-------------------------------------------------------------------------------
TimersTypeOK ==
    /\ timerList \in Seq(Timers)
    /\ period \in [Timers -> Nat] /\ remaining \in [Timers -> Nat]
    /\ \A r \in Timers : remaining[r] <= period[r]
    /\ reload \in [Timers -> BOOLEAN] /\ active \in [Timers -> BOOLEAN]
    /\ inTick \in BOOLEAN /\ firing \in BOOLEAN
    /\ walk \in Seq(Timers)
    /\ promise \in [Timers -> [by : ArmedBy, age : Nat]]

(* The list meets every timer that was initialised, once, and the walk is the   *)
(* end of it, whatever callbacks link in front meanwhile: the loop of           *)
(* rtos_timer_tick() ends and passes no timer over (timer.c:7-16, 77-97).       *)
WalkCoversList ==
    /\ \A r \in Timers : period[r] # 0 <=> InList(r)
    /\ \A i, j \in 1 .. Len(timerList) : timerList[i] = timerList[j] => i = j
    /\ Len(walk) <= Len(timerList)
    /\ \A i \in 1 .. Len(walk) : walk[i] = timerList[Len(timerList) - Len(walk) + i]

(* Timer r enters its callback.                                                 *)
Fires(r) == ~firing /\ firing' /\ r = Head(walk)

(* A timer fires when it is due and only then: in the tick its period after it  *)
(* was started, a tick sooner if a callback of that tick started it ahead of    *)
(* the walk; then period after period without a drift; and never after a stop,  *)
(* whatever order callbacks and tasks start, stop and re-initialise timers in.  *)
(* A one-shot timer that its own callback starts again is the exception the     *)
(* code makes: it stays stopped (timer.c:86-92).                                *)
FiresWhenDue(r) ==
    LET p == promise[r]
    IN  \/ p.by = "task" /\ p.age = period[r] - 1
        \/ p.by = "reload" /\ p.age = period[r]
        \/ p.by = "callback" /\ p.age \in {period[r] - 1, period[r]}
TimersFireOnTime ==
    [][\A r \in Timers :
          /\ Fires(r) => FiresWhenDue(r)
          /\ promise[r].by # "none" => promise[r].age <= period[r]]_timerVars
===============================================================================
