------------------------------ MODULE MCScheduler ------------------------------
EXTENDS Scheduler

(* Two application tasks, the second more urgent.                               *)
TwoLevels == <<1, 2>>
(* Three application tasks: one urgent task and two peers below it.             *)
OneAboveTwo == <<1, 2, 1>>
===============================================================================
