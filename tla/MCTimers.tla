------------------------------- MODULE MCTimers -------------------------------
EXTENDS Timers, TLC

TimerSymmetry == Permutations(Timers)
===============================================================================
