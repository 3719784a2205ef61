------------------------------ MODULE MCSemaphore ------------------------------
EXTENDS Semaphore

(* Two tasks of one priority and one above them.                                *)
TwoPeersOneAbove == <<1, 2, 1>>
===============================================================================
