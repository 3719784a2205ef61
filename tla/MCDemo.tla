-------------------------------- MODULE MCDemo --------------------------------
EXTENDS Demo

(* The worker, the producer, the consumer, the timeout task and the one-shot.   *)
DemoPriorities == <<1, 1, 2, 1, 1>>
===============================================================================
