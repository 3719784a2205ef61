-------------------------------- MODULE MCMutex --------------------------------
EXTENDS Mutex

(* Three tasks of three priorities.                                             *)
ThreeLevels == <<1, 2, 3>>
(* Two urgent peers above one task.                                             *)
TwoAboveOne == <<1, 2, 2>>
===============================================================================
