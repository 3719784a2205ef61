------------------------------ MODULE MCWorkQueue ------------------------------
EXTENDS WorkQueue

(* The worker above an application task.                                        *)
WorkerAboveOne == <<2, 1>>
NoneOrAll == {{}, Bits}
===============================================================================
