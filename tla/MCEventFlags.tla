----------------------------- MODULE MCEventFlags -----------------------------
EXTENDS EventFlags

(* Two peers and one task above them.                                           *)
TwoPeersOneAbove == <<1, 2, 1>>
(* Any flag, taking it; one flag, taking it; both flags, leaving them up.        *)
CONSTANTS a, b
ThreeRequests ==
    {[flags |-> {a, b}, all |-> FALSE, clear |-> TRUE],
     [flags |-> {a}, all |-> TRUE, clear |-> TRUE],
     [flags |-> {a, b}, all |-> TRUE, clear |-> FALSE]}
===============================================================================
