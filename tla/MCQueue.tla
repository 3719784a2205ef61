-------------------------------- MODULE MCQueue --------------------------------
EXTENDS Queue, TLC

(* Two peers and one task above them.                                           *)
TwoPeersOneAbove == <<1, 1, 2>>

(* The code never looks into a message.                                         *)
MessageSymmetry == Permutations(Messages)
===============================================================================
