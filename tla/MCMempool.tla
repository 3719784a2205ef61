------------------------------- MODULE MCMempool -------------------------------
EXTENDS Mempool

(* Two peers and one task above them.                                           *)
TwoPeersOneAbove == <<1, 1, 2>>
===============================================================================
