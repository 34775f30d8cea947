--------------------------- MODULE MCMasterOverride ---------------------------
(***************************************************************************)
(* Two peers: the smallest number for which a command is sent twice, and   *)
(* for which one node's answers can stand for another's.                   *)
(***************************************************************************)
EXTENDS MasterOverride, TLC

Symmetry == Permutations(Peer)
==============================================================================
