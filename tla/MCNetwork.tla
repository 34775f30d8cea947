------------------------------ MODULE MCNetwork ------------------------------
(***************************************************************************)
(* One node and a peer whose connections break.                            *)
(***************************************************************************)
EXTENDS Network
==============================================================================
