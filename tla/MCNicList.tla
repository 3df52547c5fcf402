------------------------------ MODULE MCNicList ------------------------------
(***************************************************************************)
(* The loopback and one other interface, which change twice: enough for an *)
(* interface to be up at the first look of a loop, down at the second, and *)
(* up again later.                                                         *)
(***************************************************************************)
EXTENDS NicList

CONSTANTS lo, eth

MCNics == {lo, eth}
MCLoopback == {lo}
=============================================================================
