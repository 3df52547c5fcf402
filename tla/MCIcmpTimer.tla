----------------------------- MODULE MCIcmpTimer -----------------------------
(***************************************************************************)
(* Constants of IcmpTimer for TLC: a worker with the default interval of   *)
(* one second and one with two.                                            *)
(***************************************************************************)
EXTENDS IcmpTimer

CONSTANTS w1, w2

MCWorkers == {w1, w2}

MCInterval == [w \in MCWorkers |-> IF w = w1 THEN 1 ELSE 2]
=============================================================================
