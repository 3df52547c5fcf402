-------------------------- MODULE MCIcmpController --------------------------
(***************************************************************************)
(* Constants of IcmpController for TLC.                                    *)
(***************************************************************************)
EXTENDS IcmpController

CONSTANTS w1, w2

MCWorkers == {w1, w2}

\* One worker with the default interval, one with twice as long.
MCInterval == [w \in MCWorkers |-> IF w = w1 THEN 1 ELSE 2]

=============================================================================
