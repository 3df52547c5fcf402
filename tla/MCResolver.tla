------------------------------ MODULE MCResolver ------------------------------
(***************************************************************************)
(* Two waits, one that sleeps between its queries and one that does not,   *)
(* and an agent with a DNS server of its own.                              *)
(***************************************************************************)
EXTENDS Resolver

CONSTANTS w1, w2, agent

MCWaiters == {w1, w2}
MCAgents  == {agent}

\* w1 sleeps for longer than it takes to its limit at the second try.
MCTimeout  == [w \in MCWaiters |-> IF w = w1 THEN 3 ELSE 1]
MCInterval == [w \in MCWaiters |-> IF w = w1 THEN 2 ELSE 0]
=============================================================================
