---------------------------- MODULE NicDocumented ----------------------------
(***************************************************************************)
(* What test.xml says of an interface agent, against NicAgent.             *)
(* The interface changes only while the agent is started, so that none of  *)
(* this is due to what start() itself may miss.                            *)
(***************************************************************************)
EXTENDS MCNicAgent

SettledNext == Next /\ (pc = "on" \/ link' = link)

SettledSpec == Init /\ [][SettledNext]_vars /\ Fairness

\* test.xml:20 gives an interface that is up the state `up'.  One that stays up
\* while its agent runs ends up in that state.
UpIsPublished ==
    <>[](pc = "on" /\ Present /\ link.flags % 2 = 1 /\ ~raced) =>
        <>[](published = "up")
=============================================================================
