----------------------------- MODULE MCNicAgent -----------------------------
(***************************************************************************)
(* One interface agent and one gateway agent on the same netlink socket.   *)
(* A short has four bits here and the flags six.                           *)
(***************************************************************************)
EXTENDS NicAgent

CONSTANTS nic, gateway, worker

MCObjects == {nic, gateway}

MCUpdaters == {worker}

MCMessageTypes == {"newlink", "dellink", "newroute"}

\* 10 is down, with the sign bit of the short; 23 is up, with a flag that the
\* short of SIOCGIFFLAGS cannot hold, as IFF_LOWER_UP.  No index equals either.
MCLinkFlags == {10, 23}

=============================================================================
