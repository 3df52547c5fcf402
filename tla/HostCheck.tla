------------------------------ MODULE HostCheck ------------------------------
(***************************************************************************)
(* A host agent and the ICMP controller that checks it, together: what     *)
(* HostAgent takes from the controller (a `busy' flag, at most one call of *)
(* set() that does not throw for each check, about an address the check    *)
(* has asked) is here done by IcmpController itself, among the checks of   *)
(* other workers.                                                          *)
(*                                                                         *)
(* The controller calls set() with its mutex held, so nothing that takes   *)
(* the mutex happens until set() has returned.  A call that throws is one  *)
(* step with the packet or the job that makes it.                          *)
(***************************************************************************)
EXTENDS IcmpController, Sequences

CONSTANTS
    Me,          \* the worker that is the agent
    Nodes, Addresses, Local, Failures, Dumps, Routes, Reach, Level

ASSUME MeAssumption == Me \in Workers

\* Whatever the address, a request may go unanswered, or not leave the machine.
ASSUME ReachAssumption ==
    /\ Reach \in [Addresses -> SUBSET Response]
    /\ \A a \in Addresses : {"timeout", "network_unreachable"} \subseteq Reach[a]

ASSUME MaxChecksAssumption == MaxChecks \in Nat

VARIABLES
    node, world, pc, answer, changed, address, dns, icmp, ip, matched,
    computed, shown, missed,   \* as in HostAgent
    sentTo    \* sentTo[c]: the addresses that the requests of check c went to

agentVars == <<node, world, pc, answer, changed, address, dns, icmp, ip,
               matched, computed, shown, missed>>

allVars == <<vars, agentVars, sentTo>>

Unreached == Response \ {"echo_reply"}

Mine == {h \in hosts : h.worker = Me}

\* The controller is inside a call of set().
Calling == computed["callback"] # "nothing"

Agent == INSTANCE HostAgent
            WITH checking <- busy[Me] \/ Calling,
                 asked <- UNION {sentTo[h.check] : h \in Mine}

\* What HostAgent asks of the constants, as far as it matters here.
ASSUME AgentAssumption ==
    /\ "none" \notin Addresses /\ {"none", "nothing"} \cap Failures = {}
    /\ Routes \in [Dumps -> Seq(Seq(Agent!Route))]
    /\ \A d \in Dumps : Routes[d] # <<>>
    /\ \A n \in Nodes : n.ip \in Addresses \cup {"none"}

CheckInit ==
    /\ Init
    /\ sentTo = [c \in 1..MaxChecks |-> {}]
    /\ Agent!Init

----------------------------------------------------------------------------
RefreshStep ==
    /\ UNCHANGED <<vars, sentTo>>
    /\ Agent!Refreshing \/ Agent!WorldChanges

\* ICMP::Worker::start: the constructor of the host sends to the address.
AgentStarts ==
    /\ pc = "start" /\ ~Calling
    /\ Start(Me)
    /\ sentTo' = [sentTo EXCEPT ![started + 1] = {address}]
    /\ pc' = "return"
    /\ UNCHANGED <<node, world, answer, changed, address, dns, icmp, ip,
                   matched, computed, shown, missed>>

\* insert() throws: EBUSY, or start() has failed.
AgentIsRefused ==
    /\ ~Calling
    /\ StartFails(Me) \/ (busy[Me] /\ UNCHANGED vars)
    /\ UNCHANGED sentTo
    /\ Agent!StartThrows

----------------------------------------------------------------------------
(***************************************************************************)
(* What a step of the controller does to the agent.                        *)
(***************************************************************************)

\* IP::Agent::set, up to where it has computed the state of the agent.
Callback(response) ==
    /\ icmp' = response
    /\ UNCHANGED <<node, world, pc, answer, changed, address, dns, missed>>
    /\ Agent!Compute("callback")

\* The same up to where the computation throws.
Throws(response) ==
    /\ Me \in MayThrow /\ address # "none"
    /\ icmp' = response /\ ip' = "none"
    /\ UNCHANGED <<node, world, pc, answer, changed, address, dns, matched,
                   computed, shown, missed>>

\* The calls of set() for the agent, in this step, that end its check.
News == {r \in reports' \ reports : r.worker = Me /\ ~r.kept}

Calls == \/ News = {} /\ UNCHANGED agentVars
         \/ \E r \in News : Callback(r.response)

\* The network: what a packet says of our check is true of an address asked.
Truthful(check, type) ==
    ResponseTo(type) \subseteq UNION {Reach[a] : a \in sentTo[check]}

\* The packet is about a check of the agent or of another worker, about which
\* nothing is said.  One that does not repeat the icmp_id is as good as lost.
PacketArrives ==
    /\ ~Calling
    /\ \E check \in wire, type \in CarriesId :
          /\ sentTo[check] # {} => Truthful(check, type)
          /\ HandleEvent(check, type)
    /\ UNCHANGED sentTo
    /\ Calls \/ \E r \in News : Throws(r.response)

\* A host that is sent again asks the address the worker has now; without one
\* Controller::send refuses it, in a throw that Host::send catches.
Resends(fate) ==
    /\ address = "none" => Mine \cap DOMAIN fate \subseteq With(fate, "failed")
    /\ sentTo' = [c \in 1..MaxChecks |->
                     IF \E h \in Mine \cap With(fate, "sent") : h.check = c
                       THEN sentTo[c] \cup {address} ELSE sentTo[c]]

\* The job visits all hosts.  The agent's set() throws in the nested remove_if of
\* a request that found no network, and the job goes on; or it throws, or that
\* of another worker does, in the remove_if of the job, which ends.
JobRuns ==
    /\ ~Calling
    /\ \/ \E fate \in Outcomes(hosts) :
             /\ RunJob(fate)
             /\ Resends(fate)
             /\ IF Mine \cap With(fate, "thrown") = {}
                  THEN Calls ELSE Throws("network_unreachable")
       \/ \E h \in hosts : \E fate \in Outcomes(Before(h)) :
             /\ AbortJob(h, fate)
             /\ Resends(fate)
             /\ IF h \in Mine THEN Throws("timeout")
                ELSE IF Mine \cap With(fate, "thrown") = {}
                  THEN Calls ELSE Throws("network_unreachable")

\* set() returns; the controller has cleared `busy'.
CallReturns ==
    /\ UNCHANGED <<vars, sentTo>>
    /\ Agent!PublishCallback

Others ==
    /\ \/ ~Calling /\ \E w \in Workers \ {Me} : Start(w) \/ StartFails(w) \/ Stop(w)
       \/ OnTimer \/ Tick
       \/ \E check \in wire : Lose(check)
    /\ UNCHANGED <<agentVars, sentTo>>

----------------------------------------------------------------------------
CheckNext ==
    \/ RefreshStep
    \/ AgentStarts \/ AgentIsRefused
    \/ PacketArrives \/ JobRuns \/ CallReturns
    \/ Others

CheckSpec == CheckInit /\ [][CheckNext]_allVars

\* The controller does for the agent what HostAgent takes from it: no start is
\* refused that `busy' allowed, set() returns once for each check, and is called
\* only while it runs and with the fate of an address which that check has asked.
AgentIsServed == Agent!Spec

\* refresh() reads `busy' without the mutex and starts the check later: whatever
\* job, packet or other worker gets the mutex between, the controller still has no
\* check of the agent, nor is it calling set(), and EBUSY is never the answer.
StartIsAccepted ==
    pc = "start" => ~busy[Me] /\ Mine = {} /\ ~Calling /\ address \in Addresses
=============================================================================
