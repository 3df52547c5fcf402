------------------------------ MODULE HostAgent ------------------------------
(***************************************************************************)
(* One `network-host': IP::Agent, DNS::Agent or IP::Gateway (ip/agent.cc,  *)
(* dns/agent.cc, defaultgateway.cc, ip/factory.cc, ip/state.cc), over a    *)
(* resolver or the route table, and over ICMP::Controller as IcmpCheck     *)
(* promises it: one check of a worker at a time, that ends with at most    *)
(* one report.                                                             *)
(*                                                                         *)
(* Two threads meet in an agent, without a lock: refresh(), which the      *)
(* scheduler runs once at a time in a thread of the pool and which waits   *)
(* for the network; and the ICMP callback set(), in the main loop or in a  *)
(* timer job.  Both end in updated(true), which computes the state of the  *)
(* agent and then stores it: either thread may overtake the other between. *)
(* Computing it looks an address up in the interfaces of the machine, and  *)
(* throws when they cannot be listed.                                      *)
(***************************************************************************)
EXTENDS RouteDump

CONSTANTS
    Nodes,       \* XML nodes: [type, hostname, ip, server, icmp]
    Local,       \* the addresses in a subnet of one of the machine's interfaces
    Failures,    \* h_errno of a failed query: HOST_NOT_FOUND, TRY_AGAIN, ...
    Unreached,   \* ICMP::Response other than invalid and echo_reply
    Reach,       \* Reach[a]: how checks of a may end
    Level        \* level of each state; XML may give any

Nothing == "nothing"   \* no state has been computed that is not stored

Responses == {"echo_reply"} \cup Unreached

\* The responses that a packet brings; the others come from a timer job.
ByPacket == {"echo_reply", "destination_unreachable", "time_exceeded"}

IpStates  == {"local", "remote"}
DnsStates == {"success"} \cup Failures
States    == {"default", None} \cup IpStates \cup Responses \cup DnsStates

\* The threads that call updated(true).
Threads == {"refresh", "callback"}

ASSUME AddressAssumption ==
    /\ Local \subseteq Addresses
    /\ Addresses \cap {None, "broken", "alias"} = {}
    /\ Addresses \cap Failures = {}
    /\ Dumps \cap (Addresses \cup {"broken"}) = {}
    /\ Reach \in [Addresses -> SUBSET Responses]
ASSUME CodeAssumption ==
    /\ Failures \cap {None, Nothing, "success", "broken", "alias"} = {}
    /\ Nothing \notin Unreached
ASSUME LevelAssumption ==
    Level \in [States -> Nat] /\ Level[None] = 0 /\ Level["default"] = 0
ASSUME NodeAssumption ==
    /\ Nodes \subseteq [type: {"", "host", "default-gateway", "other"},
                        hostname: BOOLEAN, ip: Addresses \cup {None},
                        server: BOOLEAN, icmp: BOOLEAN]
    /\ \A n \in Nodes : n.type = "other" => n.hostname \/ n.ip # None

VARIABLES
    node,      \* the XML node the agent was built from
    world,     \* what a query, or a dump of the routes, would find now
    pc,        \* progress of refresh(), "idle" while it does not run
    answer,    \* what the query found, until refresh() has used it
    changed,   \* what refresh() is to return
    address,   \* the agent as IP::Address
    dns,       \* DNS::Agent::state
    icmp,      \* IP::Agent::icmp.state
    ip,        \* IP::Agent::ip.state
    matched,   \* Internal states that have found, and kept, a subnet
    checking,  \* ICMP::Worker::busy: a check is running
    asked,     \* where the requests of that check went
    computed,  \* what each thread has computed in updated(true) and not stored
    shown,     \* the state of the agent
    missed     \* the last news of refresh() came while a callback was computing
               \* the state, or its own computation threw: history

vars == <<node, world, pc, answer, changed, address, dns, icmp, ip, matched,
          checking, asked, computed, shown, missed>>

----------------------------------------------------------------------------
\* IP::Agent::Factory: without an attribute `type', a node is of type host.
Factory(n) ==
    CASE n.type \in {"", "host"}     -> "ip"
      [] n.type = "default-gateway"  -> "gateway"
      [] OTHER                       -> IF n.hostname THEN "dns" ELSE "ip"

Kind == Factory(node)

\* ICMP::Worker takes the attribute `ip' of any node: a name and a gateway start
\* with that address too.
Given == node.ip

\* "alias": the first record of the answer is a CNAME, which has no address;
\* "broken": no resolver, no socket, an answer that does not parse.
Worlds ==
    IF Kind = "gateway"   THEN Dumps \cup {"broken"}
    ELSE IF node.hostname THEN Addresses \cup Failures \cup {"alias", "broken"}
    ELSE                       {None}

----------------------------------------------------------------------------
(***************************************************************************)
(* computeState, with the two states of README.md:23-24 for ip.states.     *)
(***************************************************************************)

\* Internal::compare: an address is looked for in the interfaces; no address
\* is equal to a subnet that has not been found yet.
Compares(s, a) == IF a = None THEN s \notin matched
                              ELSE (a \in Local) = (s = "local")

IpState(a) == IF Compares("local", a) THEN "local"
              ELSE IF Compares("remote", a) THEN "remote" ELSE None

Worse(s, t) == IF Level[t] > Level[s] THEN t ELSE s

\* IP::Agent::computeState, then DNS::Agent::computeState.
Worst(i, c, d) == Worse(Worse(Worse("default", i), c), d)

\* The first half of updated(true) in a thread.  A comparison that finds the
\* address keeps its subnet.
Compute(thread) ==
    /\ ip' = IpState(address')
    /\ matched' = IF address' \in Local THEN matched \cup {"local"} ELSE matched
    /\ computed' = [computed EXCEPT ![thread] = Worst(ip', icmp', dns')]
    /\ UNCHANGED shown

\* The second half.
Publish(thread) ==
    /\ shown' = computed[thread]
    /\ computed' = [computed EXCEPT ![thread] = Nothing]
    /\ UNCHANGED <<ip, matched>>

NotUpdated == UNCHANGED <<ip, matched, computed, shown>>

Init ==
    /\ node \in Nodes
    /\ world \in Worlds
    /\ pc = "idle" /\ answer = None /\ changed = FALSE
    /\ address = Given
    /\ dns = None /\ icmp = None /\ ip = None
    /\ matched = {}
    /\ computed = [thread \in Threads |-> Nothing]
    /\ checking = FALSE /\ asked = {}
    /\ shown = "default"
    /\ missed = FALSE

----------------------------------------------------------------------------
(***************************************************************************)
(* refresh(), in a thread of the pool.                                     *)
(***************************************************************************)

\* Most steps of refresh() leave the check, and what it found, alone.
check == <<icmp, checking, asked>>

\* DNS::Agent and IP::Gateway first ask, a DNS::Agent with a server of its own for
\* the address of that server; IP::Agent has its address.
Refresh ==
    /\ pc = "idle"
    /\ \/ Kind = "ip" /\ pc' = "check" /\ UNCHANGED answer
       \/ Kind = "dns" /\ node.server /\ pc' = "server" /\ answer' \in Worlds
       \/ Kind # "ip" /\ ~(Kind = "dns" /\ node.server)
             /\ pc' = "asked" /\ answer' = world
    /\ NotUpdated
    /\ UNCHANGED <<node, world, changed, address, dns, check, missed>>

\* The first record of the server's name has no address: server.ip stays empty,
\* and the system's resolver is asked for the host.
ServerIsAlias ==
    /\ pc = "server" /\ answer = "alias"
    /\ pc' = "asked" /\ answer' = world
    /\ NotUpdated
    /\ UNCHANGED <<node, world, changed, address, dns, check, missed>>

\* Mutant: the answer is stored without a look at its outcome.
Resolved_AnyAnswer ==
    /\ pc = "asked" /\ Kind = "dns"
    /\ address' = answer
    /\ pc' = "named"
    /\ answer' = None
    /\ NotUpdated
    /\ UNCHANGED <<node, world, changed, dns, check, missed>>

\* DNS::Agent::refresh stores the address of the first record.
Resolved ==
    /\ pc = "asked" /\ Kind = "dns"
    /\ answer \in Addresses \cup {"alias"}
    /\ address' = IF answer = "alias" THEN None ELSE answer
    /\ pc' = "named"
    /\ answer' = None
    /\ NotUpdated
    /\ UNCHANGED <<node, world, changed, dns, check, missed>>

\* set(NETDB_SUCCESS) tells whether the state changed, and nobody listens.
SetSuccess ==
    /\ pc = "named"
    /\ dns' = "success"
    /\ pc' = "check"
    /\ missed' = FALSE
    /\ NotUpdated
    /\ UNCHANGED <<node, world, answer, changed, address, check>>

\* A callback in the middle of updated(true) has not seen a state set now.
Overtaking == missed' = IF dns' = dns THEN missed
                                         ELSE computed["callback"] # Nothing

\* Mutant: the DNS exception leaves the last address.
QueryFails_KeepsAddress ==
    /\ pc \in {"server", "asked"} /\ Kind = "dns"
    /\ answer \in Failures
    /\ UNCHANGED address
    /\ dns' = answer
    /\ changed' = (dns # answer)
    /\ pc' = "return"
    /\ Overtaking
    /\ answer' = None
    /\ NotUpdated
    /\ UNCHANGED <<node, world, check>>

\* Mutant: refresh() does not return what set() returned.
QueryFails_NotTold ==
    /\ pc \in {"server", "asked"} /\ Kind = "dns"
    /\ answer \in Failures
    /\ address' = None
    /\ dns' = answer
    /\ pc' = "return"
    /\ Overtaking
    /\ answer' = None
    /\ NotUpdated
    /\ UNCHANGED <<node, world, changed, check>>

\* catch(const DNS::Exception &), for the server's name or the host's.
QueryFails ==
    /\ pc \in {"server", "asked"} /\ Kind = "dns"
    /\ answer \in Failures
    /\ address' = None
    /\ dns' = answer
    /\ changed' = (dns # answer)
    /\ pc' = "return"
    /\ Overtaking
    /\ answer' = None
    /\ NotUpdated
    /\ UNCHANGED <<node, world, check>>

\* refresh() throws.  With a configured server it always does once the server has
\* an address: Resolver::set ends in a throw whatever it was given.  An
\* IP::Address may refuse the record of an alias.  catch(...) of DNS::Agent clears
\* the address and leaves the DNS state.
AskThrows ==
    /\ \/ pc \in {"server", "asked"} /\ answer = "broken"
       \/ pc \in {"server", "asked"} /\ Kind = "dns" /\ answer = "alias"
       \/ pc = "server" /\ answer \in Addresses
       \/ pc = "asked" /\ Kind = "gateway"
             /\ answer \in Dumps /\ Misread(Received(answer))
    /\ address' = IF Kind = "dns" THEN None ELSE address
    /\ pc' = "idle"
    /\ answer' = None
    /\ NotUpdated
    /\ UNCHANGED <<node, world, changed, dns, check, missed>>

\* Gateway::detect.
Detected ==
    /\ pc = "asked" /\ Kind = "gateway"
    /\ answer \in Dumps
    /\ LET datagram == Received(answer)
       IN /\ ~Misread(datagram)
          /\ \/ Taken(datagram) = {} /\ address' = None
             \/ \E i \in DOMAIN datagram :
                   LastTaken(datagram, i) /\ address' = datagram[i].gateway
    /\ changed' = (address' # address)
    /\ pc' = "check"
    /\ missed' = (missed /\ ~changed')
    /\ answer' = None
    /\ NotUpdated
    /\ UNCHANGED <<node, world, dns, check>>

\* IP::Agent::refresh without an address: ip.state is reset; set(ICMP::invalid)
\* returns early, as icmp.response is `invalid' from birth and never assigned.
NoAddress ==
    /\ pc = "check" /\ address = None
    /\ ip' = None
    /\ pc' = "return"
    /\ UNCHANGED <<node, world, answer, changed, address, dns, matched,
                   computed, shown, missed, check>>

\* Mutant: a check is started whether or not one is running.
HasAddress_Unguarded ==
    /\ pc = "check" /\ address # None
    /\ pc' = IF node.icmp THEN "start" ELSE "return"
    /\ NotUpdated
    /\ UNCHANGED <<node, world, answer, changed, address, dns, check, missed>>

\* IP::Agent::refresh reads `busy' without the controller's mutex...
HasAddress ==
    /\ pc = "check" /\ address # None
    /\ pc' = IF node.icmp /\ ~checking THEN "start" ELSE "return"
    /\ NotUpdated
    /\ UNCHANGED <<node, world, answer, changed, address, dns, check, missed>>

\* ... and start() takes it later.  The first request goes to the address.
StartCheck ==
    /\ pc = "start" /\ ~checking
    /\ checking' = TRUE
    /\ asked' = {address}
    /\ pc' = "return"
    /\ NotUpdated
    /\ UNCHANGED <<node, world, answer, changed, address, dns, icmp, missed>>

\* insert() throws: EBUSY, no raw socket, no permission.  What Gateway::refresh
\* would have returned is lost.
StartThrows ==
    /\ pc = "start"
    /\ pc' = "idle" /\ changed' = FALSE
    /\ NotUpdated
    /\ UNCHANGED <<node, world, answer, address, dns, check, missed>>

\* refresh() has returned, true for a failure or a gateway that is news.
Return ==
    /\ pc = "return"
    /\ UNCHANGED <<node, world, answer, changed, address, dns, icmp, missed>>
    /\ IF changed THEN pc' = "publish" /\ Compute("refresh")
                  ELSE pc' = "idle" /\ NotUpdated
    /\ UNCHANGED <<checking, asked>>

\* updated(true) throws.  What refresh() had to tell is lost.
ReturnThrows ==
    /\ pc = "return" /\ changed /\ address # None
    /\ ip' = None
    /\ pc' = "idle" /\ changed' = FALSE
    /\ missed' = TRUE
    /\ UNCHANGED <<node, world, answer, address, dns, matched, computed, shown,
                   check>>

PublishRefresh ==
    /\ pc = "publish"
    /\ pc' = "idle" /\ changed' = FALSE
    /\ Publish("refresh")
    /\ UNCHANGED <<node, world, answer, address, dns, check, missed>>

----------------------------------------------------------------------------
(***************************************************************************)
(* ICMP::Controller and the network.                                       *)
(***************************************************************************)

\* A check that has not ended: set() has not been called.
Waiting == checking /\ computed["callback"] = Nothing

\* Host::send takes the address the worker has now, which need not be that of
\* the request before; without an address it throws and catches.
Retry ==
    /\ Waiting /\ address # None
    /\ asked' = asked \cup {address}
    /\ NotUpdated
    /\ UNCHANGED <<node, world, pc, answer, changed, address, dns, icmp,
                   checking, missed>>

\* Mutant: set() forgets updated(true), and the controller goes on.
Set_NotUpdated(response) ==
    /\ Waiting
    /\ response \in UNION {Reach[a] : a \in asked}
    /\ icmp' = response
    /\ asked' = {} /\ checking' = FALSE
    /\ NotUpdated
    /\ UNCHANGED <<node, world, pc, answer, changed, address, dns, missed>>

\* IP::Agent::set, which does not look at the address it is given.  No response is
\* `invalid', so none is equal to icmp.response.
Set(response) ==
    /\ Waiting
    /\ response \in UNION {Reach[a] : a \in asked}
    /\ icmp' = response
    /\ asked' = {}
    /\ UNCHANGED <<node, world, pc, answer, changed, address, dns, checking,
                   missed>>
    /\ Compute("callback")

\* updated(true) throws, with the response stored.  onResponse catches it and the
\* host goes; a timer job does not erase the host, and the check goes on, to be
\* told of again.
SetThrows(response) ==
    /\ Waiting /\ address # None
    /\ response \in UNION {Reach[a] : a \in asked}
    /\ icmp' = response
    /\ ip' = None
    /\ IF response \in ByPacket THEN checking' = FALSE /\ asked' = {}
                                ELSE UNCHANGED <<checking, asked>>
    /\ UNCHANGED <<node, world, pc, answer, changed, address, dns, matched,
                   computed, shown, missed>>

CallbackThrows == \E response \in Responses : SetThrows(response)

\* Only when set() has returned does the controller clear `busy'.
PublishCallback ==
    /\ computed["callback"] # Nothing
    /\ Publish("callback")
    /\ checking' = FALSE
    /\ UNCHANGED <<node, world, pc, answer, changed, address, dns, icmp, asked,
                   missed>>

\* A packet of a type that onResponse does not know ends the check.
EndUnheard ==
    /\ Waiting
    /\ checking' = FALSE /\ asked' = {}
    /\ NotUpdated
    /\ UNCHANGED <<node, world, pc, answer, changed, address, dns, icmp,
                   missed>>

WorldChanges ==
    /\ world' \in Worlds \ {world}
    /\ NotUpdated
    /\ UNCHANGED <<node, pc, answer, changed, address, dns, check, missed>>

----------------------------------------------------------------------------
\* refresh(), where it does not need the controller.
Refreshing ==
    \/ Refresh \/ ServerIsAlias
    \/ Resolved \/ SetSuccess \/ QueryFails \/ AskThrows \/ Detected
    \/ NoAddress \/ HasAddress
    \/ Return \/ ReturnThrows \/ PublishRefresh

Next ==
    \/ Refreshing
    \/ StartCheck \/ StartThrows
    \/ Retry
    \/ \E response \in Responses : Set(response)
    \/ CallbackThrows \/ PublishCallback
    \/ EndUnheard
    \/ WorldChanges

Spec == Init /\ [][Next]_vars

\* The scheduler keeps refreshing (update-timer) and a query returns.  A check
\* can be started, and is reported on without a throw, if only now and then.
Fairness ==
    /\ WF_vars(Refresh)
    /\ WF_vars(ServerIsAlias \/ Resolved \/ QueryFails \/ AskThrows \/ Detected)
    /\ WF_vars(SetSuccess \/ NoAddress \/ HasAddress)
    /\ WF_vars(Return \/ PublishRefresh) /\ WF_vars(PublishCallback)
    /\ WF_vars(StartCheck \/ StartThrows) /\ SF_vars(StartCheck)
    /\ SF_vars(\E response \in Responses : Set(response))

FairSpec == Spec /\ Fairness

----------------------------------------------------------------------------
\* Type invariant of the agent.
TypeOK ==
    /\ node \in Nodes
    /\ world \in Worlds
    /\ pc \in {"idle", "server", "asked", "named", "check", "start", "return",
               "publish"}
    /\ answer \in Worlds \cup {None}
    /\ changed \in BOOLEAN
    /\ address \in Addresses \cup {None}
    /\ dns \in DnsStates \cup {None}
    /\ icmp \in Responses \cup {None}
    /\ ip \in IpStates \cup {None}
    /\ matched \subseteq IpStates
    /\ checking \in BOOLEAN /\ asked \subseteq Addresses
    /\ computed \in [Threads -> States \cup {Nothing}]
    /\ shown \in States
    /\ missed \in BOOLEAN

\* `busy' is read without the lock and acted upon later, while the controller
\* clears it in another thread: start() is still never refused with EBUSY.
StartIsNotRefused == pc = "start" => ~checking /\ address # None

\* An agent of a name shows no address, and checks none, that the last query did
\* not give: a failed query takes back the address of the one before.  The
\* address of its XML node is shown until the first query ends, and not checked.
AddressIsResolved ==
    Kind = "dns" /\ address # None =>
        \/ dns = "success" \/ pc = "named"
        \/ dns = None /\ address = Given /\ pc \in {"idle", "server", "asked"}

\* While the name does not resolve the agent shows a state at least as bad as
\* that of the failure, whatever ICMP callback stores its own meanwhile; or it is
\* about to (refresh() has yet to return true, or to publish).  The exception is
\* a callback that had computed the state when the failure came: it may store,
\* last of all, a state that knows nothing of the failure.
FailureIsShown ==
    dns \in Failures =>
        \/ Level[shown] >= Level[dns]
        \/ changed /\ pc \in {"return", "publish"}
        \/ missed

\* The network, or the XML node, has address a for the agent: a name with this
\* address, a route table that detect() reads rightly.
Tells(a) == \/ world = a
            \/ world \in Dumps /\ LoneGateway(world, a)
            \/ Kind = "ip" /\ Given = a

\* An agent that checks its address, or is a gateway, ends up with the address
\* that Tells, the last check about that address (set() does not look which
\* address it is told of) and the state that goes with both, whichever of two
\* threads stored last, once its callbacks no longer throw.  Left out are a name
\* with its own DNS server, which hardly gets an address (AskThrows), a gateway
\* without a check whose node already has its address (nothing changes, and
\* refresh() has nothing to tell), and the shown state of a gateway without a
\* check whose last news was `missed', as nothing computes it again.
AddressIsShown ==
    (/\ node.icmp \/ (Kind = "gateway" /\ Given = None)
     /\ ~node.server
     /\ <>[][~CallbackThrows]_vars) =>
        \A a \in Addresses :
            <>[]Tells(a) =>
                <>[](/\ address = a
                     /\ node.icmp => icmp \in Reach[a]
                     /\ computed["callback"] = Nothing /\ (node.icmp \/ ~missed)
                          => shown = Worst(IpState(a), icmp, dns))
=============================================================================
