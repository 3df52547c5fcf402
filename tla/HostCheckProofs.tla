--------------------------- MODULE HostCheckProofs ---------------------------
(***************************************************************************)
(* The controller gives a host agent what HostAgent takes from it, for any *)
(* workers, intervals, XML nodes, addresses, levels and bounds.            *)
(***************************************************************************)
EXTENDS HostCheck, IcmpControllerProofs

\* What the agent keeps of the types; the rest of HostAgent is not needed here.
AgentInv ==
    /\ address \in Addresses \cup {"none"}
    /\ pc = "start" => address \in Addresses
    /\ dns \in Agent!DnsStates \cup {"none"}
    /\ icmp \in Agent!Responses \cup {"none"}
    /\ computed \in [Agent!Threads -> Agent!States \cup {"nothing"}]

\* A check of the agent has asked an address, and none is listed while set() has
\* not returned.
LinkInv ==
    /\ sentTo \in [1..MaxChecks -> SUBSET Addresses]
    /\ Calling => ~busy[Me]
    /\ \A h \in Mine : h.check \in 1..MaxChecks /\ sentTo[h.check] # {}

CheckInv == IInv /\ AgentInv /\ LinkInv

----------------------------------------------------------------------------
LEMMA StepOfController == CheckNext => [Next]_vars
  BY MeAssumption, CarriesIdAssumption
     DEF CheckNext, RefreshStep, AgentStarts, AgentIsRefused, PacketArrives,
         JobRuns, CallReturns, Others, Next, JobEnds, JobThrows

LEMMA ControllerInvariance == CheckSpec => []IInv
<1>1. CheckInit => Init
  BY DEF CheckInit
<1>2. [CheckNext]_allVars => [Next]_vars
  BY StepOfController DEF allVars
<1> QED
  BY <1>1, <1>2, Invariance, PTL DEF CheckSpec, Spec

----------------------------------------------------------------------------
\* The states the agent may compute; "nothing" is not one of them.
LEMMA WorstIsState ==
    ASSUME NEW i \in Agent!States, NEW c \in Agent!States, NEW d \in Agent!States
    PROVE  Agent!Worst(i, c, d) \in Agent!States
  BY DEF Agent!Worst, Agent!Worse, Agent!States

LEMMA NothingIsNoState == "nothing" \notin Agent!States
  BY AgentAssumption
     DEF Agent!States, Agent!None, Agent!IpStates, Agent!Responses,
         Agent!DnsStates, Unreached, Response

LEMMA ComputeType ==
    ASSUME AgentInv, NEW thread \in Agent!Threads, Agent!Compute(thread),
           icmp' \in Agent!Responses \cup {"none"},
           dns' \in Agent!DnsStates \cup {"none"}
    PROVE  /\ computed' \in [Agent!Threads -> Agent!States \cup {"nothing"}]
           /\ computed'[thread] # "nothing"
           /\ \A t \in Agent!Threads \ {thread} : computed'[t] = computed[t]
<1>1. ip' \in Agent!States /\ icmp' \in Agent!States /\ dns' \in Agent!States
  BY DEF Agent!Compute, Agent!IpState, Agent!States, Agent!IpStates, Agent!None
<1>2. Agent!Worst(ip', icmp', dns') \in Agent!States
  BY <1>1, WorstIsState
<1> QED
  BY <1>2, NothingIsNoState DEF Agent!Compute, AgentInv

\* The steps of refresh() keep the agent's part, and do not touch the callback's.
LEMMA RefreshingKeeps ==
    ASSUME AgentInv, Agent!Refreshing \/ Agent!WorldChanges \/ Agent!StartThrows
    PROVE  AgentInv' /\ Calling' = Calling
<1> USE DEF Agent!NotUpdated, Agent!check, Agent!None
<1>1. CASE Agent!Refresh \/ Agent!ServerIsAlias
  BY <1>1 DEF Agent!Refresh, Agent!ServerIsAlias, AgentInv, Calling
<1>2. CASE Agent!Resolved
  BY <1>2 DEF Agent!Resolved, AgentInv, Calling
<1>3. CASE Agent!SetSuccess
  BY <1>3 DEF Agent!SetSuccess, Agent!DnsStates, AgentInv, Calling
<1>4. CASE Agent!QueryFails
  BY <1>4 DEF Agent!QueryFails, Agent!DnsStates, AgentInv, Calling
<1>5. CASE Agent!AskThrows
  BY <1>5 DEF Agent!AskThrows, AgentInv, Calling
<1>6. CASE Agent!Detected
  <2>1. Routes[answer] \in Seq(Seq(Agent!Route)) /\ Routes[answer] # <<>>
    BY <1>6, AgentAssumption DEF Agent!Detected
  <2>2. Agent!Received(answer) \in Seq(Agent!Route)
    BY <2>1 DEF Agent!Received
  <2>3. ASSUME NEW datagram \in Seq(Agent!Route), NEW i \in DOMAIN datagram
        PROVE  datagram[i].gateway \in Addresses \cup {"none"}
    <3>1. datagram[i] \in Agent!Route
      OBVIOUS
    <3> QED
      BY <3>1 DEF Agent!Route
  <2>4. address' \in Addresses \cup {"none"}
    BY <1>6, <2>2, <2>3 DEF Agent!Detected
  <2> QED
    BY <1>6, <2>4 DEF Agent!Detected, AgentInv, Calling
<1>7. CASE Agent!NoAddress
  BY <1>7 DEF Agent!NoAddress, AgentInv, Calling
<1>8. CASE Agent!HasAddress
  BY <1>8 DEF Agent!HasAddress, AgentInv, Calling
<1>9. CASE Agent!Return
  <2>1. CASE changed
    <3>1. Agent!Compute("refresh") /\ "refresh" \in Agent!Threads
          /\ "callback" \in Agent!Threads
      BY <1>9, <2>1 DEF Agent!Return, Agent!Threads
    <3>2. icmp' = icmp /\ dns' = dns
      BY <1>9 DEF Agent!Return
    <3>3. computed' \in [Agent!Threads -> Agent!States \cup {"nothing"}]
          /\ computed'["callback"] = computed["callback"]
      BY <3>1, <3>2, ComputeType DEF AgentInv
    <3> QED
      BY <1>9, <2>1, <3>3 DEF Agent!Return, AgentInv, Calling
  <2>2. CASE ~changed
    BY <1>9, <2>2 DEF Agent!Return, AgentInv, Calling
  <2> QED
    BY <2>1, <2>2
<1>10. CASE Agent!PublishRefresh
  BY <1>10 DEF Agent!PublishRefresh, Agent!Publish, Agent!Nothing,
               Agent!Threads, AgentInv, Calling
<1>11. CASE Agent!WorldChanges
  BY <1>11 DEF Agent!WorldChanges, AgentInv, Calling
<1>12. CASE Agent!StartThrows
  BY <1>12 DEF Agent!StartThrows, AgentInv, Calling
<1>13. CASE Agent!ReturnThrows
  BY <1>13 DEF Agent!ReturnThrows, AgentInv, Calling
<1> QED
  BY <1>1, <1>2, <1>3, <1>4, <1>5, <1>6, <1>7, <1>8, <1>9, <1>10, <1>11, <1>12,
     <1>13
     DEF Agent!Refreshing

----------------------------------------------------------------------------
(***************************************************************************)
(* What the controller does, seen from the agent.                          *)
(***************************************************************************)

\* The substitutions of Agent.
Checking == busy[Me] \/ Calling
Asked == UNION {sentTo[h.check] : h \in Mine}

\* The next step as HostAgent sees it.
Served == [Agent!Next]_(Agent!vars)

\* Nothing the agent sees has changed.
LEMMA UnseenServes ==
    ASSUME UNCHANGED agentVars, Checking' = Checking, Asked' = Asked
    PROVE  Served
  BY DEF Served, Agent!vars, agentVars, Checking, Asked

\* The agent's host, if there is one, and `busy'.
LEMMA MyHost ==
    ASSUME IInv
    PROVE  /\ busy[Me] <=> Mine # {}
           /\ \A g, h \in Mine : g = h
  BY MeAssumption DEF IInv, BusyIffListed, Mine

\* Steps of the controller that neither start nor end the agent's check, nor send
\* for it.
LEMMA OtherChecks ==
    ASSUME UNCHANGED <<agentVars, sentTo>>, Mine' = Mine, busy'[Me] = busy[Me]
    PROVE  Served
  BY UnseenServes DEF Checking, Asked, Calling, agentVars

\* The addresses of a resent request.
SendsAgain ==
    \A h \in Mine : \/ sentTo'[h.check] = sentTo[h.check]
                    \/ /\ address \in Addresses
                       /\ sentTo'[h.check] = sentTo[h.check] \cup {address}

\* What is reported is the fate of an address that the check has asked.
Deserved ==
    \A r \in News : \A h \in Mine : r.check = h.check =>
        r.response \in Response
          /\ r.response \in UNION {Reach[a] : a \in sentTo[h.check]}

\* However the controller ends the checks of `gone', the agent is served.
LEMMA EndsServes ==
    ASSUME CheckInv, NEW gone \in SUBSET hosts, Ends(gone),
           ~Calling, Calls, SendsAgain, Deserved
    PROVE  Served
<1>1. \A r \in News : \E h \in gone \cap Mine : r.check = h.check
  BY DEF News, Ends, Mine
<1>2. busy'[Me] <=> busy[Me] /\ \A h \in gone : h.worker # Me
  BY MeAssumption DEF Ends, Release
<1>3. (busy[Me] <=> Mine # {}) /\ \A g, h \in Mine : g = h
  BY MyHost DEF CheckInv
<1>4. \A h \in Mine' : \E g \in Mine \ gone : h.check = g.check
  BY DEF Ends, Mine
<1>5. \A g \in Mine \ gone : \E h \in Mine' : h.check = g.check
  BY DEF Ends, Mine
<1>6. CASE Mine = {}
  <2>1. News = {} /\ UNCHANGED agentVars
    BY <1>1, <1>6 DEF Calls
  <2>2. Mine' = {} /\ ~busy'[Me] /\ ~busy[Me]
    BY <1>2, <1>3, <1>4, <1>6
  <2>3. Asked' = Asked
    BY <1>6, <2>2 DEF Asked
  <2> QED
    BY <2>1, <2>2, <2>3, UnseenServes DEF Checking, Calling, agentVars
<1>7. ASSUME NEW h \in Mine, h \in gone PROVE Served
  <2>1. Mine' = {} /\ ~busy'[Me] /\ busy[Me]
    BY <1>2, <1>3, <1>4, <1>7 DEF Mine
  <2>2. Asked' = {} /\ Asked = sentTo[h.check]
    BY <1>3, <2>1 DEF Asked
  <2>3. CASE News = {}
    <3>1. UNCHANGED agentVars
      BY <2>3 DEF Calls
    <3>2. Agent!EndUnheard
      BY <2>1, <2>2, <3>1
         DEF Agent!EndUnheard, Agent!Waiting, Agent!Nothing, Agent!NotUpdated,
             Calling, Asked, agentVars
    <3> QED
      BY <3>2 DEF Served, Agent!Next
  <2>4. ASSUME NEW r \in News, Callback(r.response) PROVE Served
    <3>1. r.check = h.check
      BY <1>1, <1>3
    <3>2. r.response \in Agent!Responses
          /\ r.response \in UNION {Reach[a] : a \in Asked}
      BY <2>2, <3>1 DEF Deserved, Agent!Responses, Unreached
    <3>3. Agent!Compute("callback") /\ "callback" \in Agent!Threads
          /\ icmp' = r.response /\ dns' = dns
      BY <2>4 DEF Callback, Agent!Threads
    <3>4. Calling'
      BY <3>2, <3>3, ComputeType DEF CheckInv, AgentInv, Calling
    <3>5. Agent!Set(r.response)
      BY <2>1, <2>2, <2>4, <3>2, <3>3, <3>4
         DEF Agent!Set, Agent!Waiting, Agent!Nothing, Callback, Calling, Asked
    <3> QED
      BY <3>2, <3>5 DEF Served, Agent!Next
  <2> QED
    BY <2>3, <2>4 DEF Calls
<1>8. ASSUME NEW h \in Mine, h \notin gone PROVE Served
  <2>1. News = {} /\ UNCHANGED agentVars
    BY <1>1, <1>3, <1>8 DEF Calls
  <2>2. busy[Me] /\ busy'[Me]
    BY <1>2, <1>3, <1>8 DEF Mine
  <2>3. Asked = sentTo[h.check] /\ Asked' = sentTo'[h.check]
    BY <1>3, <1>4, <1>5, <1>8 DEF Asked
  <2>4. CASE Asked' = Asked
    BY <2>1, <2>2, <2>4, UnseenServes DEF Checking
  <2>5. CASE address \in Addresses /\ Asked' = Asked \cup {address}
    <3>1. Agent!Retry
      BY <2>1, <2>2, <2>5, AgentAssumption
         DEF Agent!Retry, Agent!Waiting, Agent!Nothing, Agent!None,
             Agent!NotUpdated, Calling, Asked, agentVars
    <3> QED
      BY <3>1 DEF Served, Agent!Next
  <2> QED
    BY <2>3, <2>4, <2>5 DEF SendsAgain
<1> QED
  BY <1>6, <1>7, <1>8

\* Ending checks keeps the invariant: set() is called about a host that is gone.
LEMMA EndsKeepsLink ==
    ASSUME CheckInv, NEW gone \in SUBSET hosts, Ends(gone),
           ~Calling, Calls, SendsAgain, Deserved,
           sentTo' \in [1..MaxChecks -> SUBSET Addresses]
    PROVE  AgentInv' /\ LinkInv'
<1>1. ASSUME NEW h \in Mine'
      PROVE  h.check \in 1..MaxChecks /\ sentTo'[h.check] # {}
  <2>1. PICK g \in Mine : h.check = g.check
    BY DEF Ends, Mine
  <2> QED
    BY <2>1 DEF CheckInv, LinkInv, SendsAgain
<1>2. CASE News = {} /\ UNCHANGED agentVars
  BY <1>1, <1>2 DEF CheckInv, AgentInv, LinkInv, Calling, agentVars
<1>3. ASSUME NEW r \in News, Callback(r.response)
      PROVE  AgentInv' /\ LinkInv'
  <2>1. PICK h \in gone : h.worker = Me /\ r.check = h.check
    BY DEF News, Ends
  <2>2. ~busy'[Me]
    BY <2>1, MeAssumption DEF Ends, Release
  <2>3. r.response \in Agent!Responses
    BY <2>1 DEF Deserved, Mine, Agent!Responses, Unreached
  <2>4. Agent!Compute("callback") /\ "callback" \in Agent!Threads
        /\ icmp' = r.response /\ dns' = dns /\ address' = address /\ pc' = pc
    BY <1>3 DEF Callback, Agent!Threads
  <2>5. AgentInv'
    BY <2>3, <2>4, ComputeType DEF CheckInv, AgentInv
  <2> QED
    BY <1>1, <2>2, <2>5 DEF CheckInv, LinkInv
<1> QED
  BY <1>2, <1>3 DEF Calls

\* A call of set() that throws ends the check of a packet, and leaves that of a
\* timer job as it was.
LEMMA ThrowServes ==
    ASSUME CheckInv, NEW gone \in SUBSET hosts, Ends(gone), ~Calling,
           NEW h \in Mine, NEW response \in Response, Throws(response),
           response \in UNION {Reach[a] : a \in sentTo[h.check]},
           h \in gone <=> response \in Agent!ByPacket,
           sentTo'[h.check] = sentTo[h.check],
           sentTo' \in [1..MaxChecks -> SUBSET Addresses]
    PROVE  Served /\ AgentInv' /\ LinkInv'
<1>1. busy[Me] /\ Mine = {h}
  BY MyHost DEF CheckInv
<1>2. busy'[Me] <=> h \notin gone
  <2>1. busy'[Me] <=> busy[Me] /\ \A g \in gone : g.worker # Me
    BY MeAssumption DEF Ends, Release
  <2>2. \A g \in gone : g.worker = Me => g = h
    BY <1>1 DEF Mine
  <2> QED
    BY <1>1, <2>1, <2>2 DEF Mine
<1>3. \A g \in Mine' : g.check = h.check
  BY <1>1 DEF Ends, Mine
<1>4. Mine' = {} <=> h \in gone
  BY <1>1 DEF Ends, Mine
<1>5. Asked = sentTo[h.check]
  BY <1>1 DEF Asked
<1>6. Asked' = IF h \in gone THEN {} ELSE Asked
  <2>1. CASE h \in gone
    BY <1>4, <2>1 DEF Asked
  <2>2. CASE h \notin gone
    <3>1. Asked' = sentTo'[h.check]
      BY <1>3, <1>4, <2>2 DEF Asked
    <3> QED
      BY <1>5, <2>2, <3>1
  <2> QED
    BY <2>1, <2>2
<1>7. Calling' = Calling
  BY DEF Throws, Calling
<1>8. response \in Agent!Responses
  BY DEF Agent!Responses, Unreached
<1>9. Agent!SetThrows(response)
  BY <1>1, <1>2, <1>5, <1>6, <1>7
     DEF Throws, Agent!SetThrows, Agent!Waiting, Agent!Nothing, Agent!None,
         Calling, Asked
<1>10. AgentInv'
  BY <1>8 DEF Throws, CheckInv, AgentInv
<1>11. LinkInv'
  <2>1. ASSUME NEW g \in Mine'
        PROVE  g.check \in 1..MaxChecks /\ sentTo'[g.check] # {}
    BY <1>3, <2>1 DEF CheckInv, LinkInv
  <2> QED
    BY <1>7, <2>1 DEF LinkInv
<1> QED
  BY <1>8, <1>9, <1>10, <1>11 DEF Served, Agent!Next, Agent!CallbackThrows

----------------------------------------------------------------------------
(***************************************************************************)
(* The steps.                                                              *)
(***************************************************************************)
LEMMA PacketServes ==
    ASSUME CheckInv, IInv', PacketArrives
    PROVE  Served /\ AgentInv' /\ LinkInv'
<1>1. PICK check \in wire, type \in CarriesId :
         /\ sentTo[check] # {} => Truthful(check, type)
         /\ HandleEvent(check, type)
  BY DEF PacketArrives
<1>2. ~Calling /\ sentTo' = sentTo
  BY DEF PacketArrives
<1> DEFINE gone == Answered(check, type)
<1>3. Ends(gone) /\ gone \subseteq hosts
  BY <1>1, CarriesIdAssumption, HandleEventEnds DEF CheckInv, Answered, Matching
<1>4. SendsAgain
  BY <1>2 DEF SendsAgain
<1>5. ASSUME NEW r \in News, NEW h \in Mine, r.check = h.check
      PROVE  r.response \in Response \cap ResponseTo(type)
               /\ r.response \in UNION {Reach[a] : a \in sentTo[h.check]}
  <2>1. PICK g \in gone, response \in ResponseTo(type) :
           r = ReportOf(g, response, check)
    BY <1>1 DEF HandleEvent, News
  <2>2. r.cause = check /\ r.response = response
    BY <2>1 DEF ReportOf
  <2>3. r.cause = r.check /\ r.response \in Response
    BY DEF News, IInv, AnswerIsOwn, TypeOK, Report
  <2>4. sentTo[h.check] # {} /\ h.check = check
    BY <1>5, <2>2, <2>3 DEF CheckInv, LinkInv
  <2> QED
    BY <1>1, <2>2, <2>3, <2>4 DEF Truthful
<1>6. sentTo' \in [1..MaxChecks -> SUBSET Addresses]
  BY <1>2 DEF CheckInv, LinkInv
<1> HIDE DEF gone
<1>7. CASE Calls
  BY <1>2, <1>3, <1>4, <1>5, <1>6, <1>7, EndsServes, EndsKeepsLink DEF Deserved
<1>8. ASSUME NEW r \in News, Throws(r.response)
      PROVE  Served /\ AgentInv' /\ LinkInv'
  <2>1. PICK h \in Mine : h \in gone /\ r.check = h.check
    BY <1>3 DEF News, Ends, Mine
  <2>2. r.response \in Response \cap ResponseTo(type)
          /\ r.response \in UNION {Reach[a] : a \in sentTo[h.check]}
    BY <1>5, <2>1
  <2>3. r.response \in Agent!ByPacket
    BY <2>2 DEF ResponseTo, Agent!ByPacket
  <2> QED
    BY <1>2, <1>3, <1>6, <1>8, <2>1, <2>2, <2>3, ThrowServes
<1> QED
  BY <1>7, <1>8 DEF PacketArrives

\* What the job reports may befall any address.
LEMMA JobResponseDeserved ==
    ASSUME CheckInv, NEW h \in Mine,
           NEW response \in {"timeout", "network_unreachable"}
    PROVE  /\ response \in Response /\ response \notin Agent!ByPacket
           /\ response \in UNION {Reach[a] : a \in sentTo[h.check]}
<1>1. PICK a \in sentTo[h.check] : a \in Addresses
  BY DEF CheckInv, LinkInv
<1>2. response \in Reach[a]
  BY <1>1, ReachAssumption
<1> QED
  BY <1>1, <1>2 DEF Response, Agent!ByPacket

LEMMA VisitDeserved ==
    ASSUME CheckInv, NEW seen, NEW fate, NEW aborted, Visit(seen, fate, aborted)
    PROVE  Deserved
<1>1. \A r \in News : r.response \in {"timeout", "network_unreachable"}
  BY DEF Visit, News, ReportOf, KeptBy
<1> QED
  BY <1>1, JobResponseDeserved DEF Deserved

\* A request is sent again only to an address the agent has.
LEMMA ResendsType ==
    ASSUME CheckInv, NEW fate, Resends(fate)
    PROVE  /\ SendsAgain
           /\ sentTo' \in [1..MaxChecks -> SUBSET Addresses]
           /\ \A h \in Mine : h \notin With(fate, "sent") =>
                                  sentTo'[h.check] = sentTo[h.check]
<1>1. Mine \cap With(fate, "sent") # {} => address \in Addresses
  BY DEF Resends, With, CheckInv, AgentInv
<1>2. sentTo' \in [1..MaxChecks -> SUBSET Addresses]
  BY <1>1 DEF Resends, CheckInv, LinkInv
<1>3. SendsAgain
  BY <1>1 DEF Resends, SendsAgain, CheckInv, LinkInv
<1>4. ASSUME NEW h \in Mine, h \notin With(fate, "sent")
      PROVE  sentTo'[h.check] = sentTo[h.check]
  <2>1. \A g \in Mine : g = h
    BY MyHost DEF CheckInv
  <2> QED
    BY <1>4, <2>1 DEF Resends, CheckInv, LinkInv
<1> QED
  BY <1>2, <1>3, <1>4

LEMMA JobServes ==
    ASSUME CheckInv, JobRuns
    PROVE  Served /\ AgentInv' /\ LinkInv'
<1>1. ~Calling
  BY DEF JobRuns
<1>2. ASSUME NEW seen \in SUBSET hosts, NEW fate \in Outcomes(seen),
             NEW aborted \in SUBSET (hosts \ seen),
             Visit(seen, fate, aborted), started' = started, Resends(fate)
      PROVE  /\ Ends(Gone(seen, fate)) /\ Gone(seen, fate) \subseteq hosts
             /\ Calls => Served /\ AgentInv' /\ LinkInv'
  <2>1. Ends(Gone(seen, fate)) /\ Gone(seen, fate) \subseteq hosts
    BY <1>2, VisitEnds DEF CheckInv
  <2>2. Deserved
    BY <1>2, VisitDeserved
  <2> QED
    BY <1>1, <1>2, <2>1, <2>2, ResendsType, EndsServes, EndsKeepsLink
<1>3. ASSUME NEW seen \in SUBSET hosts, NEW fate \in Outcomes(seen),
             NEW aborted \in SUBSET (hosts \ seen),
             Visit(seen, fate, aborted), started' = started, Resends(fate),
             Mine \cap With(fate, "thrown") # {},
             Throws("network_unreachable")
      PROVE  Served /\ AgentInv' /\ LinkInv'
  <2>1. PICK h \in Mine : h \in With(fate, "thrown")
    BY <1>3
  <2>2. fate[h] = "thrown" /\ h \in Due(seen)
    BY <1>3, <2>1, OutcomesAreDue
  <2>3. h \notin With(fate, "sent") /\ h \notin With(fate, "unreachable")
    BY <2>2 DEF With
  <2>4. h \notin Gone(seen, fate)
    <3>1. now \in Nat /\ h.timeout \in Nat
      BY DEF CheckInv, IInv, TypeOK, Host, Mine
    <3> QED
      BY <2>2, <2>3, <3>1 DEF Gone, Due, Expired
  <2> QED
    BY <1>1, <1>2, <1>3, <2>3, <2>4, ResendsType, JobResponseDeserved,
       ThrowServes
<1>4. ASSUME NEW fate \in Outcomes(hosts), RunJob(fate), Resends(fate),
             IF Mine \cap With(fate, "thrown") = {}
               THEN Calls ELSE Throws("network_unreachable")
      PROVE  Served /\ AgentInv' /\ LinkInv'
  <2>1. Visit(hosts, fate, {}) /\ started' = started
    BY <1>4 DEF RunJob
  <2> QED
    BY <1>2, <1>3, <1>4, <2>1
<1>5. ASSUME NEW h \in hosts, NEW fate \in Outcomes(Before(h)),
             AbortJob(h, fate), Resends(fate),
             IF h \in Mine THEN Throws("timeout")
             ELSE IF Mine \cap With(fate, "thrown") = {}
               THEN Calls ELSE Throws("network_unreachable")
      PROVE  Served /\ AgentInv' /\ LinkInv'
  <2>1. Visit(Before(h), fate, {h}) /\ started' = started
    BY <1>5 DEF AbortJob
  <2>2. Before(h) \in SUBSET hosts /\ {h} \in SUBSET (hosts \ Before(h))
    BY HostsBeforeOne DEF CheckInv, IInv
  <2>3. CASE h \in Mine
    <3>1. /\ Ends(Gone(Before(h), fate)) /\ Gone(Before(h), fate) \subseteq hosts
      BY <1>2, <1>5, <2>1, <2>2
    <3>2. h \notin Before(h)
      BY <2>2
    <3>3. /\ With(fate, "sent") \subseteq Before(h)
          /\ With(fate, "unreachable") \subseteq Before(h)
      BY <1>5, <2>2, OutcomesAreDue DEF Due
    <3>4. h \notin Gone(Before(h), fate) /\ h \notin With(fate, "sent")
      BY <3>2, <3>3 DEF Gone, Expired
    <3> QED
      BY <1>1, <1>5, <2>3, <3>1, <3>4, ResendsType, JobResponseDeserved,
         ThrowServes
  <2>4. CASE h \notin Mine
    BY <1>2, <1>3, <1>5, <2>1, <2>2, <2>4
  <2> QED
    BY <2>3, <2>4
<1> QED
  BY <1>4, <1>5 DEF JobRuns

LEMMA StartServes ==
    ASSUME CheckInv, AgentStarts
    PROVE  Served /\ AgentInv' /\ LinkInv'
<1>0. PICK next \in FirstNext(Me) : hosts' = hosts \cup {NewHost(Me, next)}
  BY DEF AgentStarts, Start
<1>1. /\ pc = "start" /\ ~Calling /\ ~busy[Me] /\ busy'[Me]
      /\ started + 1 \in 1..MaxChecks
      /\ sentTo' = [sentTo EXCEPT ![started + 1] = {address}]
      /\ address \in Addresses
  BY MeAssumption, MaxChecksAssumption
     DEF AgentStarts, Start, CheckInv, AgentInv, IInv, TypeOK
<1>2. /\ NewHost(Me, next).worker = Me
      /\ NewHost(Me, next).check = started + 1
  BY DEF NewHost
<1>3. Mine = {} /\ Mine' = {NewHost(Me, next)}
  <2>1. Mine = {}
    BY <1>1, MyHost DEF CheckInv
  <2>2. ASSUME NEW h PROVE h \in Mine' <=> h = NewHost(Me, next)
    BY <1>0, <1>2, <2>1 DEF Mine
  <2>3. \A h : h \in Mine' <=> h \in {NewHost(Me, next)}
    BY <2>2
  <2> QED
    BY <2>1, <2>3
<1>4. sentTo'[started + 1] = {address}
      /\ sentTo' \in [1..MaxChecks -> SUBSET Addresses]
  BY <1>1 DEF CheckInv, LinkInv
<1>5. Asked' = {address}
  BY <1>2, <1>3, <1>4 DEF Asked
<1>6. Agent!StartCheck
  BY <1>1, <1>5
     DEF AgentStarts, Agent!StartCheck, Agent!NotUpdated, Asked, Calling
<1>7. LinkInv'
  <2>1. ASSUME NEW h \in Mine'
        PROVE  h.check \in 1..MaxChecks /\ sentTo'[h.check] # {}
    BY <1>1, <1>2, <1>3, <1>4, <2>1
  <2>2. ~Calling'
    BY <1>1 DEF AgentStarts, Calling
  <2> QED
    BY <1>4, <2>1, <2>2 DEF LinkInv
<1>8. AgentInv'
  BY DEF AgentStarts, CheckInv, AgentInv
<1> QED
  BY <1>6, <1>7, <1>8 DEF Served, Agent!Next

LEMMA RefusedServes ==
    ASSUME CheckInv, AgentIsRefused
    PROVE  Served /\ AgentInv' /\ LinkInv'
<1>1. Agent!StartThrows /\ ~Calling /\ sentTo' = sentTo
  BY DEF AgentIsRefused
<1>2. busy' = busy /\ hosts' = hosts
  BY DEF AgentIsRefused, StartFails, vars
<1>3. AgentInv' /\ Calling' = Calling
  BY <1>1, RefreshingKeeps DEF CheckInv
<1> QED
  BY <1>1, <1>2, <1>3 DEF Served, Agent!Next, LinkInv, CheckInv, Mine

LEMMA RefreshServes ==
    ASSUME CheckInv, RefreshStep
    PROVE  Served /\ AgentInv' /\ LinkInv'
<1>1. Agent!Refreshing \/ Agent!WorldChanges
  BY DEF RefreshStep
<1>2. sentTo' = sentTo /\ busy' = busy /\ hosts' = hosts
  BY DEF RefreshStep, vars
<1>3. AgentInv' /\ Calling' = Calling
  BY <1>1, RefreshingKeeps DEF CheckInv
<1> QED
  BY <1>1, <1>2, <1>3 DEF Served, Agent!Next, LinkInv, CheckInv, Mine

LEMMA ReturnServes ==
    ASSUME CheckInv, CallReturns
    PROVE  Served /\ AgentInv' /\ LinkInv'
<1>1. Agent!PublishCallback
  BY DEF CallReturns
<1>2. sentTo' = sentTo /\ busy' = busy /\ hosts' = hosts
  BY DEF CallReturns, vars
<1>3. AgentInv' /\ ~Calling'
  BY <1>1 DEF Agent!PublishCallback, Agent!Publish, Agent!Nothing,
              Agent!Threads, CheckInv, AgentInv, Calling
<1> QED
  BY <1>1, <1>2, <1>3 DEF Served, Agent!Next, LinkInv, CheckInv, Mine

LEMMA OthersServe ==
    ASSUME CheckInv, Others
    PROVE  Served /\ AgentInv' /\ LinkInv'
<1>1. UNCHANGED <<agentVars, sentTo>>
  BY DEF Others
<1>2. Mine' = Mine /\ busy'[Me] = busy[Me]
  <2>1. ASSUME NEW w \in Workers \ {Me}, Start(w)
        PROVE  Mine' = Mine /\ busy'[Me] = busy[Me]
    <3>1. \A next : NewHost(w, next).worker # Me
      BY DEF NewHost
    <3> QED
      BY <2>1, <3>1, MeAssumption DEF Start, Mine, CheckInv, IInv, TypeOK
  <2>2. ASSUME NEW w \in Workers \ {Me}, StartFails(w)
        PROVE  Mine' = Mine /\ busy'[Me] = busy[Me]
    BY <2>2 DEF StartFails, Mine
  <2>3. ASSUME NEW w \in Workers \ {Me}, Stop(w)
        PROVE  Mine' = Mine /\ busy'[Me] = busy[Me]
    BY <2>3, MeAssumption DEF Stop, Release, Mine, CheckInv, IInv, TypeOK
  <2>4. ASSUME OnTimer \/ Tick \/ \E check \in wire : Lose(check)
        PROVE  Mine' = Mine /\ busy'[Me] = busy[Me]
    BY <2>4 DEF OnTimer, Tick, Lose, Mine
  <2> QED
    BY <2>1, <2>2, <2>3, <2>4 DEF Others
<1>3. Served
  BY <1>1, <1>2, OtherChecks
<1>4. AgentInv' /\ Calling' = Calling
  BY <1>1 DEF agentVars, CheckInv, AgentInv, Calling
<1> QED
  BY <1>1, <1>2, <1>3, <1>4 DEF LinkInv, CheckInv

LEMMA StepServes ==
    ASSUME CheckInv, IInv', [CheckNext]_allVars
    PROVE  Served /\ AgentInv' /\ LinkInv'
<1>1. CASE UNCHANGED allVars
  <2>1. UNCHANGED <<agentVars, sentTo>> /\ busy' = busy /\ hosts' = hosts
    BY <1>1 DEF allVars, vars
  <2>2. Mine' = Mine /\ busy'[Me] = busy[Me]
    BY <2>1 DEF Mine
  <2>3. Served
    BY <2>1, <2>2, OtherChecks
  <2> QED
    BY <2>1, <2>2, <2>3
       DEF agentVars, CheckInv, AgentInv, LinkInv, Calling
<1> QED
  BY <1>1, StartServes, RefusedServes, RefreshServes, PacketServes, JobServes,
     ReturnServes, OthersServe DEF CheckNext

----------------------------------------------------------------------------
LEMMA CheckInvariance == CheckSpec => [](AgentInv /\ LinkInv)
<1>1. CheckInit => AgentInv /\ LinkInv
  <2> SUFFICES ASSUME CheckInit PROVE AgentInv /\ LinkInv
    OBVIOUS
  <2>1. AgentInv
    BY AgentAssumption DEF CheckInit, Agent!Init, Agent!Given, AgentInv,
                           Agent!None, Agent!Nothing
  <2>2. ~Calling
    BY DEF CheckInit, Agent!Init, Agent!Threads, Agent!Nothing, Calling
  <2>3. sentTo \in [1..MaxChecks -> SUBSET Addresses]
    BY DEF CheckInit
  <2>4. Mine = {}
    BY DEF CheckInit, Init, Mine
  <2> QED
    BY <2>1, <2>2, <2>3, <2>4 DEF LinkInv
<1>2. /\ IInv /\ IInv' /\ AgentInv /\ LinkInv /\ [CheckNext]_allVars
      => (AgentInv /\ LinkInv)'
  BY StepServes DEF CheckInv
<1> QED
  BY <1>1, <1>2, ControllerInvariance, PTL DEF CheckSpec

\* Every behaviour of the controller and the agent together is one of HostAgent,
\* to which the controller is only the promise of IcmpCheck: what is proved of
\* HostAgent holds over the real controller.
THEOREM Composition == CheckSpec => AgentIsServed
<1>1. CheckInit => Agent!Init
  BY DEF CheckInit
<1>2. /\ IInv /\ IInv' /\ AgentInv /\ LinkInv /\ [CheckNext]_allVars
      => [Agent!Next]_(Agent!vars)
  BY StepServes DEF CheckInv, Served
<1> QED
  BY <1>1, <1>2, ControllerInvariance, CheckInvariance, PTL
     DEF CheckSpec, AgentIsServed, Agent!Spec

----------------------------------------------------------------------------
(***************************************************************************)
(* What needs the agent and the controller both.                           *)
(***************************************************************************)

\* Only HasAddress, which finds the agent unchecked, leads refresh() to the start;
\* the agent, as Composition has it, begins no other check meanwhile.
Unchecked == pc = "start" => ~Checking

LEMMA ServedKeepsUnchecked ==
    ASSUME Unchecked, Served
    PROVE  Unchecked'
<1> USE DEF Unchecked, Checking
<1>1. CASE Agent!Refreshing
  <2>1. CASE Agent!HasAddress
    BY <2>1 DEF Agent!HasAddress, Agent!check
  <2>2. CASE Agent!Refresh \/ Agent!ServerIsAlias \/ Agent!Resolved
             \/ Agent!SetSuccess \/ Agent!QueryFails \/ Agent!AskThrows
             \/ Agent!Detected
    BY <2>2 DEF Agent!Refresh, Agent!ServerIsAlias, Agent!Resolved,
                Agent!SetSuccess, Agent!QueryFails, Agent!AskThrows,
                Agent!Detected
  <2>3. CASE Agent!NoAddress \/ Agent!Return \/ Agent!ReturnThrows
             \/ Agent!PublishRefresh
    BY <2>3 DEF Agent!NoAddress, Agent!Return, Agent!ReturnThrows,
                Agent!PublishRefresh
  <2> QED
    BY <1>1, <2>1, <2>2, <2>3 DEF Agent!Refreshing
<1>2. CASE Agent!StartCheck \/ Agent!StartThrows
  BY <1>2 DEF Agent!StartCheck, Agent!StartThrows
<1>3. CASE Agent!Retry \/ Agent!WorldChanges \/ Agent!EndUnheard
           \/ Agent!PublishCallback
  BY <1>3 DEF Agent!Retry, Agent!WorldChanges, Agent!EndUnheard,
              Agent!PublishCallback, Agent!check
<1>4. ASSUME NEW response \in Agent!Responses, Agent!Set(response)
      PROVE  Unchecked'
  BY <1>4 DEF Agent!Set
<1>5. CASE UNCHANGED Agent!vars
  BY <1>5 DEF Agent!vars
<1>6. ASSUME NEW response \in Agent!Responses, Agent!SetThrows(response)
      PROVE  Unchecked'
  BY <1>6 DEF Agent!SetThrows
<1> QED
  BY <1>1, <1>2, <1>3, <1>4, <1>5, <1>6
     DEF Served, Agent!Next, Agent!CallbackThrows

\* Over the real controller, among any other workers, a check that refresh() has
\* found it may start is never refused as busy.
THEOREM StartsAreAccepted == CheckSpec => []StartIsAccepted
<1>1. CheckInit => Unchecked
  BY DEF CheckInit, Agent!Init, Unchecked
<1>2. /\ IInv /\ IInv' /\ AgentInv /\ LinkInv /\ [CheckNext]_allVars /\ Unchecked
      => Unchecked'
  BY StepServes, ServedKeepsUnchecked DEF CheckInv
<1>3. IInv /\ AgentInv /\ Unchecked => StartIsAccepted
  BY MyHost DEF Unchecked, Checking, AgentInv, StartIsAccepted
<1> QED
  BY <1>1, <1>2, <1>3, ControllerInvariance, CheckInvariance, PTL DEF CheckSpec
=============================================================================
