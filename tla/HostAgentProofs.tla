--------------------------- MODULE HostAgentProofs ---------------------------
(***************************************************************************)
(* Theorems about host agents, for any XML nodes, addresses, failures and  *)
(* levels of the states.                                                   *)
(***************************************************************************)
EXTENDS HostAgent, TLAPS

\* The worst of three states is a state, and none of the three is worse.
LEMMA WorstIsWorst ==
    ASSUME NEW i \in States, NEW c \in States, NEW d \in States
    PROVE  /\ Worst(i, c, d) \in States
           /\ Level[Worst(i, c, d)] >= Level[d]
<1>1. /\ "default" \in States
      /\ \A s \in States : Level[s] \in Nat
  BY LevelAssumption DEF States
<1>2. ASSUME NEW s \in States, NEW t \in States
      PROVE  /\ Worse(s, t) \in States
             /\ Level[Worse(s, t)] >= Level[t]
  BY <1>1 DEF Worse
<1>3. Worse(Worse("default", i), c) \in States
  BY <1>1, <1>2
<1> QED
  BY <1>1, <1>2, <1>3 DEF Worst

\* "Nothing is computed" is told from every state.
LEMMA NothingIsNoState == Nothing \notin States
  BY CodeAssumption
     DEF Nothing, States, None, IpStates, Responses, DnsStates

\* What a thread computes, whatever the address has become.
LEMMA ComputeFields ==
    ASSUME TypeOK, NEW thread \in Threads, Compute(thread),
           icmp' \in Responses \cup {None}, dns' \in DnsStates \cup {None}
    PROVE  /\ ip' \in IpStates \cup {None}
           /\ matched' \subseteq IpStates
           /\ computed' \in [Threads -> States \cup {Nothing}]
           /\ computed'[thread] \in States
           /\ Level[computed'[thread]] >= Level[dns']
           /\ \A t \in Threads \ {thread} : computed'[t] = computed[t]
           /\ shown' = shown
<1>1. ip' \in IpStates \cup {None}
  BY DEF Compute, IpState, IpStates, None
<1>2. matched' \subseteq IpStates
  BY DEF Compute, TypeOK, IpStates
<1>3. ip' \in States /\ icmp' \in States /\ dns' \in States
  BY <1>1 DEF States
<1>4. /\ Worst(ip', icmp', dns') \in States
      /\ Level[Worst(ip', icmp', dns')] >= Level[dns']
  BY <1>3, WorstIsWorst
<1>5. /\ computed'[thread] = Worst(ip', icmp', dns')
      /\ computed' \in [Threads -> States \cup {Nothing}]
      /\ \A t \in Threads \ {thread} : computed'[t] = computed[t]
  BY <1>4 DEF Compute, TypeOK
<1> QED
  BY <1>1, <1>2, <1>4, <1>5 DEF Compute

\* What storing a computed state does.
LEMMA PublishFields ==
    ASSUME TypeOK, NEW thread \in Threads, Publish(thread),
           computed[thread] # Nothing
    PROVE  /\ shown' = computed[thread] /\ shown' \in States
           /\ ip' = ip /\ matched' = matched
           /\ computed' \in [Threads -> States \cup {Nothing}]
           /\ computed'[thread] = Nothing
           /\ \A t \in Threads \ {thread} : computed'[t] = computed[t]
  BY DEF Publish, TypeOK

----------------------------------------------------------------------------
\* refresh() has a state to store exactly when it is about to; a callback has one
\* only while its check is still busy.
ComputedWhen ==
    /\ computed["refresh"] # Nothing <=> pc = "publish"
    /\ computed["callback"] # Nothing => checking

\* Only an agent of a name asks a resolver.
OthersAskNoName == Kind # "dns" => dns = None /\ pc \notin {"server", "named"}

\* A computed state that is not stored yet covers a failure, but for the callback
\* that the failure overtook.
FailureIsComputed ==
    dns \in Failures =>
        /\ pc = "publish" => Level[computed["refresh"]] >= Level[dns]
        /\ computed["callback"] # Nothing /\ ~missed =>
              Level[computed["callback"]] >= Level[dns]

\* refresh() is the only thread that sets what the invariants read of the query,
\* and what callbacks write (busy, icmp.state, the state) respects them.
Inv ==
    /\ TypeOK /\ StartIsNotRefused /\ AddressIsResolved /\ FailureIsShown
    /\ ComputedWhen /\ FailureIsComputed /\ OthersAskNoName

LEMMA InitInv == Init => Inv
<1> SUFFICES ASSUME Init PROVE Inv
  OBVIOUS
<1>1. address \in Addresses \cup {None}
  BY NodeAssumption DEF Init, Given
<1>2. computed \in [Threads -> States \cup {Nothing}]
      /\ computed["refresh"] = Nothing /\ computed["callback"] = Nothing
  BY DEF Init, Threads
<1>3. TypeOK
  BY <1>1, <1>2 DEF Init, TypeOK, Kind, States, DnsStates, Responses
<1>4. StartIsNotRefused /\ AddressIsResolved
  BY DEF Init, StartIsNotRefused, AddressIsResolved
<1>5. None \notin Failures
  BY CodeAssumption
<1>6. FailureIsShown /\ FailureIsComputed
  BY <1>5 DEF Init, FailureIsShown, FailureIsComputed
<1>7. ComputedWhen /\ OthersAskNoName
  BY <1>2 DEF Init, ComputedWhen, OthersAskNoName
<1> QED
  BY <1>3, <1>4, <1>6, <1>7 DEF Inv

----------------------------------------------------------------------------
(***************************************************************************)
(* Steps that leave the query's outcome, and every state, alone.           *)
(***************************************************************************)
LEMMA QuietSteps ==
    ASSUME Inv,
           \/ Refresh \/ ServerIsAlias \/ Resolved \/ AskThrows \/ Detected
           \/ NoAddress \/ HasAddress
           \/ StartCheck \/ StartThrows \/ Retry \/ EndUnheard \/ WorldChanges
           \/ UNCHANGED vars
    PROVE  Inv'
<1> USE DEF Inv
<1>1. CASE Refresh
  BY <1>1 DEF Refresh, NotUpdated, check, TypeOK, Worlds, Kind, Given,
              StartIsNotRefused, AddressIsResolved, FailureIsShown,
              ComputedWhen, FailureIsComputed, OthersAskNoName
<1>13. CASE ServerIsAlias
  BY <1>13 DEF ServerIsAlias, NotUpdated, check, TypeOK, Worlds, Kind, Given,
               StartIsNotRefused, AddressIsResolved, FailureIsShown,
               ComputedWhen, FailureIsComputed, OthersAskNoName
<1>2. CASE Resolved
  BY <1>2 DEF Resolved, NotUpdated, check, TypeOK, Worlds, Kind, Given,
              StartIsNotRefused, AddressIsResolved, FailureIsShown,
              ComputedWhen, FailureIsComputed, OthersAskNoName
<1>3. CASE AskThrows
  BY <1>3 DEF AskThrows, NotUpdated, check, TypeOK, Worlds, Kind, Given,
              StartIsNotRefused, AddressIsResolved, FailureIsShown,
              ComputedWhen, FailureIsComputed, OthersAskNoName
<1>4. CASE Detected
  <2>2. address' \in Addresses \cup {None}
    <3>1. Routes[answer] \in Seq(Seq(Route)) /\ Routes[answer] # <<>>
      BY <1>4, RoutesAssumption DEF Detected
    <3>2. Received(answer) \in Seq(Route)
      BY <3>1 DEF Received
    <3>3. ASSUME NEW datagram \in Seq(Route), NEW i \in DOMAIN datagram
          PROVE  datagram[i].gateway \in Addresses \cup {None}
      <4>1. datagram[i] \in Route
        OBVIOUS
      <4> QED
        BY <4>1 DEF Route
    <3> QED
      BY <1>4, <3>2, <3>3 DEF Detected
  <2>3. TypeOK'
    BY <1>4, <2>2 DEF Detected, NotUpdated, check, TypeOK, Worlds, Kind
  <2>4. dns = None /\ None \notin Failures
    BY <1>4, CodeAssumption DEF Detected, OthersAskNoName
  <2> QED
    BY <1>4, <2>3, <2>4
       DEF Detected, NotUpdated, check, Kind, Given, StartIsNotRefused,
           AddressIsResolved, FailureIsShown, ComputedWhen, FailureIsComputed,
           OthersAskNoName
<1>5. CASE NoAddress
  BY <1>5 DEF NoAddress, check, TypeOK, Worlds, Kind, Given,
              StartIsNotRefused, AddressIsResolved, FailureIsShown,
              ComputedWhen, FailureIsComputed, OthersAskNoName
<1>6. CASE HasAddress
  BY <1>6 DEF HasAddress, NotUpdated, check, TypeOK, Worlds, Kind, Given,
              StartIsNotRefused, AddressIsResolved, FailureIsShown,
              ComputedWhen, FailureIsComputed, OthersAskNoName
<1>7. CASE StartCheck
  BY <1>7 DEF StartCheck, NotUpdated, TypeOK, Worlds, Kind, Given,
              StartIsNotRefused, AddressIsResolved, FailureIsShown,
              ComputedWhen, FailureIsComputed, OthersAskNoName
<1>8. CASE StartThrows
  BY <1>8 DEF StartThrows, NotUpdated, check, TypeOK, Worlds, Kind, Given,
              StartIsNotRefused, AddressIsResolved, FailureIsShown,
              ComputedWhen, FailureIsComputed, OthersAskNoName
<1>9. CASE Retry
  BY <1>9 DEF Retry, NotUpdated, TypeOK, Worlds, Kind, Given,
              StartIsNotRefused, AddressIsResolved, FailureIsShown,
              ComputedWhen, FailureIsComputed, OthersAskNoName
<1>10. CASE EndUnheard
  <2>1. TypeOK'
    BY <1>10 DEF EndUnheard, NotUpdated, TypeOK, Worlds, Kind
  <2> QED
    BY <1>10, <2>1
       DEF EndUnheard, Waiting, NotUpdated, Kind, Given, StartIsNotRefused,
           AddressIsResolved, FailureIsShown, ComputedWhen, FailureIsComputed,
           OthersAskNoName
<1>11. CASE WorldChanges
  BY <1>11 DEF WorldChanges, NotUpdated, check, TypeOK, Worlds, Kind, Given,
               StartIsNotRefused, AddressIsResolved, FailureIsShown,
               ComputedWhen, FailureIsComputed, OthersAskNoName
<1>12. CASE UNCHANGED vars
  BY <1>12 DEF vars, TypeOK, Worlds, Kind, Given,
               StartIsNotRefused, AddressIsResolved, FailureIsShown,
               ComputedWhen, FailureIsComputed, OthersAskNoName
<1> QED
  BY <1>1, <1>2, <1>3, <1>4, <1>5, <1>6, <1>7, <1>8, <1>9, <1>10, <1>11, <1>12,
     <1>13

----------------------------------------------------------------------------
LEMMA NextInv == Inv /\ [Next]_vars => Inv'
<1> SUFFICES ASSUME Inv, [Next]_vars PROVE Inv'
  OBVIOUS
<1> USE DEF Inv
<1>1. CASE SetSuccess
  <2>1. "success" \notin Failures
    BY CodeAssumption
  <2> QED
    BY <1>1, <2>1
       DEF SetSuccess, NotUpdated, check, TypeOK, Worlds, Kind, DnsStates,
           StartIsNotRefused, AddressIsResolved, FailureIsShown,
           ComputedWhen, FailureIsComputed, OthersAskNoName
<1>2. CASE QueryFails
  <2>1. TypeOK'
    BY <1>2 DEF QueryFails, Overtaking, NotUpdated, check, TypeOK, Worlds, Kind,
                DnsStates
  <2>2. StartIsNotRefused' /\ AddressIsResolved' /\ ComputedWhen'
        /\ OthersAskNoName'
    BY <1>2 DEF QueryFails, NotUpdated, check, StartIsNotRefused,
                AddressIsResolved, ComputedWhen, OthersAskNoName, Kind, Given
  <2>3. FailureIsShown' /\ FailureIsComputed'
    BY <1>2 DEF QueryFails, Overtaking, NotUpdated, FailureIsShown,
                FailureIsComputed
  <2> QED
    BY <2>1, <2>2, <2>3
<1>3. CASE Return
  <2>1. CASE changed
    <3>1. Compute("refresh") /\ "refresh" \in Threads /\ "callback" \in Threads
      BY <1>3, <2>1 DEF Return, Threads
    <3>2. icmp' \in Responses \cup {None} /\ dns' \in DnsStates \cup {None}
      BY <1>3 DEF Return, check, TypeOK
    <3>3. /\ ip' \in IpStates \cup {None} /\ matched' \subseteq IpStates
          /\ computed' \in [Threads -> States \cup {Nothing}]
          /\ computed'["refresh"] \in States
          /\ Level[computed'["refresh"]] >= Level[dns']
          /\ computed'["callback"] = computed["callback"] /\ shown' = shown
      BY <3>1, <3>2, ComputeFields
    <3> QED
      BY <1>3, <2>1, <3>3, NothingIsNoState
         DEF Return, check, TypeOK, Worlds, Kind, Given, StartIsNotRefused,
             AddressIsResolved, FailureIsShown, ComputedWhen, FailureIsComputed,
             OthersAskNoName
  <2>2. CASE ~changed
    BY <1>3, <2>2
       DEF Return, NotUpdated, check, TypeOK, Worlds, Kind, Given,
           StartIsNotRefused, AddressIsResolved, FailureIsShown,
           ComputedWhen, FailureIsComputed, OthersAskNoName
  <2> QED
    BY <2>1, <2>2
<1>4. CASE PublishRefresh
  <2>1. Publish("refresh") /\ computed["refresh"] # Nothing
        /\ "refresh" \in Threads /\ "callback" \in Threads
    BY <1>4 DEF PublishRefresh, ComputedWhen, Threads
  <2>2. /\ shown' = computed["refresh"] /\ shown' \in States
        /\ ip' = ip /\ matched' = matched
        /\ computed' \in [Threads -> States \cup {Nothing}]
        /\ computed'["refresh"] = Nothing
        /\ computed'["callback"] = computed["callback"]
    BY <2>1, PublishFields
  <2> QED
    BY <1>4, <2>2
       DEF PublishRefresh, check, TypeOK, Worlds, Kind, Given,
           StartIsNotRefused, AddressIsResolved, FailureIsShown,
           ComputedWhen, FailureIsComputed, OthersAskNoName
<1>5. ASSUME NEW response \in Responses, Set(response) PROVE Inv'
  <2>1. Compute("callback") /\ "refresh" \in Threads /\ "callback" \in Threads
    BY <1>5 DEF Set, Threads
  <2>2. icmp' \in Responses \cup {None} /\ dns' \in DnsStates \cup {None}
    BY <1>5 DEF Set, TypeOK
  <2>3. /\ ip' \in IpStates \cup {None} /\ matched' \subseteq IpStates
        /\ computed' \in [Threads -> States \cup {Nothing}]
        /\ Level[computed'["callback"]] >= Level[dns']
        /\ computed'["refresh"] = computed["refresh"] /\ shown' = shown
    BY <2>1, <2>2, ComputeFields
  <2>4. TypeOK'
    BY <1>5, <2>3 DEF Set, TypeOK, Worlds, Kind
  <2> QED
    BY <1>5, <2>3, <2>4
       DEF Set, Waiting, Kind, Given, StartIsNotRefused, AddressIsResolved,
           FailureIsShown, ComputedWhen, FailureIsComputed, OthersAskNoName
<1>6. CASE PublishCallback
  <2>1. Publish("callback") /\ computed["callback"] # Nothing
        /\ "refresh" \in Threads /\ "callback" \in Threads
    BY <1>6 DEF PublishCallback, Threads
  <2>2. /\ shown' = computed["callback"] /\ shown' \in States
        /\ ip' = ip /\ matched' = matched
        /\ computed' \in [Threads -> States \cup {Nothing}]
        /\ computed'["callback"] = Nothing
        /\ computed'["refresh"] = computed["refresh"]
    BY <2>1, PublishFields
  <2>3. TypeOK'
    BY <1>6, <2>2 DEF PublishCallback, TypeOK, Worlds, Kind
  <2> QED
    BY <1>6, <2>1, <2>2, <2>3
       DEF PublishCallback, Kind, Given, StartIsNotRefused, AddressIsResolved,
           FailureIsShown, ComputedWhen, FailureIsComputed, OthersAskNoName
<1>7. CASE ReturnThrows
  BY <1>7 DEF ReturnThrows, check, TypeOK, Worlds, Kind, Given,
              StartIsNotRefused, AddressIsResolved, FailureIsShown,
              ComputedWhen, FailureIsComputed, OthersAskNoName
<1>8. ASSUME NEW response \in Responses, SetThrows(response) PROVE Inv'
  BY <1>8 DEF SetThrows, Waiting, TypeOK, Worlds, Kind, Given,
              StartIsNotRefused, AddressIsResolved, FailureIsShown,
              ComputedWhen, FailureIsComputed, OthersAskNoName
<1> QED
  BY <1>1, <1>2, <1>3, <1>4, <1>5, <1>6, <1>7, <1>8, QuietSteps
     DEF Next, Refreshing, CallbackThrows

LEMMA Invariance == Spec => []Inv
  BY InitInv, NextInv, PTL DEF Spec

----------------------------------------------------------------------------
\* Type correctness of an agent built from any of the nodes.
THEOREM TypeCorrect == Spec => []TypeOK
<1>1. Inv => TypeOK
  BY DEF Inv
<1> QED
  BY <1>1, Invariance, PTL

\* start() is never called while a check runs, nor without an address, though
\* `busy' is read without the mutex that guards it.
THEOREM StartAccepted == Spec => []StartIsNotRefused
<1>1. Inv => StartIsNotRefused
  BY DEF Inv
<1> QED
  BY <1>1, Invariance, PTL

\* An address is never shown beside a DNS state that denies it.
THEOREM AddressResolved == Spec => []AddressIsResolved
<1>1. Inv => AddressIsResolved
  BY DEF Inv
<1> QED
  BY <1>1, Invariance, PTL

\* A DNS failure is shown, or something worse is, whatever levels the states
\* have and whichever thread stores the state last, unless the failure came
\* while a callback was between computing and storing, or the computation that
\* was to show it threw.
THEOREM FailureShown == Spec => []FailureIsShown
<1>1. Inv => FailureIsShown
  BY DEF Inv
<1> QED
  BY <1>1, Invariance, PTL
=============================================================================
