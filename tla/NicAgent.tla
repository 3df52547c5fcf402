------------------------------ MODULE NicAgent ------------------------------
(***************************************************************************)
(* Nic::Agent (nicagent.cc, nic/agent.cc, nicstate.cc), the agent of one   *)
(* interface, over NetLink and the kernel.                                 *)
(*                                                                         *)
(* Threads meet here without a lock.  The main loop starts and stops the   *)
(* agent and runs its netlink callbacks; a thread of the pool runs         *)
(* refresh(); others run the updates that callbacks pushed.  refresh()     *)
(* asks the kernel, compares the answer with the fields, stores it,        *)
(* whatever the comparison said, and returns what it said: four steps,     *)
(* and other threads write the fields between them.  A callback compares   *)
(* and stores likewise.  updated(true), with which start(), refresh() and  *)
(* an update end, computes a state from the fields and then stores it, as  *)
(* in HostAgent.  The fields that one thread stores, or reads, in a row    *)
(* are one step.                                                           *)
(***************************************************************************)
EXTENDS NetLink

CONSTANTS
    Me,          \* this agent
    LinkFlags,   \* values of the interface flags; bit 0 is IFF_UP
    ShortRange,  \* 2^16: values of the 16-bit ifr_flags
    FlagsRange,  \* 2^32: values of unsigned int
    Updaters,    \* threads of the pool that run pushed updates
    Periodic,    \* the agent has an update-timer
    MaxChanges,  \* bound: changes the kernel makes
    MaxStarts    \* bound: starts of the agent

ASSUME NicAssumption ==
    /\ Me \in Objects
    /\ {"newlink", "dellink"} \subseteq MessageTypes
    /\ ShortRange \in Nat \ {0} /\ FlagsRange \in Nat /\ ShortRange <= FlagsRange
    /\ LinkFlags \subseteq 0..FlagsRange - 1
    /\ Updaters \cap {"start", "refresh"} = {}

\* The threads that ask the kernel, and all that compute a state.
Askers  == {"start", "refresh"}
Threads == Askers \cup Updaters

Nothing == "nothing"   \* no state has been computed that is not stored

VARIABLES
    link,       \* the interface in the kernel: [index, flags], index 0 if gone
    created,    \* indexes the kernel has handed out
    changes,    \* changes made so far
    intf,       \* Nic::Agent::intf
    pc,         \* progress of start(): "off", "probe", "publish", "index", ...
    probe,      \* probe[t]: the answer of SIOCGIFFLAGS in a refresh() by t, the
                \* step that comes next, and what it is to return
    held,       \* what a callback has found to differ, and has yet to store
    pushed,     \* a callback has pushed an update that has not run
    sched,      \* sched_update(1) is pending
    starts,     \* starts so far
    computed,   \* computed[t]: state that t has computed and not stored
    raced,      \* the last state was computed while another was waiting to be
                \* stored, or a refresh() has since stored, on a comparison
                \* no longer true, fields that have another: history
    published   \* name of the state the agent shows

kernelVars == <<link, created, changes>>
stateVars  == <<computed, raced, published>>

nicVars == <<kernelVars, intf, pc, probe, held, pushed, sched, starts, stateVars>>
vars == <<netVars, nicVars>>

----------------------------------------------------------------------------
Present == link.index # 0

\* Mutant: the short is not converted to unsigned.
Short_Signed(flags) ==
    LET low == flags % ShortRange
    IN IF 2 * low >= ShortRange THEN low - ShortRange ELSE low

\* ifr_flags is a short: assigned to unsigned int it keeps 16 bits and its sign.
Short(flags) ==
    LET low == flags % ShortRange
    IN IF 2 * low >= ShortRange THEN low + (FlagsRange - ShortRange) ELSE low

\* ifr_ifindex and ifr_flags are members of one union: after SIOCGIFFLAGS the
\* index reads the 16 bits of the flags.
Alias(flags) == flags % ShortRange

\* What ioctl(SIOCGIFFLAGS) returns; `ok' is FALSE for ENODEV.
Answer ==
    [ok    |-> Present,
     flags |-> IF Present THEN Short(link.flags) ELSE 0,
     index |-> IF Present THEN Alias(link.flags) ELSE -1,
     next  |-> "compare", news |-> FALSE]

\* No refresh() is running...
NoAnswer == [ok |-> FALSE, flags |-> 0, index |-> 0, next |-> "ask", news |-> FALSE]

\* ... or one has stored its answer, and is returning true.
Told == [NoAnswer EXCEPT !.next = "update", !.news = TRUE]

\* intf as refresh() leaves it; `netlink' is not refresh's to write.
Stored(answer) == [intf EXCEPT !.flags = answer.flags, !.index = answer.index,
                               !.exist = answer.ok]

\* The return value of refresh().
Differs(answer) ==
    \/ intf.flags # answer.flags
    \/ intf.index # answer.index
    \/ intf.exist # answer.ok

\* computeState over the states of test.xml:19-21: the first that matches.
\* Agent::exist() returns intf.netlink; StateExistant reads intf.exist.
StateOf(i) ==
    IF ~i.exist                                             THEN "not-found"
    ELSE IF i.netlink /\ i.flags # 0 /\ i.flags % 2 = 1     THEN "up"
    ELSE IF i.netlink /\ i.flags # 0                        THEN "down"
    ELSE                                                         "default"

\* The first half of updated(true) in a thread, with the fields as they are now...
Compute(t) ==
    /\ computed' = [computed EXCEPT ![t] = StateOf(intf')]
    /\ raced' = \E u \in Threads \ {t} : computed[u] \notin {Nothing, StateOf(intf')}
    /\ UNCHANGED published

\* ... and the second.
Publish(t) ==
    /\ computed[t] # Nothing
    /\ published' = computed[t]
    /\ computed' = [computed EXCEPT ![t] = Nothing]
    /\ UNCHANGED raced

NoLink == [index |-> 0, netlink |-> FALSE, exist |-> FALSE, flags |-> 0]

Init ==
    /\ NetInit
    /\ link \in {[index |-> 0, flags |-> 0]} \cup [index: {1}, flags: LinkFlags]
    /\ created = 1
    /\ changes = 0
    /\ intf = NoLink
    /\ pc = "off"
    /\ probe = [t \in Askers |-> NoAnswer]
    /\ held = {} /\ pushed = FALSE /\ sched = FALSE
    /\ starts = 0
    /\ computed = [t \in Threads |-> Nothing]
    /\ raced = FALSE
    /\ published = "default"

----------------------------------------------------------------------------
(***************************************************************************)
(* refresh(), whoever calls it: in start() or in a thread of the pool.     *)
(***************************************************************************)
Ask(t) ==
    /\ probe[t] = NoAnswer
    /\ probe' = [probe EXCEPT ![t] = Answer]
    /\ UNCHANGED <<netVars, kernelVars, intf, held, pushed, stateVars>>

\* Mutant: refresh() tells of what has come, not of what has gone.
Compare_QuietRemoval(t) ==
    /\ probe[t].next = "compare"
    /\ probe' = [probe EXCEPT ![t].next = "store",
                              ![t].news = probe[t].ok /\ Differs(probe[t])]
    /\ UNCHANGED <<netVars, kernelVars, intf, held, pushed, sched, starts, stateVars>>

Compare(t) ==
    /\ probe[t].next = "compare"
    /\ probe' = [probe EXCEPT ![t].next = "store", ![t].news = Differs(probe[t])]
    /\ UNCHANGED <<netVars, kernelVars, intf, held, pushed, sched, starts, stateVars>>

\* Mutant: a failed ioctl leaves the old flags.
Store_KeepsFlags(t) ==
    /\ probe[t].next = "store"
    /\ intf' = IF probe[t].ok THEN Stored(probe[t])
                              ELSE [Stored(probe[t]) EXCEPT !.flags = intf.flags]
    /\ probe' = [probe EXCEPT ![t] = IF probe[t].news THEN Told ELSE NoAnswer]
    /\ raced' = (raced \/ (~probe[t].news /\ StateOf(intf') # StateOf(intf)))
    /\ UNCHANGED <<netVars, kernelVars, held, pushed, sched, starts, computed,
                   published>>

\* The fields may not be those that were compared.
Store(t) ==
    /\ probe[t].next = "store"
    /\ intf' = Stored(probe[t])
    /\ probe' = [probe EXCEPT ![t] = IF probe[t].news THEN Told ELSE NoAnswer]
    /\ raced' = (raced \/ (~probe[t].news /\ StateOf(intf') # StateOf(intf)))
    /\ UNCHANGED <<netVars, kernelVars, held, pushed, sched, starts, computed,
                   published>>

\* refresh() has returned true: its caller calls updated(true).
Update(t) ==
    /\ probe[t].next = "update"
    /\ probe' = [probe EXCEPT ![t] = NoAnswer]
    /\ UNCHANGED intf
    /\ Compute(t)
    /\ UNCHANGED <<netVars, kernelVars, held, pushed, sched, starts>>

RefreshAsk ==
    /\ pc = "on" /\ computed["refresh"] = Nothing
    /\ sched \/ Periodic
    /\ Ask("refresh")
    /\ sched' = FALSE
    /\ UNCHANGED <<pc, starts>>

RefreshGoesOn ==
    /\ Compare("refresh") \/ Store("refresh") \/ Update("refresh")
    /\ UNCHANGED pc

RefreshPublish ==
    /\ Publish("refresh")
    /\ UNCHANGED <<netVars, kernelVars, intf, pc, probe, held, pushed, sched, starts>>

\* The lambda of Agent::push: updated(true), then sched_update(1).
RunUpdate(u) ==
    /\ pushed /\ computed[u] = Nothing
    /\ pushed' = FALSE
    /\ UNCHANGED intf
    /\ Compute(u)
    /\ UNCHANGED <<netVars, kernelVars, pc, probe, held, sched, starts>>

\* An agent with an update-timer is refreshed anyway.
EndUpdate(u) ==
    /\ Publish(u)
    /\ sched' = ~Periodic
    /\ UNCHANGED <<netVars, kernelVars, intf, pc, probe, held, pushed, starts>>

----------------------------------------------------------------------------
(***************************************************************************)
(* start(): refresh, if_nametoindex, two registrations; stop().  The main  *)
(* loop runs them, and not while it runs a callback.                       *)
(***************************************************************************)
StartAsk ==
    /\ pc = "off" /\ held = {} /\ starts < MaxStarts
    /\ pc' = "probe" /\ starts' = starts + 1
    /\ Ask("start")
    /\ UNCHANGED sched

StartCompare == Compare("start") /\ UNCHANGED pc

StartStore ==
    /\ Store("start")
    /\ pc' = IF probe["start"].news THEN "update" ELSE "index"

StartUpdate == Update("start") /\ pc' = "publish"

StartPublish ==
    /\ Publish("start")
    /\ pc' = "index"
    /\ UNCHANGED <<netVars, kernelVars, intf, probe, held, pushed, sched, starts>>

StartIndex ==
    /\ pc = "index"
    /\ intf' = [intf EXCEPT !.index = link.index]
    /\ pc' = "new"
    /\ UNCHANGED <<netVars, kernelVars, probe, held, pushed, sched, starts, stateVars>>

\* A failed registration leaves start() by an exception; the agent is off, with
\* the listeners it has so far.
Register(from, type, to) ==
    /\ pc = from
    /\ \/ PushBack(Me, type) /\ pc' = to
       \/ PushBackThrows(Me, type) /\ pc' = "off"
    /\ UNCHANGED <<kernelVars, intf, probe, held, pushed, sched, starts, stateVars>>

\* stop() and ~Agent.
StopAgent ==
    /\ pc \in {"on", "off"} /\ held = {}
    /\ Remove(Me)
    /\ pc' = "off"
    /\ UNCHANGED <<kernelVars, intf, probe, held, pushed, sched, starts, stateVars>>

----------------------------------------------------------------------------
(***************************************************************************)
(* handle_event and the two callbacks.                                     *)
(***************************************************************************)

\* The callback looks the index up when it runs, not when the message was sent.
IsMyName(index) == Present /\ link.index = index

\* What a callback holds until it stores it.
Held == [flags: 0..FlagsRange - 1, netlink: BOOLEAN]

NewLink(m) ==
    IF ~IsMyName(m.index) THEN UNCHANGED <<intf, held>>
    ELSE /\ intf' = [intf EXCEPT !.index = m.index]
         /\ held' = IF intf.flags # m.flags
                      THEN {[flags |-> m.flags, netlink |-> TRUE]} ELSE {}

DelLink(m) ==
    /\ UNCHANGED intf
    /\ held' = IF intf.index = m.index /\ (intf.flags # m.flags \/ intf.netlink)
                 THEN {[flags |-> m.flags, netlink |-> FALSE]} ELSE {}

\* A message, up to the comparison of its flags with those of the agent.
HandleEvent(m) ==
    /\ held = {}
    /\ Receive(m)
    /\ IF Me \notin Called(m.type) THEN UNCHANGED <<intf, held>>
       ELSE IF m.type = "newlink"  THEN NewLink(m)
       ELSE IF m.type = "dellink"  THEN DelLink(m)
       ELSE                             UNCHANGED <<intf, held>>
    /\ UNCHANGED <<kernelVars, pc, probe, pushed, sched, starts, stateVars>>

\* Mutant: the new flags are stored, and no update is pushed.
CallbackStores_NotPushed ==
    \E new \in held :
        /\ intf' = [intf EXCEPT !.flags = new.flags, !.netlink = new.netlink]
        /\ held' = {}
        /\ UNCHANGED <<netVars, kernelVars, pc, probe, pushed, sched, starts,
                       stateVars>>

\* What differed is stored, whatever the fields are by now, and an update pushed.
CallbackStores ==
    \E new \in held :
        /\ intf' = [intf EXCEPT !.flags = new.flags, !.netlink = new.netlink]
        /\ held' = {}
        /\ pushed' = TRUE
        /\ UNCHANGED <<netVars, kernelVars, pc, probe, sched, starts, stateVars>>

----------------------------------------------------------------------------
(***************************************************************************)
(* The kernel, and the other agents on the same socket (IP::Gateway, whose *)
(* two callbacks do nothing).                                              *)
(***************************************************************************)
Notify(type, index, flags) ==
    /\ queue' = Queued([type |-> type, index |-> index, flags |-> flags])
    /\ changes < MaxChanges /\ changes' = changes + 1
    /\ UNCHANGED <<listeners, fd, handler, accepted>>
    /\ UNCHANGED <<intf, pc, probe, held, pushed, sched, starts, stateVars>>

\* The flags change, or something else does (MTU, statistics) and they do not.
LinkChanges == \E flags \in LinkFlags :
    /\ Present
    /\ link' = [link EXCEPT !.flags = flags]
    /\ Notify("newlink", link.index, flags)
    /\ UNCHANGED created

\* The kernel takes an interface down before it removes it.
LinkGoes ==
    /\ Present /\ link.flags % 2 = 0
    /\ link' = [index |-> 0, flags |-> 0]
    /\ Notify("dellink", link.index, link.flags)
    /\ UNCHANGED created

LinkComes == \E flags \in LinkFlags :
    /\ ~Present
    /\ created' = created + 1
    /\ link' = [index |-> created + 1, flags |-> flags]
    /\ Notify("newlink", created + 1, flags)

OtherStarts(o, m) ==
    /\ held = {}
    /\ PushBack(o, m) \/ PushBackThrows(o, m)
    /\ UNCHANGED nicVars

OtherStops(o) == held = {} /\ Remove(o) /\ UNCHANGED nicVars

----------------------------------------------------------------------------
Others == Objects \ {Me}

\* What IP::Gateway::start listens to.
RouteTypes == MessageTypes \ {"newlink", "dellink"}

Next ==
    \/ StartAsk \/ StartCompare \/ StartStore \/ StartUpdate \/ StartPublish
    \/ StartIndex
    \/ Register("new", "newlink", "del")
    \/ Register("del", "dellink", "on")
    \/ StopAgent
    \/ RefreshAsk \/ RefreshGoesOn \/ RefreshPublish
    \/ \E u \in Updaters : RunUpdate(u) \/ EndUpdate(u)
    \/ queue # <<>> /\ HandleEvent(Head(queue))
    \/ CallbackStores
    \/ LinkChanges \/ LinkGoes \/ LinkComes
    \/ \E o \in Others, m \in RouteTypes : OtherStarts(o, m)
    \/ \E o \in Others : OtherStops(o)

Spec == Init /\ [][Next]_vars

\* The main loop reads the socket, the scheduler refreshes an agent whose time
\* has come, the pool runs what it was given.
Fairness ==
    /\ WF_vars(queue # <<>> /\ HandleEvent(Head(queue))) /\ WF_vars(CallbackStores)
    /\ WF_vars(RefreshAsk) /\ WF_vars(RefreshGoesOn) /\ WF_vars(RefreshPublish)
    /\ WF_vars(\E u \in Updaters : RunUpdate(u))
    /\ \A u \in Updaters : WF_vars(EndUpdate(u))

FairSpec == Spec /\ Fairness

----------------------------------------------------------------------------
StateNames == {"not-found", "up", "down", "default"}

\* Type invariant of the agent and of the listener it uses.
TypeOK ==
    /\ NetTypeOK
    /\ intf \in [index: Int, netlink: BOOLEAN, exist: BOOLEAN, flags: 0..FlagsRange - 1]
    /\ pc \in {"off", "probe", "update", "publish", "index", "new", "del", "on"}
    /\ probe \in [Askers -> [ok: BOOLEAN, flags: 0..FlagsRange - 1, index: Int,
                             next: {"ask", "compare", "store", "update"},
                             news: BOOLEAN]]
    /\ held \subseteq Held
    /\ computed \in [Threads -> StateNames \cup {Nothing}]
    /\ published \in StateNames

\* start() has not yet stored what its first refresh() was told.
Unborn == starts = 0 \/ (starts = 1 /\ pc = "probe")

\* The fields and the state shown are written by different threads; once the agent
\* has been refreshed, either the state shown is that of the fields, or the threads
\* that are about to store one, of which there is one, will store that one, or an
\* update waits in the pool, or refresh() is returning true.  The exceptions are
\* two races, each over with the next update that comes alone: two updates overlap,
\* and the one that computed first, from older fields, may store last; or another
\* thread writes the fields between the comparison of refresh(), which found
\* nothing new, and its unconditional store.
UpdateIsDue ==
    \/ Unborn \/ pushed \/ raced
    \/ \E t \in Askers : probe[t].next = "update"
    \/ /\ \A t \in Threads : computed[t] \in {Nothing, StateOf(intf)}
       /\ \/ published = StateOf(intf)
          \/ \E t \in Threads : computed[t] # Nothing

\* However callbacks and refresh() overwrite each other, a started agent with an
\* update-timer ends up with the flags and the existence the kernel has.
Converges ==
    <>[](pc = "on") =>
        <>[]( /\ intf.exist = Present
              /\ IF Present THEN intf.flags \in {link.flags, Short(link.flags)}
                            ELSE intf.flags = 0 )

\* An interface that is gone for good ends up as `not-found', though the
\* message that says so may be lost, and ignored when it is not; but for the races
\* of UpdateIsDue.
RemovalIsPublished ==
    <>[](pc = "on" /\ ~Present /\ ~raced) => <>[](published = "not-found")

\* The state shown is that of the fields, once both have settled: no change of
\* `intf', by whichever thread, is left without an update that publishes it, but
\* for the races of UpdateIsDue.
PublishedIsCurrent ==
    <>[](pc = "on" /\ ~raced) => <>[](published = StateOf(intf))
=============================================================================
