------------------------------- MODULE NicList -------------------------------
(***************************************************************************)
(* The agents of all the interfaces (nic/factory.cc, nic/list.cc,          *)
(* os/linux/niclist.cc, os/linux/nicdetect.cc): Nic::List counts those     *)
(* that have a link, and Nic::AutoDetect builds a Nic::Agent for each.     *)
(*                                                                         *)
(* What they do is one loop, Network::Interface::for_each, with different  *)
(* bodies.  It walks a list of names taken when it begins, while the       *)
(* interfaces come and go.  An interface is looked at twice, first for     *)
(* up() and later in /sys/class/net/<name>/carrier, which cannot be read   *)
(* while the interface is down: what it was meanwhile decides.             *)
(***************************************************************************)
EXTENDS Integers, FiniteSets

CONSTANTS
    Nics,        \* names of interfaces
    Loopback,    \* those that are loopbacks
    MaxChanges   \* bound: changes the kernel makes

\* "link" and "idle" are up, with a carrier and without.
Statuses == {"gone", "down", "idle", "link"}

\* The bodies: active() of the two threads that call it, the properties "active",
\* "nics" and that of one interface, the constructor of AutoDetect.
Bodies == {"start", "refresh", "active", "nics", "carrier", "detect"}

\* A property is asked for from a thread of its own.
Threads  == {"agent", "property"}
BodiesOf == [agent    |-> {"start", "refresh", "detect"},
             property |-> {"active", "nics", "carrier"}]

NoNic == "no interface"

ASSUME NicsAssumption ==
    /\ IsFiniteSet(Nics) /\ NoNic \notin Nics
    /\ Loopback \subseteq Nics

VARIABLES
    kernel,    \* status of each interface
    changes,   \* changes made so far
    kind,      \* what the factory has built: "none", "list", "auto"
    started,   \* Nic::List::start has returned
    scan,      \* scan[t]: the loop of thread t
    value,     \* Agent<unsigned int>: the number shown
    agents     \* interfaces with an agent of the AutoDetect

vars == <<kernel, changes, kind, started, scan, value, agents>>

\* body: "none" between loops; todo: names to come; probed: the interface found
\* up, whose carrier is yet to be read; found: what the body has collected; path:
\* the interface whose properties are wanted; seen: history, each status an
\* interface has had since the loop began.
NoScan == [body |-> "none", todo |-> {}, probed |-> NoNic, found |-> {},
           path |-> NoNic, seen |-> [n \in Nics |-> {}]]

Init ==
    /\ kernel \in [Nics -> Statuses]
    /\ changes = 0
    /\ kind = "none" /\ started = FALSE
    /\ scan = [t \in Threads |-> NoScan]
    /\ value = 0
    /\ agents = {}

----------------------------------------------------------------------------
\* Nic::Agent::Factory, where the name is that of no interface; without a name it
\* throws.  AutoDetect scans in its constructor.
Factory(auto) == IF auto THEN "auto" ELSE "list"

Begin(t, body, path) ==
    scan' = [scan EXCEPT ![t] =
        [body |-> body, todo |-> {n \in Nics : kernel[n] # "gone"},
         probed |-> NoNic, found |-> {}, path |-> path,
         seen |-> [n \in Nics |-> {kernel[n]}]]]

Build == \E auto \in BOOLEAN :
    /\ kind = "none"
    /\ kind' = Factory(auto)
    /\ value' = 0 /\ agents' = {}
    /\ IF auto THEN Begin("agent", "detect", NoNic) ELSE UNCHANGED scan
    /\ UNCHANGED <<kernel, changes, started>>

\* List::start, List::refresh.
Count(body) ==
    /\ kind = "list" /\ scan["agent"].body = "none"
    /\ started = (body = "refresh")
    /\ Begin("agent", body, NoNic)
    /\ UNCHANGED <<kernel, changes, kind, started, value, agents>>

\* getProperty and getProperties.
Ask(body, path) ==
    /\ kind = "list" /\ scan["property"].body = "none"
    /\ (path = NoNic) = (body # "carrier")
    /\ Begin("property", body, path)
    /\ UNCHANGED <<kernel, changes, kind, started, value, agents>>

\* List::stop, and the agent is destroyed.
StopAndDestroy ==
    /\ kind # "none" /\ \A t \in Threads : scan[t].body = "none"
    /\ kind' = "none" /\ started' = FALSE
    /\ UNCHANGED <<kernel, changes, scan, value, agents>>

----------------------------------------------------------------------------
\* Interfaces the body leaves out before it looks at them.
Skips(s, n) ==
    \/ s.body \in {"active", "nics"} /\ n \in Loopback
    \/ s.body = "carrier" /\ n # s.path

Pass(s, n)    == [s EXCEPT !.todo = @ \ {n}]
Collect(s, n) == [s EXCEPT !.todo = @ \ {n}, !.found = @ \cup {n}]

\* A body that returns true ends the loop.
EndWith(s, found) == [s EXCEPT !.todo = {}, !.probed = NoNic, !.found = found]

\* Mutant: the carrier is read whatever up() says.
Look_Blindly(t, n) ==
    LET s == scan[t]
    IN /\ s.probed = NoNic /\ n \in s.todo
       /\ scan' = [scan EXCEPT ![t] =
              IF Skips(s, n) THEN Pass(s, n)
              ELSE IF s.body \in {"nics", "detect"} THEN Collect(s, n)
              ELSE [s EXCEPT !.probed = n]]
       /\ UNCHANGED <<kernel, changes, kind, started, value, agents>>

\* The first look.  "carrier" does not ask up().
Look(t, n) ==
    LET s == scan[t]
    IN /\ s.probed = NoNic /\ n \in s.todo
       /\ scan' = [scan EXCEPT ![t] =
              IF Skips(s, n) THEN Pass(s, n)
              ELSE IF s.body \in {"nics", "detect"} THEN Collect(s, n)
              ELSE IF s.body = "carrier" \/ kernel[n] \in {"idle", "link"}
                     THEN [s EXCEPT !.probed = n]
                     ELSE Pass(s, n)]
       /\ UNCHANGED <<kernel, changes, kind, started, value, agents>>

\* Mutant: the file is there, so there is a carrier.
ReadCarrier_Any(t) ==
    LET s == scan[t]  n == s.probed
    IN /\ n # NoNic
       /\ kernel[n] \in {"idle", "link"}
       /\ scan' = [scan EXCEPT ![t] =
              IF s.body \in {"active", "carrier"} THEN EndWith(s, {n})
              ELSE [Collect(s, n) EXCEPT !.probed = NoNic]]
       /\ UNCHANGED <<kernel, changes, kind, started, value, agents>>

\* The second look.  "active" ends with the first interface that has a carrier,
\* "carrier" with the one it is for.
ReadCarrier(t) ==
    LET s == scan[t]  n == s.probed
    IN /\ n # NoNic
       /\ kernel[n] \in {"idle", "link"}
       /\ scan' = [scan EXCEPT ![t] =
              IF s.body = "carrier"
                THEN EndWith(s, IF kernel[n] = "link" THEN {n} ELSE {})
              ELSE IF kernel[n] = "idle" THEN [Pass(s, n) EXCEPT !.probed = NoNic]
              ELSE IF s.body = "active"  THEN EndWith(s, {n})
              ELSE [Collect(s, n) EXCEPT !.probed = NoNic]]
       /\ UNCHANGED <<kernel, changes, kind, started, value, agents>>

\* Mutant: what was found before the exception is counted.
CarrierThrows_Caught(t) ==
    /\ scan[t].probed # NoNic
    /\ kernel[scan[t].probed] \in {"gone", "down"}
    /\ scan' = [scan EXCEPT ![t] = EndWith(@, @.found)]
    /\ UNCHANGED <<kernel, changes, kind, started, value, agents>>

\* The file has gone with the interface, or reading it fails: File::Text or stoi
\* throws through for_each, and what was found is lost.
CarrierThrows(t) ==
    /\ scan[t].probed # NoNic
    /\ kernel[scan[t].probed] \in {"gone", "down"}
    /\ scan' = [scan EXCEPT ![t] = NoScan]
    /\ UNCHANGED <<kernel, changes, kind, started, value, agents>>

Done(t) == scan[t].body # "none" /\ scan[t].todo = {}

\* start(active()), set(active()), the last push_back of the constructor.
Finish(t) ==
    /\ Done(t)
    /\ value' = IF scan[t].body \in {"start", "refresh"}
                  THEN Cardinality(scan[t].found) ELSE value
    /\ agents' = IF scan[t].body = "detect" THEN scan[t].found ELSE agents
    /\ started' = (started \/ scan[t].body = "start")
    /\ scan' = [scan EXCEPT ![t] = NoScan]
    /\ UNCHANGED <<kernel, changes, kind>>

----------------------------------------------------------------------------
\* An interface comes, goes, is taken up or down, gains or loses its link.
KernelChanges(n, status) ==
    /\ status # kernel[n]
    /\ changes < MaxChanges /\ changes' = changes + 1
    /\ kernel' = [kernel EXCEPT ![n] = status]
    /\ scan' = [t \in Threads |->
                   IF scan[t].body = "none" THEN scan[t]
                   ELSE [scan[t] EXCEPT !.seen[n] = @ \cup {status}]]
    /\ UNCHANGED <<kind, started, value, agents>>

Step(t) ==
    \/ \E n \in Nics : Look(t, n)
    \/ ReadCarrier(t) \/ CarrierThrows(t)
    \/ Finish(t)

Next ==
    \/ Build \/ StopAndDestroy
    \/ \E body \in {"start", "refresh"} : Count(body)
    \/ \E body \in BodiesOf["property"], path \in Nics \cup {NoNic} : Ask(body, path)
    \/ \E t \in Threads : Step(t)
    \/ \E n \in Nics, status \in Statuses : KernelChanges(n, status)

Spec == Init /\ [][Next]_vars

\* With an update-timer the scheduler goes on refreshing, and a loop ends.
Fairness == WF_vars(Count("refresh")) /\ WF_vars(Step("agent"))

FairSpec == Spec /\ Fairness

----------------------------------------------------------------------------
\* Interfaces the body of a loop is to find, going by their status.
Wanted(s) ==
    CASE s.body \in {"start", "refresh"} -> [nics |-> Nics, as |-> {"link"}]
      [] s.body = "active"  -> [nics |-> Nics \ Loopback, as |-> {"link"}]
      [] s.body = "carrier" -> [nics |-> {s.path}, as |-> {"link"}]
      [] s.body = "nics"    -> [nics |-> Nics \ Loopback, as |-> Statuses \ {"gone"}]
      [] OTHER              -> [nics |-> Nics, as |-> Statuses \ {"gone"}]

\* What a loop has found when it ends is true of the interfaces while it ran,
\* though each was looked at twice, at different times: every interface that was
\* as wanted throughout is found, and every one found was so at some time.  Of
\* the property "active" the first that was is enough.
ScanIsTrue == \A t \in Threads :
    LET s == scan[t]  w == Wanted(s)
    IN Done(t) =>
         /\ \A n \in s.found : n \in w.nics /\ s.seen[n] \cap w.as # {}
         /\ \/ \A n \in w.nics : s.seen[n] \subseteq w.as => n \in s.found
            \/ s.body = "active" /\ s.found # {}

\* A loop that counts ends with a number between those of the interfaces that had a
\* link all the while, and at some time, since it began: it is exact when nothing
\* changed.  One that is cut short leaves the number of the loop before.
CountIsTrue ==
    [][LET s == scan["agent"]
       IN s.body \in {"start", "refresh"} /\ scan'["agent"].body = "none" =>
            IF Done("agent")
              THEN /\ Cardinality({n \in Nics : s.seen[n] = {"link"}}) <= value'
                   /\ value' <= Cardinality({n \in Nics : "link" \in s.seen[n]})
              ELSE value' = value]_vars

\* An interface that goes down between the two looks makes refresh() throw, and
\* the number stays what it was; but once the interfaces are left alone, no such
\* failure repeats and a started list ends up with the number of links there are.
CountSettles ==
    \A k \in [Nics -> Statuses] :
        <>[](started /\ kernel = k) =>
            <>[](value = Cardinality({n \in Nics : k[n] = "link"}))
=============================================================================
