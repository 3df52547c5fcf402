# TLA+ models of libudjatnetwork

This directory specifies, model-checks and proves properties of the network
agents of *udjat* (the repository's `src/`): ICMP checks of hosts, DNS and IP
agents, network interface and gateway agents, the netlink listener that feeds
them, the DNS resolver they share, and the arithmetic of subnets.

Paths below are relative to `src/src/library/` unless they start with `src/`.

    tlasany M.tla                        parse a module
    tlc -config X.cfg MCM.tla            run one configuration
    tlapm MProofs.tla                    check the proofs of a module

`PROJECT.json` lists the runs, the property each mutant must break, the lines
every definition models, the hazards the properties are for, and the theorems.

## 1. The system

| component | state it keeps | operations | what makes it correct |
|---|---|---|---|
| ICMP controller, hosts, workers (`os/linux/icmp_controller.cc`, `os/linux/icmphost.cc`, `icmp/worker.cc`) | list of checks, `Worker::busy`, raw socket, timer and main-loop handler, 16-bit ids | `insert`, `remove`, `handle_event`, `on_timer` and its pool job, `send` | a worker has one check at a time; a check ends once, with at most one report, caused by its own packets (a callback that throws may have its check told again); a listed check can always be answered and expired; the socket is given back |
| IP agent (`ip/agent.cc`, `ip/factory.cc`) | address, last ICMP state, last subnet state | `refresh`, `set`, `computeState`, the factory | `start()` is not refused; the state shown is that of the address |
| DNS agent (`dns/agent.cc`) | the above, DNS state, server address | `refresh`, `set`, `computeState` | no address beside a failed query; a failure is shown |
| Default gateway (`defaultgateway.cc`, `os/linux/defaultgateway.cc`) | address, interface name | `detect`, `refresh`, `start`, `stop` | as the IP agent; the router of the route table is found and shown, where `detect` reads the table rightly |
| DNS resolver and `wait-for-host` (`dns/linux/resolver.cc`, `dns/linux/record.cc`, `module.cc`) | one static mutex; per resolver, records | constructor, `set`, `query`, `wait`, destructor | the mutex is given back on every way out; a wait returns what it found, in its time |
| NetLink listener (`os/linux/netlink.cc`) | listeners, socket, handler | `push_back`, `remove`, `handle_event` | a registration that returned is heard, unless a failed `bind` left a deaf socket; no socket without listener |
| Interface agent (`os/linux/nicagent.cc`, `nic/agent.cc`, `os/linux/nicstate.cc`) | `intf` (index, netlink, exist, flags) | `start`, `stop`, `refresh`, two netlink callbacks, a pushed update | ends up with what the kernel has, and shows it |
| IP states and subnets (`ip/state.cc`, `ip/subnet.cc`, `os/linux/subnet.cc`) | a subnet, kept by a `const` comparison | `compare`, `for_each`, `contains` | local means in the network of an interface |
| ICMP and DNS state tables (`icmp/state.cc`, `icmp/response.cc`, `dns/linux/state.cc`) | constant tables | factories | sets of states with levels in the models |
| Interface list, auto-detection (`nic/factory.cc`, `nic/list.cc`, `os/linux/niclist.cc`, `os/linux/nicdetect.cc`) | a number; agents of the interfaces | the factory, `start`, `refresh`, `active`, three properties, a constructor that scans | what a loop over changing interfaces finds is true of them; the number settles |
| Module (`module.cc`, `src/src/module/init.cc`) | factories | registration; the action above | registration not modelled |
| Windows port, `range.cc`, test programs, packaging | | | not modelled, see section 7 |

**Threads.** The main loop (libudjat's `MainLoop`) delivers socket events and
timers; a thread pool runs `refresh()` of agents, the timer job of the ICMP
controller and the updates that netlink callbacks push; an action such as
`wait-for-host` runs in the thread of its caller.

**Interactions.** An agent's `refresh()` resolves its name (one global mutex),
then starts a check (the controller's recursive mutex). The controller calls
back `Worker::set` with its mutex held, in the main loop or in a pool thread,
and `set` computes the state of the agent without any lock. Interface and
gateway agents register on one netlink socket; its callbacks write the agent's
fields in the main loop while `refresh()` writes them in the pool.

**What is hard here.** Timer jobs that run late against checks that ended; a
listener opened and closed by five different code paths; late and duplicated
packets against reused ids; a flag read outside its mutex; a failed query that
must take back an address and be told; `refresh()` storing an old answer of the
kernel over a newer message; lost netlink messages; one failing registration
among several; a mutex held across a blocking query and locked again while an
exception unwinds; a timer re-armed before it fires; a state computed in one
thread and stored after another thread's, in host and interface agents alike;
interfaces that change between two looks at them; a comparison and a store that
another thread gets between. Each is a `hazards` entry of `PROJECT.json` with its
line.

## 2. Modules

| module | models | states |
|---|---|---|
| `IcmpController` | the controller, its hosts and workers, a lossy network, the clock | runs `icmp_controller`, `icmp_doc_*` |
| `IcmpCheck` | abstract: what the controller promises its workers | refined by `IcmpController` |
| `IcmpTimer` | `IcmpController` in time: when its timer fires and its jobs run | `icmp_timer` |
| `RouteDump` | the datagrams of a route table and what `Gateway::detect` reads in them; constant operators | through `HostAgent` |
| `HostAgent` | one `network-host` agent of any of its three classes, over an abstract check | `host_agent`, `host_doc_gateway` |
| `HostCheck` | `IcmpController` with a `HostAgent` as one of its workers; implements `HostAgent` | `host_check` |
| `NetLink` | the netlink listener; operators over its own variables, no `Next` | through `NicAgent` |
| `NicAgent` | an interface agent composed with `NetLink`, the kernel and other agents on the socket | `nic_agent`, `nic_doc_up` |
| `NicList` | the list of all interfaces, its properties, auto-detection | `nic_list` |
| `Resolver` | threads that share the resolver's mutex: waits and DNS agents | `resolver_wait` |
| `SubNet` | search of the interfaces and bit arithmetic of `contains` | `subnet_search` |
| `IcmpDocumented`, `NicDocumented`, `HostDocumented` | what docs, comments and test.xml say, as properties | the `*_doc_*` runs |
| `MC*` | the constants of each specification for TLC | |
| `*Proofs` | theorems and their proofs | |

Operators named `X_Something` next to an `X` are mutants: `X` with one plausible
mistake, used to see that a property notices it. No specification uses them.

### IcmpController

Every operation holds the controller's recursive mutex for its whole body, so each is
one action; what interleaves is the order in which the lock is taken, the network and
the clock. `Start`/`StartFails` are `Worker::start` → `insert` → `start`; `Stop` is
`Worker::stop`, also that of `~Worker`; `HandleEvent` receives one packet, which the
network may duplicate; `OnTimer` only queues a job, and `RunJob` runs it, visiting every
host: expired ones are reported, due ones sent again, and a `sendto` that fails with
`ENETUNREACH` runs the nested `remove_if` of `send`. `AbortJob` is the job left by an
exception of `set()`, which the workers of `MayThrow` may raise: the host it was about
stays listed, the hosts before it have been visited (`Before`), those after it have not.
`Fates` are what becomes of a request; one of them is that the nested `remove_if` is
left by such an exception, which `Host::send` catches. `reports` has every call of
`set()`; one that threw and left its check listed is `kept`, and the check is told again
by a later job or an answer, as `IcmpCheck` allows. `CarriesId` says which answers have
the `icmp_id` that the filter of `handle_event` asks for. The constructor and `send`
read the clock one after the other (`FirstNext`). `check` numbers are ours; the program
has the 16-bit `Host::id`, kept here as `Id(check)` modulo `IdSpace`.

The nested `remove_if` erases the element the outer one is visiting. The outer
loop has taken its successor already and does not touch the element again
(`onTimer` returns true), so the model takes it as an erasure.

### IcmpTimer

The variables and actions of `IcmpController` with `alarm`, the time at which the timer
fires: `Controller::start` sets it to a second from now at every insert, also when the
timer is running. A job waits for a thread for `Delay` seconds at most. No callback
throws in this module. `starts`, a history variable, has the seconds in which a check
was started: `ChecksEndInTime` bounds a check relative to it, `LateByStarts` counts
them.

### RouteDump and HostAgent

`refresh()` is a chain of steps (`Refresh`, `Resolved`, `SetSuccess`, `QueryFails`,
`AskThrows`, `ServerIsAlias`, `Detected`, `NoAddress`, `HasAddress`, `StartCheck`,
`StartThrows`, `Return`, `ReturnThrows`, `PublishRefresh`) because it waits for the
network and for the controller's mutex in between; `Set`, `PublishCallback` and
`EndUnheard` are the end of a check, in another thread, and `SetThrows` a callback whose
computation throws (`getifaddrs` may fail, and `contains` throws for IPv6), after which
the check goes on if a timer job had called. `missed`, a history variable, says that
news of `refresh()` came while a callback was computing, or that telling them threw.
Each thread calls `updated(true)`, which computes the state of the agent (`Compute`) and
stores it later (`Publish`): what one has computed is in `computed` meanwhile, and the
other may store in between. `checking` is `busy`; `asked` is where the requests of the
check went, as `Retry` takes the address the agent has then; `Reach` is how checks of an
address may end. Subnet, ICMP and DNS states are compared by any assignment of levels.

What a gateway asks of the kernel is a dump, a sequence of datagrams of routes.
`detect()` tests the flags of its own request for NLM_F_MULTI (`Received`), so it
parses the first datagram only; takes the gateway of each route of the main table,
whatever its destination, so the last one stays (`Taken`, `LastTaken`); and
throws for a route of IPv6 (`Misread`). `LoneGateway` are the tables that it
nevertheless reads rightly, those for which `AddressIsShown` speaks of a gateway;
`host_doc_gateway` shows one of the others.

### HostCheck

The steps of `IcmpController`, each with what it does to the agent that is its worker
`Me`: `set()` (`Callback`, or `Throws` when it throws) for a report about it, and
another address among those asked when its host is sent again (`Resends`). The
controller holds its mutex until `set()` has returned, so no operation that takes it
happens while a callback is computing (`Calling`). `Agent` is `HostAgent` with
`checking` and `asked` replaced by the `busy` flag and the list of the controller, and
`AgentIsServed == Agent!Spec`: what is checked and proved of `HostAgent` rests on no
more than the controller does. `StartIsAccepted` is about both: no check that
`refresh()` may start meets one.

### NetLink and NicAgent

`refresh()` takes three steps, the `ioctl` (`Ask`), the comparison with the fields
(`Compare`) and the stores (`Store`, whatever the comparison said), and a fourth when
it returns true (`Update`); a netlink callback takes two, up to its comparison
(`HandleEvent`, `NewLink`, `DelLink`, which leave what differs in `held`) and from its
stores (`CallbackStores`). No lock is held, so either may write between two steps of
the other. The stores that one thread makes in a row are one step. `start()` runs one
`refresh()` and a thread of the pool another (`Askers`), each with its own `probe[t]`.
`updated(true)` ends both, and every update a callback has pushed (`RunUpdate` of one
of the `Updaters`, the threads of the pool); as in `HostAgent` it computes a state
(`Compute`) and stores it later (`Publish`), with `computed[t]` in between.

`raced`, a history variable, marks the two races this code has: when a state was last
computed an earlier, different one had not been stored; or a `refresh()` that found
nothing new has since stored fields that differ from what another thread had written.

`Short` and `Alias` are what the C types do: `ifr_flags` is a signed 16-bit member of
the union that also holds `ifr_ifindex`. Starting is the steps of `refresh()`, the
store of its state, the index and two registrations, each of which may fail, also by a
`bind` that leaves its descriptor open (`BindMayFail`).

### NicList

One loop, `Network::Interface::for_each` of libudjat, with the bodies that
`active()`, the properties and `AutoDetect` give it, in two threads: the agent's and
that of a request for a property. `Look` and `ReadCarrier` are the two looks at an
interface (`up()`, then the carrier file), between which the kernel may change it;
`CarrierThrows` is the file that cannot be read. The history `seen` has each status
an interface had while the loop ran. From libudjat it is assumed that the loop
has each interface once, of those present when it begins.

### Resolver

One step per point where a thread may wait: the constructor's critical section,
the loop test, taking the mutex, the answer, the sleep, the destructor. Time is
kept as what remains of it (`left`, `nap`, `age`), so no bound on the clock is
needed. Threads may be late without limit; only `res_nquery` has a longest time. An
agent with a DNS server destroys the resolver that found the server before it builds
the second (`Second`).

### SubNet

A word is the set of its one bits, so `&` is intersection and a shift moves the
elements; the netmask is counted as `os/linux/subnet.cc:64-70` does, in a word
wider than an address, and built again as `ip/subnet.cc:70-73` does.

## 3. Runs and what they show

| run | question | bounds |
|---|---|---|
| `icmp_controller` | do busy flags, list, listener and reports agree in every order of threads and packets; does the controller implement `IcmpCheck`; does every check end and the socket close | 2 workers (intervals 1 and 2, the first may throw), 3 checks, 2 ids, 4 s, 2 queued jobs; echoes, replies and packets of another type pass the filter |
| `icmp_timer` | how long can a check outlive its deadline when others keep re-arming the timer, in seconds and in checks started after it | 2 workers (intervals 1 and 2), 3 checks, 3 ids, 6 s, 2 queued jobs, a pool late by 1 s |
| `icmp_doc_timeout` | *violated*: a check with a timeout of 5 is reported timed out after 1 s | as `icmp_controller`, 5 s, no callback throws |
| `icmp_doc_errors` | *violated*: a router's error never becomes a report | the same |
| `host_agent` | do address, DNS state, check and shown state stay in step, and settle, also after callbacks have thrown | ten XML nodes, 2 addresses, 6 route tables, 2 DNS errors, 1 unreached response |
| `host_check` | does the controller do for an agent what `HostAgent` takes from it; is no start refused as busy | a gateway that moves between 2 addresses and may throw, another worker, 2 checks, 2 s, 1 queued job |
| `host_doc_gateway` | *violated*: in a table that has a default route, the address is that of another route | one gateway, the tables of `host_agent` |
| `nic_agent` | does registration survive the other agents; is the state shown that of the fields, or about to be; does an agent settle on what the kernel has | 2 agents, `bind` that may fail, 2 changes, 2 starts, queue of 1, one thread for pushed updates, 4-bit short in 6-bit flags |
| `nic_list` | is what a loop over the interfaces finds true of them; is the number it stores; does the count settle | a loopback and another interface, 2 changes, any initial status |
| `nic_doc_up` | *violated*: an interface up before its agent never gets the state `up` | 1 start, link changes only while started |
| `resolver_wait` | is the mutex always given back; what do waits return, how often do they ask, do they end | 2 waits (3 s/2 s and 1 s/0 s), an agent with a server, queries up to 2 s |
| `subnet_search` | does counting a netmask and rebuilding it decide locality | all addresses, masks and counts of 4 bits in an 8-bit long, lists of 1 and 2 interfaces |

Why the bounds are enough:

- *ICMP.* The hazards need an old and a new check of one worker plus one of another
  (three checks), ids that come round (two values), a job that is late behind another
  (two jobs), and a clock past a second deadline (four seconds, the last tick being left
  for the expiry of a check started at the latest moment the guard of `Start` allows).
  One worker that may throw is told of its check again, by a job, by an answer or by a
  refused request. The theorems hold for every value of these bounds.
- *Timer.* Three checks, one a second, keep the timer of the first from firing past its
  deadline and the delay of a job: a check of the first second can last to the fourth.
  Six seconds leave room for it to begin later.
- *Check of a host.* Two checks are the least in which a request or an answer of one
  could reach another; the second address is the one the agent moves to while a check of
  the first runs. In two seconds a check expires, its `set()` throws, and it is told
  again. The proof has no bound. What `HostAgent` does alone (names, levels, locality)
  is left to `host_agent`, and `Composition` is proved for all of it.
- *Host.* Two addresses, one local and one not, are what `computeState` can tell apart;
  two errors distinguish a repeated failure from a new one. The nodes cover every branch
  of the factory and of `Init`, the tables one router at home and away, a static route
  after the default one, a default route in the second datagram, a route of IPv6 and no
  gateway.
- *Interface.* The interface may be down at first, so its removal and re-creation are
  two changes, of which the queue of one loses the second message; a change and its
  message between the steps of a refresh take one. One thread for pushed updates, beside
  those of `start()` and `refresh()`, gives three that compute and store in any order.
  The flag values have the sign bit of the short in one and a bit above the short in the
  other.
- *List.* Two changes make an interface up at the first look, down at the second and up
  again; the other interface is the loopback, which bodies treat apart.
- *Resolver.* Both ways of `while` and `sleep` occur: a sleep that ends beyond the
  limit, and no sleep at all. Two waits and an agent contend for the mutex.
- *SubNet.* Four bits have every position a bit can be in (first, inner, last), the long
  is twice as wide as in the program, and counts go one beyond. `CHECK_DEADLOCK FALSE`:
  a search ends.

No state constraint or symmetry is used; bounds are guards of actions. The view of
`host_check` (`MCView`) leaves out `reports`, a history that no step of the composition
depends on: a report that ends a check is always a new one (`OneReportPerCheck`). In the
ICMP runs they stop starts and the clock, which is why `Start` is refused when
its deadline would lie beyond `MaxTime`: an unexpired check at the last tick
would look like one that never ends.

## 4. Fairness

- `IcmpController`: weak for the clock; strong for jobs that end (`JobEnds`), because a
  job may be aborted by a callback that throws, but not for ever. The timer fires unless
  checks are started for ever (`TimerFires`): every insert re-arms it, so the code
  guarantees no more, and `EveryCheckEnds` has the end of starts as its antecedent. How
  late starts make a check is the subject of `IcmpTimer`. Nothing is assumed of the
  network or of agents.
- `HostAgent`: weak for each step of `refresh()` (update-timer, a query returns or
  fails). Strong for starting a check and for its report: a raw socket may be refused, a
  callback may throw and a check may end unheard, but not every time. That a check ends
  is `EveryCheckEnds` of `IcmpController`, as long as other agents leave its timer a
  second to fire.
- `IcmpTimer`, `HostCheck`: none, safety only. That a timer fires and a job runs in time
  are guards of the clock (`TimedTick`).
- `NicList`: weak for the next refresh and for each step of its loop; nothing for
  requests of properties. `CountSettles` speaks of an agent with an update-timer.
- `NicAgent`: weak for the main loop reading the socket, for what a callback stores, for
  each step of a due refresh, and for the pool, which runs pushed updates to their end.
  `Periodic` is the XML update-timer.
- `Resolver`: weak for the clock, strong for each thread: one that waits for the mutex
  gets it in the end although others take it repeatedly. `std::mutex` does not promise
  this; the scheduler of the kernel gives it in practice.

## 5. Proofs

Each proof module EXTENDS its component. Assumptions are those named in the
components; TLC evaluates them in the runs.

| module | theorems | argument |
|---|---|---|
| `IcmpControllerProofs` | `TypeCorrect`, `Invariance`, `BusyIsExact`, `ListedIsServiced`, `NoCrossTalk`, `ReportsOnce`, `RetriesOnce`, `EndsAreReported`, `Refinement`, `IdsAreReusedLate` | below |
| `IcmpTimerProofs` | `EndsInTime`, `LateByStartsOnly` | below |
| `HostAgentProofs` | `TypeCorrect`, `StartAccepted`, `AddressResolved`, `FailureShown` | the invariants are inductive together with `ComputedWhen` (a thread has something computed exactly between its two halves) and `FailureIsComputed` (what `refresh()` has computed of a failure is as bad as it); `WorstIsWorst` on levels is what lets either thread compute the state. |
| `HostCheckProofs` | `Composition`, `StartsAreAccepted` | below |
| `NicAgentProofs` | `TypeCorrect`, `NoSocketWithoutListener`, `RegisteredAreHeard`, `UpdatesAreDue` | below; `OnlyNetLinkWrites` reduces every step of `Next` to three operations of the listener; `RegisteredAreHeard` holds for either value of `BindMayFail`, as the socket of a registration is bound and watched or is neither; `TypeCorrect` adds the types of the kernel's link and of the queue (`AllTyped`) |
| `NicListProofs` | `ScansAreTrue`, `CountsAreTrue`, `StillCountIsExact` | `LoopIsTrue`: in the middle of a loop, every interface that has been as wanted so far is found or still to come. `CountsAreTrue` adds cardinalities: what was found lies between two sets of interfaces (`FoundBetween`), which are finite as `NicsAssumption` has it; when nothing changed the two are one (`StillCountIsExact`) |
| `ResolverProofs` | `TypeCorrect`, `GuardCorrect`, `StatusCorrect`, `TriesCorrect` | `Spaced`: intervals slept fit into the time gone by |
| `SubNetProofs` | `TypeCorrect`, `MaskCorrect`, `XmlSubnetCorrect`, `LocalCorrect` | `Counting`: after k turns the word is the netmask moved by k, with min(k, n) bits counted |

The invariant of the controller, `IInv`, adds to the checked invariants what
makes them inductive: `Numbered` (no check number is ahead of `started`, in the
list, the network or the reports), `IdsApart` (an id in use belongs to one check;
without it a packet could match two hosts) and `Scheduled` (no request is
planned before the deadline; without it a host could be sent a third). All the
ways a check can end satisfy one predicate, `Ends(gone)`, and `EndsKeeps` shows
once that it preserves numbers, ids, busy flags and reports. The refinement maps
`running` to the checks of the list and `count` to `started`: `Ends` implies
`IcmpCheck!End`, `Start` is `Begin`, and what touches neither is a stutter.

`EndsInTime` rests on `Invariance`, since every step of `IcmpTimer` is one of the
controller (`TimedIsUntimed`), and on `TimedInv`: the alarm is at most a second ahead
while the timer is on, no waiting job is older than `Delay`, and from the deadline of
each listed check until the first waiting job was next to run, or until the alarm when
none waits, a check was started in every second (`Excused`). `RunJob` then ends every
expired check, and a start only moves the alarm in a second that it excuses itself.
`LateByStartsOnly` makes the bound absolute: the seconds since the deadline of a check in
which another was started are no more than the checks numbered after it (`Counted`,
inductive), and `ChecksEndInTime` has the late seconds among them.

`UpdatesAreDue` says that the state an interface agent shows is that of its fields, or
that a thread, or an update in the pool, is about to make it so. Whatever writes the
fields must lead to an update, or be a race: `CallbackStores` pushes one
(`CallbackIsDue`), and a `Store` is followed by `Update` if `Compare` found news and
sets `raced` if it did not and `StateOf` tells the difference (`CompareIsDue`,
`StoreIsDue`). The exceptions are not left to the reader's good will: without either
part of `raced` TLC finds the behaviour that it excuses. The first `refresh()` of a new
agent is what has to be shown harmless (`FirstIsNews`): until its answer is stored no
callback is registered and nothing is computed, and that answer always differs from the
fields of the constructor, since an interface that is absent has the index -1.

`Composition` needs `CheckInv`: the invariant of the controller, the types of the part
of the agent it reads (`AgentInv`), and the link between the two (`LinkInv`): a listed
check of the agent has asked an address, and none is listed during its callback. A
`set()` that throws is the agent's `SetThrows`, which ends the check of a packet and
keeps that of a job (`ThrowServes`). Most
of the proof is `EndsServes`: whatever set of checks a step ends (`Ends` again), the
agent sees `Set` if one was its own and reported, `EndUnheard` if it was not reported,
`Retry` if its request went to another address, and nothing otherwise.
`StartsAreAccepted` goes the other way, from the agent to the controller: every step of
the composition being one of `Agent!Next`, only `HasAddress` leads to the start, and
nobody but the agent begins a check of it (`ServedKeepsUnchecked`); `BusyIffListed` then
says that the list has none.

Two assumptions carry weight. `IdIsFree` (in `Start`): the 16-bit counter does
not come back to an id whose check is listed or has a packet under way. `IdsAreReusedLate`
proves how little that is: the next check gets the id of a pending one only when it is
at least the 65536th (`IdSpace`) started after it; the lemma about `%` it needs,
`RemaindersDiffer`, is proved from the definition of division. And
`LongBits >= W` in `SubNet`. `Composition` also needs `ReachAssumption`: a request to
any address may go unanswered, or not leave the machine.

Only model-checked: everything under fairness (`EveryCheckEnds`,
`SocketIsReleased`, `AddressIsShown`, `Converges`, `RemovalIsPublished`,
`PublishedIsCurrent`, `CountSettles`, `EveryCallReturns`), which this prover does
not reach.

## 6. Where the code differs from what it says

| run | code | said |
|---|---|---|
| `icmp_doc_timeout` | the deadline is one `interval` away; `timers.timeout` is never read (`os/linux/icmphost.cc:31`) | `src/include/os/linux/udjat/net/icmp.h:50` "ICMP timeout.", README.md:20 `icmp-timeout='60'` |
| `icmp_doc_errors` | packets without our `icmp_id` are dropped (`os/linux/icmp_controller.cc:113`), and errors have none | README.md:31-32, states for them |
| `nic_doc_up` | `exist()` returns `intf.netlink` (`os/linux/nicstate.cc:65`) | test.xml:20 |
| `host_doc_gateway` | each route of the main table overwrites the gateway of the one before, default or not (`os/linux/defaultgateway.cc:199`); only the first datagram is read (`:157`) | `src/include/udjat/net/gateway.h:30`, `:37` "Detect default gateway" |

Seen while modelling, in the models but without a run: `intf.netlink` does not
follow RTM_NEWLINK and RTM_DELLINK as `nic/agent.h:41` says; an interface that
disappears is not noticed without update-timer (RTM_DELLINK compares an index
that is the flags); `refresh()` of a DNS agent returns false for a new address;
a state `local` matches an agent without an address until it has matched one.
A gateway whose node already has its address and is not checked shows no state.
Others, in the models too:

- Two updates of an interface agent that overlap, each between computing the state and
  storing it, may leave the older state shown; so may a `refresh()` that finds the
  fields equal to its answer, stores that answer after a callback has written newer
  ones, and returns false (`os/linux/nicagent.cc:204-220`). Both last until the next
  update (`raced` in `UpdateIsDue`, `RemovalIsPublished` and `PublishedIsCurrent`).
- A `bind` that fails (`os/linux/netlink.cc:127`; the address is the process id, which
  the socket of `detect()` may have) leaves its descriptor open: later registrations
  find a descriptor, return, and hear nothing until the last listener is removed.
- A `set()` that throws out of a timer job has stored the outcome and leaves its host
  listed (`os/linux/icmphost.cc:49`): the worker is told again of the same check, once
  a job or an answer comes, and the other hosts wait for that job.
- A node without `type` is an `IP::Agent` (`ip/factory.cc:35`), so the host of
  README.md:20, which has a hostname only, is never looked up.
- `Resolver::set` always throws (`dns/linux/resolver.cc:124`), so a host with the DNS
  server that `dns/agent.h:38` and `dns.h:148` offer never gets an address.
- `icmp.response` is never assigned and `set(invalid)` returns at once
  (`ip/agent.cc:145`): "No IP address, resetting state" of `:143` resets the subnet
  state and leaves the ICMP state.
- `Gateway::detect` throws when a main route of IPv6 has a gateway
  (`os/linux/defaultgateway.cc:192`).
- The first record of a DNS answer may be an alias, whose address is empty
  (`dns/linux/record.cc:89`): the agent refuses it or takes no address, with the DNS
  state of a success.
- A callback that has computed the state of the agent when a query fails may store it
  after the failure has been published (`FailureIsShown` names the exception).
- A property of one interface (`nic/list.cc:59`) reads the carrier of one that is
  down, which throws.

## 7. Not modelled, and why

- Windows: `#error "Pending implementation"` in two files, one is a comment, and
  the controller includes a header that does not exist.
- `range.cc`, `src/src/include/private/module.h`,
  `os/linux/defaultgateway.cc:233-403`: commented out.
- `AutoDetect` beyond its constructor: the agents it builds are `NicAgent`s, and its
  `stop` removes an object that never registered, which `OtherStops` allows.
- Text: XML parsing, names, icons, summaries, properties, logging; the ICMP
  checksum and the round-trip time, in which
  `getCurrentTime` adds nanoseconds to microseconds (`os/linux/icmp_controller.cc:59`);
  the bound of `to_string` (`icmp/response.cc:60`), one too large for any response
  that exists.
- IPv6: the code throws or ignores it.
- Stores that one thread makes in a row, seen half done by another: the fields of
  `intf` are written and read together here. C++ data races whose outcome is not a
  value of the model: two threads assigning
  the `shared_ptr` `ip.state` in `computeState` (that they overtake each other is
  modelled), listeners changed from another thread during `handle_event`, a virtual
  call on an agent whose destructor has begun (`icmp/worker.cc:89`).
- `activate()` is `noexcept` and constructs a resolver that may throw: the
  process would terminate. A signal may cut `sleep(interval)` short.
- An empty hostname makes `query` throw before it takes the mutex.

## 8. Plan

Done, in the order of importance: the ICMP controller and its refinement, its timer,
host agents over an abstract check and over the controller itself, the route dump, the
netlink listener with interface agents, the list of interfaces, the resolver, subnets;
a proof module for each specification.

Left:

1. Proofs: `AddressIsResolved` and `FailureIsShown` restated over `HostCheck`, as
   `StartIsAccepted` is; today they follow from `Composition` and the theorems about
   `HostAgent`, which the prover does not instantiate.
2. Liveness of the composition: `HostAgent`'s strong fairness of `Set` from
   `EveryCheckEnds`, which needs `HostCheck` under fairness and a bound on the checks
   that does not stop the agent.
3. `in_chksum` against the one's-complement sum of RFC 1071, with the widths of `int`
   and `unsigned short`.
4. `NicList` with `NicAgent`s as the agents that `AutoDetect` builds, on one socket.
