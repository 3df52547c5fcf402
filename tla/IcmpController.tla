--------------------------- MODULE IcmpController ---------------------------
(***************************************************************************)
(* ICMP::Controller, its Hosts and the ICMP::Workers they check            *)
(* (icmp_controller.cc, icmphost.cc, worker.cc).                           *)
(*                                                                         *)
(* Agent threads start and stop checks; the main loop receives packets and *)
(* fires the timer; the timer only queues a job, which a thread of the     *)
(* pool runs later.  All four take the recursive mutex `guard' for their   *)
(* whole body, so each is one action; what interleaves is the order in     *)
(* which they get the lock, and the network.                               *)
(*                                                                         *)
(* A check is numbered by the order in which its Host was built.  The      *)
(* numbers are ours; the program only has the 16-bit Host::id.  The list   *)
(* `hosts' is in the order of these numbers, so it is a set here.          *)
(***************************************************************************)
EXTENDS Integers

CONSTANTS
    Workers,     \* the agents that own an ICMP::Worker
    Interval,    \* Interval[w]: timers.interval of w, in seconds
    IdSpace,     \* number of values of Host::id (65536 for uint16_t)
    MayThrow,    \* workers whose set() may throw, as that of an IP::Agent may
    CarriesId,   \* answers whose header repeats the icmp_id of the request
    MaxTime,     \* bound: last second of the clock
    MaxChecks,   \* bound: checks started in a behaviour
    MaxJobs      \* bound: timer jobs waiting in the thread pool

ASSUME IntervalAssumption == Interval \in [Workers -> Nat]
ASSUME IdSpaceAssumption == IdSpace \in Nat \ {0}

(***************************************************************************)
(* What recvfrom may return for one of our requests: the request itself    *)
(* (a raw socket sees its own ICMP_ECHO to a local address), the reply, a  *)
(* router's error, or an ICMP type onResponse has no case for.             *)
(***************************************************************************)
AnswerTypes == {"echo", "reply", "unreach", "exceeded", "other"}

ASSUME CarriesIdAssumption == CarriesId \subseteq AnswerTypes

VARIABLES
    now,      \* ::time(0)
    busy,     \* Worker::busy
    hosts,    \* Controller::hosts
    timer,    \* MainLoop::Timer is enabled
    handler,  \* MainLoop::Handler is enabled
    fd,       \* the raw socket is open (values.fd # -1)
    jobs,     \* timer jobs pushed to the thread pool and not yet run
    wire,     \* checks with a request, or an answer to one, in the network
    started,  \* Hosts built so far: the number of the last check
    reports   \* every call of Worker::set: history, read by no action

vars == <<now, busy, hosts, timer, handler, fd, jobs, wire, started, reports>>

----------------------------------------------------------------------------
Response == {"echo_reply", "destination_unreachable", "time_exceeded",
             "timeout", "network_unreachable"}

Host == [worker: Workers, check: Nat, timeout: Nat, next: Nat, packets: Nat]

\* A call of set().  `cause' is the check whose packet made the program call it;
\* `kept': it threw, and the exception kept the host in the list.
Report == [worker: Workers, check: Nat, response: Response, cause: Nat,
           kept: BOOLEAN]

\* static uint16_t id = 0; this->id = id++
Id(check) == (check - 1) % IdSpace

\* Mutant: the test of the id is dropped.
Matching_AnyId(check) == hosts

\* The test payload.id == this->id of onResponse and onError.
Matching(check) == {h \in hosts : Id(h.check) = Id(check)}

\* host.worker.busy = false for every host a remove_if erases.
Release(gone) == busy' = [w \in Workers |->
                            busy[w] /\ \A h \in gone : h.worker # w]

ReportOf(h, response, cause) ==
    [worker |-> h.worker, check |-> h.check,
     response |-> response, cause |-> cause, kept |-> FALSE]

\* A call by the timer job that threw.
KeptBy(h, response) == [worker |-> h.worker, check |-> h.check,
                        response |-> response, cause |-> h.check, kept |-> TRUE]

\* Controller::start, when it does not throw.
OpenListener == timer' = TRUE /\ handler' = TRUE /\ fd' = TRUE

\* Controller::stop.
CloseListener == timer' = FALSE /\ handler' = FALSE /\ fd' = FALSE

\* Mutants: stop() called without, or never after, the test hosts.empty().
CloseIfNoHosts_Always == CloseListener
CloseIfNoHosts_Never  == UNCHANGED <<timer, handler, fd>>

\* The tail of remove() and of the timer job.
CloseIfNoHosts == IF hosts' = {} THEN CloseListener
                                 ELSE UNCHANGED <<timer, handler, fd>>

Init ==
    /\ now = 0
    /\ busy = [w \in Workers |-> FALSE]
    /\ hosts = {}
    /\ timer = FALSE /\ handler = FALSE /\ fd = FALSE
    /\ jobs = 0
    /\ wire = {}
    /\ started = 0
    /\ reports = {}

----------------------------------------------------------------------------
(***************************************************************************)
(* Agent threads.                                                          *)
(***************************************************************************)

\* Assumption on id reuse: by the time the 16-bit counter comes back to a
\* value, nothing of the check that had it is left in the list or the network.
IdIsFree(check) == \A other \in wire \cup {h.check : h \in hosts} :
                        Id(other) # Id(check)

\* Mutant: the deadline is two intervals away.
NewHost_LateDeadline(w, next) ==
    [worker |-> w, check |-> started + 1, timeout |-> now + 2 * Interval[w],
     next |-> next, packets |-> 1]

\* Host::Host: the constructor sends the first request before the list holds
\* the host, so a failure of that sendto reaches no host.
NewHost(w, next) ==
    [worker |-> w, check |-> started + 1, timeout |-> now + Interval[w],
     next |-> next, packets |-> 1]

\* send() reads the clock again, after the constructor has: a second may have
\* passed.  (After onTimer has, too; but a second request is the last one,
\* whichever of two seconds past the deadline its `next' is.)
FirstNext(w) == now + Interval[w] .. now + Interval[w] + 1

\* Worker::start -> Controller::insert; a busy worker gets EBUSY instead.
Start(w) ==
    /\ ~busy[w]
    /\ started < MaxChecks /\ now + Interval[w] < MaxTime
    /\ IdIsFree(started + 1)
    /\ OpenListener
    /\ busy' = [busy EXCEPT ![w] = TRUE]
    /\ \E next \in FirstNext(w) : hosts' = hosts \cup {NewHost(w, next)}
    /\ started' = started + 1
    /\ \/ wire' = wire \cup {started + 1}
       \/ wire' = wire                    \* sendto failed, whatever the errno
    /\ UNCHANGED <<now, jobs, reports>>

\* Controller::start throws (protocol, socket, fcntl): only when it has to open
\* the socket.  Its catch clause stops the listener and insert() never gets to
\* set busy.
StartFails(w) ==
    /\ ~busy[w] /\ ~fd
    /\ CloseListener
    /\ UNCHANGED <<now, busy, hosts, jobs, wire, started, reports>>

\* Mutant: the lambda of remove() erases the host and forgets busy = false.
Stop_KeepsBusy(w) ==
    /\ hosts' = {h \in hosts : h.worker # w}
    /\ CloseIfNoHosts
    /\ UNCHANGED <<now, busy, jobs, wire, started, reports>>

\* Mutant: the lambda clears busy and returns false, so the host stays.
Stop_KeepsHost(w) ==
    /\ hosts' = hosts
    /\ busy' = [busy EXCEPT ![w] = FALSE]
    /\ CloseIfNoHosts
    /\ UNCHANGED <<now, jobs, wire, started, reports>>

\* Worker::stop and ~Worker -> Controller::remove, of a checking worker or not.
Stop(w) ==
    /\ LET gone == {h \in hosts : h.worker = w}
       IN hosts' = hosts \ gone /\ Release(gone)
    /\ CloseIfNoHosts
    /\ UNCHANGED <<now, jobs, wire, started, reports>>

----------------------------------------------------------------------------
(***************************************************************************)
(* The main loop.                                                          *)
(***************************************************************************)

\* What onResponse passes to Worker::set; it calls nothing for "other".
ResponseTo(type) ==
    CASE type = "reply"    -> {"echo_reply"}
      [] type = "unreach"  -> {"destination_unreachable"}
      [] type = "exceeded" -> {"time_exceeded"}
      [] OTHER             -> {}

\* The hosts for which onResponse returns true, after the icmp_id filter.
Answered(check, type) ==
    IF type \in CarriesId \ {"echo"} THEN Matching(check) ELSE {}

\* Mutant: the host is told of the answer and stays in the list.
HandleEvent_KeepsHost(check, type) ==
    /\ handler /\ fd
    /\ check \in wire
    /\ wire' \in {wire, wire \ {check}}
    /\ reports' = reports \cup {ReportOf(h, r, check) :
                     h \in Answered(check, type), r \in ResponseTo(type)}
    /\ UNCHANGED <<now, busy, hosts, timer, handler, fd, jobs, started>>

\* handle_event: one packet.  The network may still hold a duplicate of it.
\* onResponse catches what set() throws, and the host goes.
\* When the socket was closed after the poll, recvfrom fails and nothing changes.
HandleEvent(check, type) ==
    /\ handler /\ fd
    /\ check \in wire
    /\ wire' \in {wire, wire \ {check}}
    /\ LET gone == Answered(check, type)
       IN /\ hosts' = hosts \ gone
          /\ Release(gone)
          /\ reports' = reports \cup {ReportOf(h, r, check) :
                                        h \in gone, r \in ResponseTo(type)}
    /\ UNCHANGED <<now, timer, handler, fd, jobs, started>>

\* on_timer: push a job.  A slow pool may come to hold several.
OnTimer ==
    /\ timer
    /\ jobs < MaxJobs
    /\ jobs' = jobs + 1
    /\ UNCHANGED <<now, busy, hosts, timer, handler, fd, wire, started, reports>>

----------------------------------------------------------------------------
(***************************************************************************)
(* The timer job, in a thread of the pool.                                 *)
(***************************************************************************)

Expired(seen) == {h \in seen : now > h.timeout}
Due(seen)     == {h \in seen : now <= h.timeout /\ now >= h.next}

\* Host::send: ++packets, and the next one an interval later.
Resent(h) == [h EXCEPT !.next = now + Interval[h.worker],
                       !.packets = h.packets + 1]

\* What becomes of the request of a host that is due: it leaves; sendto refuses
\* it with ENETUNREACH and the nested remove_if of Controller::send tells the
\* worker and erases the host; the same, but set() throws out of that remove_if
\* into the catch of Host::send; sendto fails otherwise, which is only logged.
Fates == {"sent", "unreachable", "thrown", "failed"}

Outcomes(seen) == {fate \in [Due(seen) -> Fates] :
                     \A h \in Due(seen) : fate[h] = "thrown" => h.worker \in MayThrow}

With(fate, outcome) == {h \in DOMAIN fate : fate[h] = outcome}

\* Mutant: expired hosts are erased without a call of Worker::set.
Visit_SilentTimeout(seen, fate, aborted) ==
    LET gone == Expired(seen) \cup With(fate, "unreachable")
    IN /\ hosts' = (hosts \ (Due(seen) \cup gone))
                     \cup {Resent(h) : h \in Due(seen) \ gone}
       /\ Release(gone)
       /\ wire' = wire \cup {h.check : h \in With(fate, "sent")}
       /\ reports' = reports
            \cup {KeptBy(h, "timeout") : h \in aborted}
            \cup {ReportOf(h, "network_unreachable", h.check) :
                     h \in With(fate, "unreachable")}
            \cup {KeptBy(h, "network_unreachable") : h \in With(fate, "thrown")}

\* The remove_if over the hosts of `seen', up to the host, if any, whose
\* set(timeout) throws: `aborted'.
Visit(seen, fate, aborted) ==
    LET gone == Expired(seen) \cup With(fate, "unreachable")
    IN /\ hosts' = (hosts \ (Due(seen) \cup gone))
                     \cup {Resent(h) : h \in Due(seen) \ gone}
       /\ Release(gone)
       /\ wire' = wire \cup {h.check : h \in With(fate, "sent")}
       /\ reports' = reports
            \cup {ReportOf(h, "timeout", h.check) : h \in Expired(seen)}
            \cup {KeptBy(h, "timeout") : h \in aborted}
            \cup {ReportOf(h, "network_unreachable", h.check) :
                     h \in With(fate, "unreachable")}
            \cup {KeptBy(h, "network_unreachable") : h \in With(fate, "thrown")}

\* Mutant: a job runs that was not pushed.
RunJob_NotQueued(fate) ==
    /\ jobs' = jobs - 1
    /\ Visit(hosts, fate, {})
    /\ CloseIfNoHosts
    /\ UNCHANGED <<now, started>>

RunJob(fate) ==
    /\ jobs > 0
    /\ jobs' = jobs - 1
    /\ Visit(hosts, fate, {})
    /\ CloseIfNoHosts
    /\ UNCHANGED <<now, started>>

JobEnds == \E fate \in Outcomes(hosts) : RunJob(fate)

Before(h) == {g \in hosts : g.check < h.check}

\* Worker::set(timeout) of `h' throws: the exception leaves remove_if and the
\* job; `h' stays and the hosts after it are not visited, nor is the listener
\* considered.  The next job, or an answer, tells `h' again.
AbortJob(h, fate) ==
    /\ jobs > 0
    /\ jobs' = jobs - 1
    /\ now > h.timeout /\ h.worker \in MayThrow
    /\ Visit(Before(h), fate, {h})
    /\ UNCHANGED <<now, timer, handler, fd, started>>

JobThrows == \E h \in hosts : \E fate \in Outcomes(Before(h)) : AbortJob(h, fate)

----------------------------------------------------------------------------
(***************************************************************************)
(* The environment.                                                        *)
(***************************************************************************)

Tick ==
    /\ now < MaxTime
    /\ now' = now + 1
    /\ UNCHANGED <<busy, hosts, timer, handler, fd, jobs, wire, started, reports>>

Lose(check) ==
    /\ wire' = wire \ {check}
    /\ UNCHANGED <<now, busy, hosts, timer, handler, fd, jobs, started, reports>>

----------------------------------------------------------------------------
Next ==
    \/ \E w \in Workers : Start(w) \/ StartFails(w) \/ Stop(w)
    \/ \E check \in wire, type \in AnswerTypes : HandleEvent(check, type)
    \/ OnTimer
    \/ JobEnds \/ JobThrows
    \/ Tick
    \/ \E check \in wire : Lose(check)

Spec == Init /\ [][Next]_vars

\* start() re-arms the timer of one second at every insert: it fires unless
\* checks are started for ever.
TimerFires == WF_vars(OnTimer) \/ []<><<\E w \in Workers : Start(w)>>_vars

\* The clock runs, the pool runs its jobs, and a callback does not throw for ever
\* (hence strong fairness of JobEnds).  Nothing is asked of the network, nor of
\* the agents.
Fairness == WF_vars(Tick) /\ TimerFires /\ SF_vars(JobEnds)

FairSpec == Spec /\ Fairness

----------------------------------------------------------------------------
\* Type invariant: every variable keeps the shape of its C++ counterpart.
TypeOK ==
    /\ now \in Nat
    /\ busy \in [Workers -> BOOLEAN]
    /\ hosts \subseteq Host
    /\ timer \in BOOLEAN /\ handler \in BOOLEAN /\ fd \in BOOLEAN
    /\ jobs \in Nat
    /\ wire \subseteq Nat
    /\ started \in Nat
    /\ reports \subseteq Report

\* `busy' is the lock that keeps a worker from being checked twice, and it is
\* kept apart from the list by five different remove_if lambdas: it is set
\* exactly while one host, and only one, checks the worker.
BusyIffListed ==
    \A w \in Workers :
        /\ busy[w] <=> \E h \in hosts : h.worker = w
        /\ \A g, h \in hosts : g.worker = w /\ h.worker = w => g = h

\* Whatever order the job, remove() and a failing start() reach stop() in, a
\* check in the list has a socket to be answered on and a timer to expire it,
\* and no socket stays open without the timer that will close it.
Serviced ==
    /\ timer = fd /\ handler = fd
    /\ hosts # {} => fd

\* A packet completes only the check that sent it: a late or duplicated answer
\* to an earlier check of a worker says nothing about a later one.
AnswerIsOwn == \A r \in reports : r.cause = r.check

\* Timer job, socket and sendto error race for a host, and one of them wins: a
\* check ends with at most one outcome.  A worker is told of a check that goes on
\* only by a set() that threw; such a check may be told again.
OneReportPerCheck ==
    /\ \A r, s \in reports :
          r.check = s.check /\ ~r.kept /\ ~s.kept => r = s
    /\ \A r \in reports, h \in hosts : r.check = h.check => r.kept

\* A check sends at most two requests, although `interval' is "ICMP packet
\* interval": the deadline is one interval away, so a second one leaves only in
\* the last second of the check, and no third (icmphost.cc:31, :133).
AtMostOneRetry ==
    \A h \in hosts : Interval[h.worker] > 0 => h.packets <= 2

\* A check that ends, ends with a report, because its worker was stopped, or by a
\* packet of a type onResponse only logs.
EndsReported ==
    [][\A h \in hosts :
          \/ \E g \in hosts' : g.check = h.check
          \/ \E r \in reports' : r.check = h.check /\ ~r.kept
          \/ Stop(h.worker)
          \/ \E check \in wire : HandleEvent(check, "other")]_vars

\* Every check ends, though every packet may be lost, callbacks may throw and
\* checks be stopped, once no more checks are started (those that are keep the
\* timer from firing).
EveryCheckEnds ==
    <>[][~\E w \in Workers : Start(w)]_vars =>
        \A w \in Workers : \A c \in 1..MaxChecks :
            (\E h \in hosts : h.worker = w /\ h.check = c)
                ~> ~(\E h \in hosts : h.worker = w /\ h.check = c)

\* The raw socket is given back once nothing is being checked.
SocketIsReleased == fd /\ hosts = {} ~> ~fd \/ hosts # {}

----------------------------------------------------------------------------
\* The controller implements what IcmpCheck promises: a check is running while
\* its host is in the list.
Abs == INSTANCE IcmpCheck
          WITH running <- {[worker |-> h.worker, check |-> h.check] : h \in hosts},
               count <- started

\* Each step of the controller is a Begin, an End or nothing to the workers.
Promise == Abs!Spec
=============================================================================
