------------------------------ MODULE Resolver ------------------------------
(***************************************************************************)
(* The threads that share DNS::Resolver's static mutex (resolver.cc):      *)
(* waiters, in Resolver::wait on behalf of DNS::wait or of an action       *)
(* wait-for-host (module.cc), and host agents in DNS::Agent::refresh.      *)
(*                                                                         *)
(* query() holds the mutex while it waits for the network, so everybody    *)
(* else waits too; the clock of a waiter goes on, in whole seconds.  Time  *)
(* is kept as what remains of it, so the model needs no bound on it.       *)
(***************************************************************************)
EXTENDS Integers

CONSTANTS
    Waiters,
    Agents,
    OwnServer,  \* agents with a DNS server of their own
    Timeout,    \* Timeout[w], Interval[w]: arguments of wait()
    Interval,
    MaxQuery    \* seconds a query may take (timeout and retries of res_nquery)

Threads == Waiters \cup Agents
None == "none"

ASSUME ThreadAssumption ==
    /\ Waiters \cap Agents = {} /\ OwnServer \subseteq Agents
    /\ None \notin Threads
ASSUME TimeAssumption ==
    /\ Timeout \in [Waiters -> Nat] /\ Interval \in [Waiters -> Nat]
    /\ MaxQuery \in Nat \ {0}

VARIABLES
    pc,       \* point of wait() or refresh() a thread is at
    guard,    \* holder of the mutex
    age,      \* seconds the running query has taken
    world,    \* what a query is answered: "found", "empty" or "broken"
    left,     \* left[w]: limit - time(nullptr), 0 when it is not positive
    nap,      \* nap[w]: what is left of sleep(interval)
    records,  \* records[w]: the resolver of w has records
    status,   \* status[w]: what the running wait of w is to return
    tries     \* tries[w]: queries of the running wait, counted to Timeout[w] + 1

clocks == <<age, left, nap>>
outcome == <<records, status, tries>>
vars == <<pc, guard, age, world, left, nap, records, status, tries>>

Init ==
    /\ pc = [t \in Threads |-> "idle"]
    /\ guard = None /\ age = 0
    /\ world \in {"found", "empty", "broken"}
    /\ left = [w \in Waiters |-> 0] /\ nap = [w \in Waiters |-> 0]
    /\ records = [w \in Waiters |-> FALSE]
    /\ status = [w \in Waiters |-> None]
    /\ tries = [w \in Waiters |-> 0]

Go(t, from, to) == pc[t] = from /\ pc' = [pc EXCEPT ![t] = to]

\* A critical section that does not wait for the network.
Brief(t, from, to) == guard = None /\ Go(t, from, to) /\ UNCHANGED guard

----------------------------------------------------------------------------
\* An agent whose server has an address, from an earlier refresh(), begins with
\* the resolver of that server; whether it has one is left open.
Begin(t) ==
    /\ Go(t, "idle", "ctor") \/ (t \in OwnServer /\ Go(t, "idle", "second"))
    /\ UNCHANGED <<guard, world, clocks, outcome>>

\* Resolver::Resolver(), then wait() computes its limit.
ConstructWaiter(w) ==
    /\ Brief(w, "ctor", "test")
    /\ left' = [left EXCEPT ![w] = Timeout[w]]
    /\ UNCHANGED <<world, age, nap, outcome>>

ConstructAgent(a) ==
    /\ Brief(a, "ctor", "ask")
    /\ UNCHANGED <<world, clocks, outcome>>

\* res_ninit() fails: the exception is the caller's.
ConstructThrows(t) ==
    /\ Brief(t, "ctor", "idle")
    /\ UNCHANGED <<world, clocks, outcome>>

\* Mutant: no query that would be followed by a sleep beyond the limit.
Test_Early(w) ==
    /\ IF left[w] > Interval[w]
         THEN /\ Go(w, "test", "ask")
              /\ tries' = [tries EXCEPT ![w] = IF @ > Timeout[w] THEN @ ELSE @ + 1]
              /\ UNCHANGED status
         ELSE /\ Go(w, "test", "dtor")
              /\ status' = [status EXCEPT ![w] = "ETIMEDOUT"]
              /\ UNCHANGED tries
    /\ UNCHANGED <<guard, world, clocks, records>>

\* while(time(nullptr) < limit)
Test(w) ==
    /\ IF left[w] > 0
         THEN /\ Go(w, "test", "ask")
              /\ tries' = [tries EXCEPT ![w] = IF @ > Timeout[w] THEN @ ELSE @ + 1]
              /\ UNCHANGED status
         ELSE /\ Go(w, "test", "dtor")
              /\ status' = [status EXCEPT ![w] = "ETIMEDOUT"]
              /\ UNCHANGED tries
    /\ UNCHANGED <<guard, world, clocks, records>>

\* query() takes the mutex and clears the records; the limit may have passed.
Ask(t) ==
    /\ guard = None /\ guard' = t
    /\ Go(t, "ask", "query")
    /\ records' = IF t \in Waiters THEN [records EXCEPT ![t] = FALSE] ELSE records
    /\ UNCHANGED <<world, clocks, status, tries>>

Release(t) == guard = t /\ guard' = None /\ age' = 0

Found(w) ==
    /\ Go(w, "query", "dtor") /\ Release(w)
    /\ world = "found"
    /\ records' = [records EXCEPT ![w] = TRUE]
    /\ status' = [status EXCEPT ![w] = "0"]
    /\ UNCHANGED <<world, left, nap, tries>>

\* Mutant: the return on szResponse < 0 leaves the mutex locked.
Empty_KeepsGuard(w) ==
    /\ Go(w, "query", "nap") /\ guard = w /\ UNCHANGED guard
    /\ world = "empty"
    /\ nap' = [nap EXCEPT ![w] = Interval[w]]
    /\ UNCHANGED <<world, age, left, outcome>>

\* Mutant: no sleep between two queries.
Empty_NoSleep(w) ==
    /\ Go(w, "query", "test") /\ Release(w)
    /\ world = "empty"
    /\ UNCHANGED <<world, left, nap, outcome>>

\* Mutant: the sleep is what the next query leaves of the limit.
Empty_SleepToLimit(w) ==
    /\ Go(w, "query", "nap") /\ Release(w)
    /\ world = "empty"
    /\ nap' = [nap EXCEPT ![w] = left[w] - Interval[w]]
    /\ UNCHANGED <<world, left, outcome>>

\* query(hostname, false) returns without records: sleep(interval).
Empty(w) ==
    /\ Go(w, "query", "nap") /\ Release(w)
    /\ world = "empty"
    /\ nap' = [nap EXCEPT ![w] = Interval[w]]
    /\ UNCHANGED <<world, left, outcome>>

\* The constructor of a record throws, after others were stored or before:
\* wait() returns -1.
Broken(w) ==
    /\ Go(w, "query", "dtor") /\ Release(w)
    /\ world = "broken"
    /\ \E some \in BOOLEAN : records' = [records EXCEPT ![w] = some]
    /\ status' = [status EXCEPT ![w] = "-1"]
    /\ UNCHANGED <<world, left, nap, tries>>

\* query() of an agent returns or throws.  With a server of its own the answer was
\* the address of the server.  (One that begins with an alias leaves that address
\* empty, and refresh() goes on as a call of an agent without a server.)
AnswerAgent(a) ==
    /\ Release(a)
    /\ Go(a, "query", IF a \in OwnServer /\ world = "found" THEN "close" ELSE "dtor")
    /\ UNCHANGED <<world, left, nap, outcome>>

\* The first resolver is destroyed and Resolver(server) built.  res_ninit() fails,
\* or the delegated constructor has succeeded when set() throws, so that the
\* destructor runs; the exception ends refresh().
Second(a) ==
    /\ \/ Brief(a, "close", "second")
       \/ Brief(a, "second", "set") \/ Brief(a, "second", "idle")
       \/ Brief(a, "set", "unwind")
       \/ Brief(a, "unwind", "idle")
    /\ UNCHANGED <<world, clocks, outcome>>

\* sleep() is over.
Wake(w) ==
    /\ nap[w] = 0
    /\ Go(w, "nap", "test")
    /\ UNCHANGED <<guard, world, clocks, outcome>>

\* Resolver::~Resolver, and the call returns; what it kept is gone.
Destroy(t) ==
    /\ Brief(t, "dtor", "idle")
    /\ IF t \in Waiters
         THEN /\ left' = [left EXCEPT ![t] = 0]
              /\ records' = [records EXCEPT ![t] = FALSE]
              /\ status' = [status EXCEPT ![t] = None]
              /\ tries' = [tries EXCEPT ![t] = 0]
         ELSE UNCHANGED <<left, outcome>>
    /\ UNCHANGED <<world, age, nap>>

----------------------------------------------------------------------------
Less(n) == IF n > 0 THEN n - 1 ELSE 0

\* One second: res_nquery gives up in time, everybody else may be late.
Tick ==
    /\ guard # None => age < MaxQuery
    /\ age' = IF guard # None THEN age + 1 ELSE age
    /\ left' = [w \in Waiters |-> Less(left[w])]
    /\ nap' = [w \in Waiters |-> Less(nap[w])]
    /\ UNCHANGED <<pc, guard, world, outcome>>

WorldChanges ==
    /\ world' \in {"found", "empty", "broken"}
    /\ UNCHANGED <<pc, guard, clocks, outcome>>

WaitStep(w) ==
    \/ ConstructWaiter(w) \/ Test(w)
    \/ Found(w) \/ Empty(w) \/ Broken(w) \/ Wake(w)

AgentStep(a) == ConstructAgent(a) \/ AnswerAgent(a) \/ Second(a)

CallStep(t) == ConstructThrows(t) \/ Ask(t) \/ Destroy(t)

Next ==
    \/ \E w \in Waiters : WaitStep(w)
    \/ \E a \in Agents : AgentStep(a)
    \/ \E t \in Threads : Begin(t) \/ CallStep(t)
    \/ Tick
    \/ WorldChanges

Spec == Init /\ [][Next]_vars

\* The clock runs and threads do.  Strong fairness: whoever waits for the mutex
\* gets it in the end, however often others take it before.
Fairness ==
    /\ WF_vars(Tick)
    /\ \A w \in Waiters : SF_vars(WaitStep(w) \/ CallStep(w))
    /\ \A a \in Agents : SF_vars(AgentStep(a) \/ CallStep(a))

FairSpec == Spec /\ Fairness

----------------------------------------------------------------------------
\* Type invariant of the resolvers.
TypeOK ==
    /\ pc \in [Threads -> {"idle", "ctor", "test", "ask", "query", "nap", "close",
                           "second", "set", "unwind", "dtor"}]
    /\ guard \in Threads \cup {None}
    /\ age \in 0..MaxQuery
    /\ world \in {"found", "empty", "broken"}
    /\ left \in [Waiters -> Nat]
    /\ nap \in [Waiters -> Nat]
    /\ records \in [Waiters -> BOOLEAN]
    /\ status \in [Waiters -> {None, "0", "ETIMEDOUT", "-1"}]
    /\ tries \in [Waiters -> Nat]

\* On every way out of query(), the exceptions of a record included, the mutex is
\* given back: a thread that is to lock it again, in set() or a destructor that
\* runs while an exception unwinds, does not hold it already.
GuardIsReturned == \A t \in Threads : guard = t <=> pc[t] = "query"

\* What wait() returns is about its last query: 0 with the records of it, and
\* ETIMEDOUT without any and not before the limit.
StatusIsLast ==
    \A w \in Waiters : pc[w] = "dtor" =>
        /\ status[w] = "0" => records[w]
        /\ status[w] = "ETIMEDOUT" => ~records[w] /\ left[w] = 0

\* However late the thread runs and however long it waits for the mutex, a wait
\* asks no more often than once in an interval, to the limit.
TriesAreSpaced ==
    \A w \in Waiters :
        Interval[w] > 0 /\ tries[w] > 0 => (tries[w] - 1) * Interval[w] < Timeout[w]

\* Every wait and every refresh() ends, though each blocks all the others while
\* it asks, and a wait with interval 0 never sleeps.
EveryCallReturns == \A t \in Threads : pc[t] # "idle" ~> pc[t] = "idle"
=============================================================================
