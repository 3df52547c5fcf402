--------------------------- MODULE ResolverProofs ---------------------------
(***************************************************************************)
(* Proofs about Resolver, for any number of waiters and agents, any        *)
(* timeouts, intervals and duration of a query.                            *)
(***************************************************************************)
EXTENDS Resolver, TLAPS

\* Each thread stays within its own function.
Role ==
    /\ \A a \in Agents : pc[a] \notin {"test", "nap"}
    /\ \A w \in Waiters : pc[w] \notin {"close", "second", "set", "unwind"}

\* Records and status belong to a wait that has decided.
Status(w) ==
    /\ pc[w] # "dtor" => ~records[w]
    /\ pc[w] = "dtor" =>
        /\ status[w] = "0" => records[w]
        /\ status[w] = "ETIMEDOUT" => ~records[w] /\ left[w] = 0

\* The intervals slept, the one that runs included, fit in the time gone by.
Spaced(w) ==
    Interval[w] > 0 =>
        /\ pc[w] \in {"idle", "ctor"} => tries[w] = 0
        /\ pc[w] = "test" =>
              left[w] = 0 \/ left[w] + tries[w] * Interval[w] <= Timeout[w]
        /\ pc[w] \in {"ask", "query"} =>
              /\ tries[w] > 0
              /\ left[w] = 0 \/ left[w] + (tries[w] - 1) * Interval[w] <= Timeout[w]
        /\ pc[w] = "nap" =>
              left[w] = 0 \/ left[w] + tries[w] * Interval[w] <= Timeout[w] + nap[w]
        /\ tries[w] > 0 => (tries[w] - 1) * Interval[w] < Timeout[w]

Local(w) == Status(w) /\ Spaced(w)

IInv ==
    /\ TypeOK
    /\ GuardIsReturned
    /\ Role
    /\ \A w \in Waiters : Local(w)

\* A waiter that a step leaves alone keeps its part of the invariant.
LEMMA LocalFrame ==
    ASSUME NEW w \in Waiters, Local(w),
           pc'[w] = pc[w], left'[w] = left[w], nap'[w] = nap[w],
           records'[w] = records[w], status'[w] = status[w], tries'[w] = tries[w]
    PROVE  Local(w)'
BY DEF Local, Status, Spaced

\* Multiples of an interval.
LEMMA Multiples ==
    ASSUME NEW n \in Nat, NEW k \in Nat
    PROVE  /\ n * k \in Nat
           /\ (n + 1) * k = n * k + k
           /\ (n - 1) * k = n * k - k
           /\ (n + 1 - 1) * k = n * k
           /\ k > 0 => n <= n * k
OBVIOUS

LEMMA InitIInv == Init => IInv
<1> SUFFICES ASSUME Init PROVE IInv
  OBVIOUS
<1>1. TypeOK
  BY TimeAssumption DEF Init, TypeOK
<1>2. \A t \in Threads : pc[t] = "idle" /\ guard # t
  BY ThreadAssumption DEF Init
<1>3. GuardIsReturned /\ Role
  BY <1>2 DEF GuardIsReturned, Role, Threads
<1>4. ASSUME NEW w \in Waiters PROVE Local(w)
  <2>1. pc[w] = "idle" /\ ~records[w] /\ tries[w] = 0
    BY DEF Init, Threads
  <2> QED BY <2>1 DEF Local, Status, Spaced
<1> QED BY <1>1, <1>3, <1>4 DEF IInv

\* Each step of each thread preserves the invariant.
LEMMA NextIInv == IInv /\ [Next]_vars => IInv'
<1> SUFFICES ASSUME IInv, [Next]_vars PROVE IInv'
  OBVIOUS
<1> USE DEF IInv
<1>0. /\ Waiters \subseteq Threads /\ Agents \subseteq Threads
      /\ Waiters \cap Agents = {} /\ None \notin Threads
      /\ OwnServer \subseteq Agents
  BY ThreadAssumption DEF Threads
<1>1. ASSUME NEW w \in Waiters, ConstructWaiter(w) PROVE IInv'
  <2>1. /\ guard = None /\ guard' = guard /\ pc[w] = "ctor"
        /\ pc' = [pc EXCEPT ![w] = "test"]
        /\ left' = [left EXCEPT ![w] = Timeout[w]]
        /\ UNCHANGED <<world, age, nap, records, status, tries>>
    BY <1>1 DEF ConstructWaiter, Brief, Go, outcome
  <2>2. TypeOK'
    BY <1>0, <2>1, TimeAssumption DEF TypeOK
  <2>3. GuardIsReturned' /\ Role'
    BY <1>0, <2>1 DEF GuardIsReturned, Role, TypeOK
  <2>4. Local(w)'
    <3>1. /\ pc'[w] = "test" /\ left'[w] = Timeout[w]
          /\ tries'[w] = tries[w] /\ records'[w] = records[w]
      BY <1>0, <2>1 DEF TypeOK
    <3>2. Status(w)'
      BY <2>1, <3>1 DEF Local, Status
    <3>3. Spaced(w)'
      <4> SUFFICES ASSUME Interval[w] > 0 PROVE Spaced(w)'
        BY DEF Spaced
      <4>1. tries[w] = 0
        BY <2>1 DEF Local, Spaced
      <4>2. Timeout[w] \in Nat /\ Interval[w] \in Nat /\ 0 * Interval[w] = 0
        BY TimeAssumption
      <4> QED BY <3>1, <4>1, <4>2 DEF Spaced
    <3> QED BY <3>2, <3>3 DEF Local
  <2>5. ASSUME NEW v \in Waiters, v # w PROVE Local(v)'
    BY <1>0, <2>1, <2>5, LocalFrame DEF TypeOK
  <2> QED BY <2>2, <2>3, <2>4, <2>5
<1>2. ASSUME NEW w \in Waiters, Test(w) PROVE IInv'
  <2>1. CASE left[w] > 0
    <3>1. /\ pc[w] = "test" /\ pc' = [pc EXCEPT ![w] = "ask"]
          /\ tries' = [tries EXCEPT ![w] = IF @ > Timeout[w] THEN @ ELSE @ + 1]
          /\ UNCHANGED <<guard, world, age, left, nap, records, status>>
      BY <1>2, <2>1 DEF Test, Go, clocks
    <3>2. TypeOK'
      BY <1>0, <3>1, TimeAssumption DEF TypeOK
    <3>3. GuardIsReturned' /\ Role'
      BY <1>0, <3>1 DEF GuardIsReturned, Role, TypeOK
    <3>4. Spaced(w)'
      <4> SUFFICES ASSUME Interval[w] > 0 PROVE Spaced(w)'
        BY DEF Spaced
      <4> DEFINE n == tries[w]
      <4>1. /\ n \in Nat /\ Interval[w] \in Nat /\ Timeout[w] \in Nat /\ left[w] \in Nat
            /\ left[w] + n * Interval[w] <= Timeout[w]
        <5>1. /\ n \in Nat /\ Interval[w] \in Nat /\ Timeout[w] \in Nat
              /\ left[w] \in Nat
          BY TimeAssumption DEF TypeOK
        <5>2. Spaced(w) /\ pc[w] = "test" /\ left[w] # 0
          BY <2>1, <3>1, <5>1 DEF Local
        <5> QED BY <5>1, <5>2 DEF Spaced
      <4>2. n * Interval[w] \in Nat /\ n <= n * Interval[w]
              /\ (n + 1 - 1) * Interval[w] = n * Interval[w]
        BY <4>1, Multiples
      <4>3. n < Timeout[w] /\ n * Interval[w] < Timeout[w]
        BY <2>1, <4>1, <4>2
      <4>4. /\ tries'[w] = n + 1 /\ pc'[w] = "ask" /\ left'[w] = left[w]
        BY <1>0, <3>1, <4>1, <4>3 DEF TypeOK
      <4> HIDE DEF n
      <4> QED BY <4>1, <4>2, <4>3, <4>4 DEF Spaced
    <3>5. Status(w)'
      BY <1>0, <3>1 DEF Local, Status, TypeOK
    <3>6. ASSUME NEW v \in Waiters, v # w PROVE Local(v)'
      BY <1>0, <3>1, <3>6, LocalFrame DEF TypeOK
    <3> QED BY <3>2, <3>3, <3>4, <3>5, <3>6 DEF Local
  <2>2. CASE ~(left[w] > 0)
    <3>1. /\ pc[w] = "test" /\ pc' = [pc EXCEPT ![w] = "dtor"]
          /\ status' = [status EXCEPT ![w] = "ETIMEDOUT"]
          /\ UNCHANGED <<guard, world, age, left, nap, records, tries>>
      BY <1>2, <2>2 DEF Test, Go, clocks
    <3>2. TypeOK'
      BY <1>0, <3>1 DEF TypeOK
    <3>3. GuardIsReturned' /\ Role'
      BY <1>0, <3>1 DEF GuardIsReturned, Role, TypeOK
    <3>4. Local(w)'
      BY <1>0, <2>2, <3>1 DEF Local, Status, Spaced, TypeOK
    <3>5. ASSUME NEW v \in Waiters, v # w PROVE Local(v)'
      BY <1>0, <3>1, <3>5, LocalFrame DEF TypeOK
    <3> QED BY <3>2, <3>3, <3>4, <3>5
  <2> QED BY <2>1, <2>2
<1>3. ASSUME NEW w \in Waiters, Found(w) \/ Broken(w) PROVE IInv'
  <2>1. /\ pc[w] = "query" /\ pc' = [pc EXCEPT ![w] = "dtor"]
        /\ guard = w /\ guard' = None /\ age' = 0
        /\ \E some \in BOOLEAN : records' = [records EXCEPT ![w] = some]
        /\ status' \in {[status EXCEPT ![w] = "0"], [status EXCEPT ![w] = "-1"]}
        /\ status'[w] = "0" => records'[w]
        /\ status'[w] # "ETIMEDOUT"
        /\ UNCHANGED <<world, left, nap, tries>>
    BY <1>3 DEF Found, Broken, Go, Release, TypeOK
  <2>2. TypeOK'
    <3>1. records' \in [Waiters -> BOOLEAN]
      BY <2>1 DEF TypeOK
    <3>2. status' \in [Waiters -> {None, "0", "ETIMEDOUT", "-1"}]
      BY <2>1 DEF TypeOK
    <3>3. pc' \in [Threads -> {"idle", "ctor", "test", "ask", "query", "nap", "close",
                               "second", "set", "unwind", "dtor"}]
      BY <2>1 DEF TypeOK
    <3> QED BY <2>1, <3>1, <3>2, <3>3, TimeAssumption DEF TypeOK
  <2>3. GuardIsReturned' /\ Role'
    BY <1>0, <2>1 DEF GuardIsReturned, Role, TypeOK
  <2>4. Local(w)'
    BY <1>0, <2>1 DEF Local, Status, Spaced, TypeOK
  <2>5. ASSUME NEW v \in Waiters, v # w PROVE Local(v)'
    <3>1. records'[v] = records[v] /\ status'[v] = status[v] /\ pc'[v] = pc[v]
      BY <1>0, <2>1, <2>5 DEF TypeOK
    <3> QED BY <2>1, <3>1, LocalFrame
  <2> QED BY <2>2, <2>3, <2>4, <2>5
<1>4. ASSUME NEW w \in Waiters, Empty(w) PROVE IInv'
  <2>1. /\ pc[w] = "query" /\ pc' = [pc EXCEPT ![w] = "nap"]
        /\ guard = w /\ guard' = None /\ age' = 0
        /\ nap' = [nap EXCEPT ![w] = Interval[w]]
        /\ UNCHANGED <<world, left, records, status, tries>>
    BY <1>4 DEF Empty, Go, Release, outcome
  <2>2. TypeOK'
    <3>1. pc' \in [Threads -> {"idle", "ctor", "test", "ask", "query", "nap", "close",
                               "second", "set", "unwind", "dtor"}]
      BY <2>1 DEF TypeOK
    <3>2. nap' \in [Waiters -> Nat] /\ age' \in 0..MaxQuery
      <4>1. Interval[w] \in Nat /\ 0 \in 0..MaxQuery
        BY TimeAssumption
      <4> QED BY <2>1, <4>1 DEF TypeOK
    <3> QED BY <2>1, <3>1, <3>2 DEF TypeOK
  <2>3. GuardIsReturned' /\ Role'
    BY <1>0, <2>1 DEF GuardIsReturned, Role, TypeOK
  <2>4. Spaced(w)'
    <3>1. /\ tries[w] \in Nat /\ Interval[w] \in Nat /\ Timeout[w] \in Nat
          /\ left[w] \in Nat
      BY TimeAssumption DEF TypeOK
    <3>2. (tries[w] - 1) * Interval[w] = tries[w] * Interval[w] - Interval[w]
            /\ tries[w] * Interval[w] \in Nat
      BY <3>1, Multiples
    <3>3. pc'[w] = "nap" /\ nap'[w] = Interval[w] /\ left'[w] = left[w]
            /\ tries'[w] = tries[w]
      BY <1>0, <2>1 DEF TypeOK
    <3>4. Spaced(w) /\ pc[w] = "query"
      BY <2>1 DEF Local
    <3> QED BY <3>1, <3>2, <3>3, <3>4 DEF Spaced
  <2>5. Status(w)'
    BY <1>0, <2>1 DEF Local, Status, TypeOK
  <2>6. ASSUME NEW v \in Waiters, v # w PROVE Local(v)'
    BY <1>0, <2>1, <2>6, LocalFrame DEF TypeOK
  <2> QED BY <2>2, <2>3, <2>4, <2>5, <2>6 DEF Local
<1>5. ASSUME NEW w \in Waiters, Wake(w) PROVE IInv'
  <2>1. /\ pc[w] = "nap" /\ pc' = [pc EXCEPT ![w] = "test"] /\ nap[w] = 0
        /\ UNCHANGED <<guard, world, age, left, nap, records, status, tries>>
    BY <1>5 DEF Wake, Go, clocks, outcome
  <2>2. TypeOK'
    BY <1>0, <2>1 DEF TypeOK
  <2>3. GuardIsReturned' /\ Role'
    BY <1>0, <2>1 DEF GuardIsReturned, Role, TypeOK
  <2>4. Local(w)'
    <3>1. pc'[w] = "test" /\ Timeout[w] + nap[w] = Timeout[w]
      BY <1>0, <2>1, TimeAssumption DEF TypeOK
    <3> QED BY <2>1, <3>1 DEF Local, Status, Spaced
  <2>5. ASSUME NEW v \in Waiters, v # w PROVE Local(v)'
    BY <1>0, <2>1, <2>5, LocalFrame DEF TypeOK
  <2> QED BY <2>2, <2>3, <2>4, <2>5
<1>6. ASSUME NEW a \in Agents, AgentStep(a) PROVE IInv'
  <2>1. /\ pc[a] \in {"ctor", "query", "close", "second", "set", "unwind"}
        /\ \E to \in {"ask", "close", "second", "set", "unwind", "dtor", "idle"} :
               pc' = [pc EXCEPT ![a] = to]
        /\ guard' = None /\ guard \in {a, None} /\ (guard = a <=> pc[a] = "query")
        /\ age' \in {0, age}
        /\ UNCHANGED <<world, left, nap, records, status, tries>>
    BY <1>0, <1>6 DEF AgentStep, ConstructAgent, AnswerAgent, Second, Brief, Go,
                      Release, clocks, outcome, GuardIsReturned
  <2>2. TypeOK'
    BY <1>0, <2>1, TimeAssumption DEF TypeOK
  <2>3. GuardIsReturned' /\ Role'
    BY <1>0, <2>1 DEF GuardIsReturned, Role, TypeOK
  <2>4. ASSUME NEW v \in Waiters PROVE Local(v)'
    <3>1. v # a
      BY <1>0
    <3>2. pc'[v] = pc[v]
      BY <1>0, <2>1, <3>1 DEF TypeOK
    <3> QED BY <2>1, <3>2, LocalFrame
  <2> QED BY <2>2, <2>3, <2>4
<1>7. ASSUME NEW t \in Threads, Begin(t) \/ ConstructThrows(t) PROVE IInv'
  <2>1. /\ pc[t] \in {"idle", "ctor"}
        /\ \/ pc' \in {[pc EXCEPT ![t] = "ctor"], [pc EXCEPT ![t] = "idle"]}
           \/ t \in OwnServer /\ pc' = [pc EXCEPT ![t] = "second"]
        /\ UNCHANGED <<guard, world, age, left, nap, records, status, tries>>
    BY <1>7 DEF Begin, ConstructThrows, Brief, Go, clocks, outcome
  <2>2. TypeOK'
    BY <2>1 DEF TypeOK
  <2>3. GuardIsReturned' /\ Role'
    BY <1>0, <2>1 DEF GuardIsReturned, Role, TypeOK
  <2>4. ASSUME NEW v \in Waiters PROVE Local(v)'
    BY <1>0, <2>1, LocalFrame DEF Local, Status, Spaced, TypeOK
  <2> QED BY <2>2, <2>3, <2>4
<1>8. ASSUME NEW t \in Threads, Ask(t) PROVE IInv'
  <2>1. /\ guard = None /\ guard' = t
        /\ pc[t] = "ask" /\ pc' = [pc EXCEPT ![t] = "query"]
        /\ records' = IF t \in Waiters THEN [records EXCEPT ![t] = FALSE] ELSE records
        /\ UNCHANGED <<world, age, left, nap, status, tries>>
    BY <1>8 DEF Ask, Go, clocks
  <2>2. TypeOK'
    BY <2>1 DEF TypeOK
  <2>3. GuardIsReturned' /\ Role'
    BY <1>0, <2>1 DEF GuardIsReturned, Role, TypeOK
  <2>4. ASSUME NEW v \in Waiters PROVE Local(v)'
    BY <1>0, <2>1 DEF Local, Status, Spaced, TypeOK
  <2> QED BY <2>2, <2>3, <2>4
<1>9. ASSUME NEW t \in Threads, Destroy(t) PROVE IInv'
  <2>1. CASE t \in Waiters
    <3>1. /\ guard = None /\ guard' = guard
          /\ pc[t] = "dtor" /\ pc' = [pc EXCEPT ![t] = "idle"]
          /\ left' = [left EXCEPT ![t] = 0]
          /\ records' = [records EXCEPT ![t] = FALSE]
          /\ status' = [status EXCEPT ![t] = None]
          /\ tries' = [tries EXCEPT ![t] = 0]
          /\ UNCHANGED <<world, age, nap>>
      BY <1>9, <2>1 DEF Destroy, Brief, Go
    <3>2. TypeOK'
      BY <3>1 DEF TypeOK
    <3>3. GuardIsReturned' /\ Role'
      BY <1>0, <3>1 DEF GuardIsReturned, Role, TypeOK
    <3>4. Local(t)'
      BY <2>1, <3>1 DEF Local, Status, Spaced, TypeOK
    <3>5. ASSUME NEW v \in Waiters, v # t PROVE Local(v)'
      BY <1>0, <3>1, <3>5, LocalFrame DEF TypeOK
    <3> QED BY <3>2, <3>3, <3>4, <3>5
  <2>2. CASE t \notin Waiters
    <3>1. /\ pc[t] = "dtor" /\ pc' = [pc EXCEPT ![t] = "idle"]
          /\ UNCHANGED <<guard, world, age, left, nap, records, status, tries>>
      BY <1>9, <2>2 DEF Destroy, Brief, Go, outcome
    <3>2. TypeOK' /\ GuardIsReturned' /\ Role'
      BY <1>0, <3>1 DEF TypeOK, GuardIsReturned, Role
    <3>3. ASSUME NEW v \in Waiters PROVE Local(v)'
      BY <1>0, <2>2, <3>1, LocalFrame DEF TypeOK
    <3> QED BY <3>2, <3>3
  <2> QED BY <2>1, <2>2
<1>10. CASE Tick
  <2>1. /\ guard # None => age < MaxQuery
        /\ age' = IF guard # None THEN age + 1 ELSE age
        /\ left' = [w \in Waiters |-> Less(left[w])]
        /\ nap' = [w \in Waiters |-> Less(nap[w])]
        /\ UNCHANGED <<pc, guard, world, records, status, tries>>
    BY <1>10 DEF Tick, outcome
  <2>2. TypeOK'
    BY <2>1, TimeAssumption DEF TypeOK, Less
  <2>3. GuardIsReturned' /\ Role'
    BY <2>1 DEF GuardIsReturned, Role
  <2>4. ASSUME NEW v \in Waiters PROVE Local(v)'
    <3>1. /\ left'[v] = Less(left[v]) /\ nap'[v] = Less(nap[v])
          /\ pc'[v] = pc[v] /\ tries'[v] = tries[v]
          /\ records'[v] = records[v] /\ status'[v] = status[v]
      BY <2>1
    <3>2. /\ left[v] \in Nat /\ nap[v] \in Nat /\ tries[v] \in Nat
          /\ Timeout[v] \in Nat /\ Interval[v] \in Nat
      BY TimeAssumption DEF TypeOK
    <3>3. tries[v] * Interval[v] \in Nat /\ (tries[v] - 1) * Interval[v] \in Int
      BY <3>2, Multiples
    <3>4. Status(v)'
      BY <3>1, <3>2 DEF Local, Status, Less
    <3>5. Spaced(v)'
      <4> DEFINE p == tries[v] * Interval[v]
                 q == (tries[v] - 1) * Interval[v]
      <4>1. /\ left'[v] = 0 \/ (left'[v] = left[v] - 1 /\ left[v] > 0)
            /\ nap'[v] >= nap[v] - 1 /\ nap'[v] \in Nat
            /\ left'[v] <= left[v] /\ left'[v] \in Nat
        BY <3>1, <3>2 DEF Less
      <4>2. Spaced(v)
        BY DEF Local
      <4>3. CASE ~(Interval[v] > 0)
        BY <4>3 DEF Spaced
      <4>4. CASE Interval[v] > 0
        <5>1. pc[v] \in {"idle", "ctor"} => tries[v] = 0
          BY <4>2, <4>4 DEF Spaced
        <5>2. pc[v] = "test" => left'[v] = 0 \/ left'[v] + p <= Timeout[v]
          <6>1. pc[v] = "test" => left[v] = 0 \/ left[v] + p <= Timeout[v]
            BY <4>2, <4>4 DEF Spaced
          <6>2. p \in Nat
            BY <3>3
          <6> HIDE DEF p
          <6> QED BY <3>2, <4>1, <6>1, <6>2
        <5>3. pc[v] \in {"ask", "query"} =>
                 /\ tries[v] > 0
                 /\ left'[v] = 0 \/ left'[v] + q <= Timeout[v]
          BY <3>2, <3>3, <4>1, <4>2, <4>4 DEF Spaced
        <5>4. pc[v] = "nap" => left'[v] = 0 \/ left'[v] + p <= Timeout[v] + nap'[v]
          <6>1. pc[v] = "nap" => left[v] = 0 \/ left[v] + p <= Timeout[v] + nap[v]
            BY <4>2, <4>4 DEF Spaced
          <6>2. p \in Nat
            BY <3>3
          <6> HIDE DEF p
          <6> QED BY <3>2, <4>1, <6>1, <6>2
        <5>5. tries[v] > 0 => q < Timeout[v]
          BY <4>2, <4>4 DEF Spaced
        <5> QED BY <3>1, <5>1, <5>2, <5>3, <5>4, <5>5 DEF Spaced
      <4> QED BY <4>3, <4>4
    <3> QED BY <3>4, <3>5 DEF Local
  <2> QED BY <2>2, <2>3, <2>4
<1>11. CASE WorldChanges \/ UNCHANGED vars
  <2>1. /\ world' \in {"found", "empty", "broken"}
        /\ UNCHANGED <<pc, guard, age, left, nap, records, status, tries>>
    BY <1>11 DEF WorldChanges, vars, clocks, outcome, TypeOK
  <2>2. TypeOK' /\ GuardIsReturned' /\ Role'
    BY <2>1 DEF TypeOK, GuardIsReturned, Role
  <2>3. ASSUME NEW v \in Waiters PROVE Local(v)'
    BY <2>1, LocalFrame
  <2> QED BY <2>2, <2>3
<1> QED BY <1>1, <1>2, <1>3, <1>4, <1>5, <1>6, <1>7, <1>8, <1>9, <1>10, <1>11
        DEF Next, WaitStep, CallStep

\* Every reachable state satisfies the strengthened invariant.
THEOREM Inductive == Spec => []IInv
BY InitIInv, NextIInv, PTL DEF Spec

\* Type correctness of any number of resolvers.
THEOREM TypeCorrect == Spec => []TypeOK
<1>1. IInv => TypeOK
  BY DEF IInv
<1> QED BY <1>1, Inductive, PTL

\* No thread ever waits for a mutex it holds, or keeps it when it leaves query().
THEOREM GuardCorrect == Spec => []GuardIsReturned
<1>1. IInv => GuardIsReturned
  BY DEF IInv
<1> QED BY <1>1, Inductive, PTL

\* wait() returns what its last query found.
THEOREM StatusCorrect == Spec => []StatusIsLast
<1>1. IInv => StatusIsLast
  BY DEF IInv, Local, Status, StatusIsLast
<1> QED BY <1>1, Inductive, PTL

\* For every timeout and interval, n queries of a wait take n - 1 intervals of the
\* timeout.
THEOREM TriesCorrect == Spec => []TriesAreSpaced
<1>1. IInv => TriesAreSpaced
  BY DEF IInv, Local, Spaced, TriesAreSpaced
<1> QED BY <1>1, Inductive, PTL
=============================================================================
