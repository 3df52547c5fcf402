--------------------------- MODULE IcmpTimerProofs ---------------------------
(***************************************************************************)
(* How long a check outlives its deadline, for any workers, intervals,     *)
(* delay of the pool and bounds.                                           *)
(***************************************************************************)
EXTENDS IcmpTimer, IcmpControllerProofs, FiniteSetTheorems

\* Since a deadline, until the first waiting job was next to run, or until the
\* timer is to fire, a check was started in each second.
Excused(h, until) == (h.timeout + 1)..(until - 1) \subseteq starts

TimedInv ==
    /\ alarm \in Int /\ since \in Int
    /\ timer => now <= alarm /\ alarm <= now + 1
    /\ jobs > 0 => since <= now /\ now <= since + Delay
    /\ \A h \in hosts : Excused(h, IF jobs > 0 THEN since ELSE alarm)

----------------------------------------------------------------------------
\* A timed step is a step of the controller.
LEMMA TimedIsUntimed == TimedNext => [Next]_vars
  BY DEF TimedNext, TimedStart, TimedOnTimer, TimedRunJob, TimedTick, Untimed,
         Next

\* So what is invariant of the controller is invariant in time.
LEMMA ControllerInvariance == TimedSpec => []IInv
<1>1. TimedInit => Init
  BY DEF TimedInit
<1>2. [TimedNext]_timedVars => [Next]_vars
  BY TimedIsUntimed DEF timedVars
<1> QED
  BY <1>1, <1>2, Invariance, PTL DEF TimedSpec, Spec

LEMMA Timeouts ==
    ASSUME IInv
    PROVE  \A h \in hosts : h.timeout \in Nat
  BY DEF IInv, TypeOK, Host

----------------------------------------------------------------------------
LEMMA TimedStartKeeps ==
    ASSUME IInv, TimedInv, NEW w \in Workers, TimedStart(w)
    PROVE  TimedInv'
<1>1. now \in Nat /\ jobs \in Nat /\ Interval[w] \in Nat
  BY IntervalAssumption DEF IInv, TypeOK
<1>0. PICK next \in FirstNext(w) : hosts' = hosts \cup {NewHost(w, next)}
  BY DEF TimedStart, Start
<1>2. /\ now' = now /\ jobs' = jobs
      /\ alarm' = now + 1 /\ since' = since /\ starts' = starts \cup {now}
  BY DEF TimedStart, Start, Arm
<1>3. ASSUME NEW h \in hosts
      PROVE  Excused(h, IF jobs > 0 THEN since ELSE alarm)'
  <2>1. h.timeout \in Nat
    BY Timeouts
  <2>2. CASE jobs > 0
    BY <1>1, <1>2, <2>1, <2>2 DEF TimedInv, Excused
  <2>3. CASE ~(jobs > 0)
    <3>1. now <= alarm
      BY DEF IInv, Serviced, TimedInv
    <3>2. (h.timeout + 1)..(alarm - 1) \subseteq starts
      BY <2>3 DEF TimedInv, Excused
    <3> QED
      BY <1>1, <1>2, <2>1, <2>3, <3>1, <3>2 DEF TimedInv, Excused
  <2> QED
    BY <2>2, <2>3
<1>4. ASSUME NEW h, h = NewHost(w, next)
      PROVE  Excused(h, IF jobs > 0 THEN since ELSE alarm)'
  <2>1. h.timeout = now + Interval[w]
    BY <1>4 DEF NewHost
  <2>2. (IF jobs > 0 THEN since ELSE alarm)' <= now + 1
    BY <1>1, <1>2 DEF TimedInv
  <2> QED
    BY <1>1, <1>2, <2>1, <2>2 DEF Excused, TimedInv
<1>5. \A h \in hosts' : Excused(h, IF jobs > 0 THEN since ELSE alarm)'
  <2> SUFFICES ASSUME NEW h \in hosts'
               PROVE  Excused(h, IF jobs > 0 THEN since ELSE alarm)'
    OBVIOUS
  <2>1. h \in hosts \/ h = NewHost(w, next)
    BY <1>0
  <2> QED
    BY <1>3, <1>4, <2>1
<1> QED
  BY <1>1, <1>2, <1>5 DEF TimedInv

LEMMA TimedOnTimerKeeps ==
    ASSUME IInv, TimedInv, TimedOnTimer
    PROVE  TimedInv'
<1>1. now \in Nat /\ jobs \in Nat
  BY DEF IInv, TypeOK
<1>2. /\ hosts' = hosts /\ now' = now /\ jobs' = jobs + 1 /\ starts' = starts
      /\ alarm' = now + 1 /\ since' = IF jobs = 0 THEN now ELSE since
  BY DEF TimedOnTimer, OnTimer, Arm
<1>3. now = alarm
  BY <1>1 DEF TimedOnTimer, OnTimer, TimedInv
<1>4. since' = IF jobs > 0 THEN since ELSE alarm
  BY <1>1, <1>2, <1>3
<1>5. \A h \in hosts' : Excused(h, IF jobs > 0 THEN since ELSE alarm)'
  BY <1>1, <1>2, <1>4 DEF TimedInv, Excused
<1>6. since' <= now' /\ now' <= since' + Delay
  BY <1>1, <1>2, DelayAssumption DEF TimedInv
<1> QED
  BY <1>1, <1>2, <1>5, <1>6 DEF TimedInv

LEMMA TimedRunJobKeeps ==
    ASSUME IInv, TimedInv, TimedRunJob
    PROVE  TimedInv'
<1>1. now \in Nat /\ jobs \in Nat
  BY DEF IInv, TypeOK
<1>2. now' = now /\ jobs' = jobs - 1 /\ alarm' = alarm /\ since' = now
  BY DEF TimedRunJob, JobEnds, RunJob
<1>4. PICK fate \in Outcomes(hosts) : Visit(hosts, fate, {})
  BY DEF TimedRunJob, JobEnds, RunJob
<1>5. \A h \in hosts' : h.timeout \in Nat /\ now <= h.timeout
  <2>1. \A h \in hosts \ Expired(hosts) : h.timeout \in Nat /\ now <= h.timeout
    BY <1>1, Timeouts DEF Expired
  <2>2. \A h \in Due(hosts) : Resent(h).timeout = h.timeout
    BY ResentType DEF Due, IInv
  <2>3. Due(hosts) \subseteq hosts \ Expired(hosts)
    BY <1>1, Timeouts DEF Due, Expired
  <2> QED
    BY <1>4, <2>1, <2>2, <2>3 DEF Visit
<1>6. hosts' # {} => timer
  <2>1. hosts' # {} => hosts # {}
    BY <1>4 DEF Visit, Due
  <2> QED
    BY <2>1 DEF IInv, Serviced
<1>7. \A h \in hosts' : Excused(h, IF jobs > 0 THEN since ELSE alarm)'
  BY <1>1, <1>2, <1>5, <1>6 DEF TimedInv, Excused
<1>8. timer' => timer
  BY DEF TimedRunJob, JobEnds, RunJob, CloseIfNoHosts, CloseListener
<1> QED
  BY <1>1, <1>2, <1>7, <1>8, DelayAssumption DEF TimedInv

LEMMA TimedTickKeeps ==
    ASSUME IInv, TimedInv, TimedTick
    PROVE  TimedInv'
<1>1. now \in Nat /\ jobs \in Nat
  BY DEF IInv, TypeOK
<1>2. /\ hosts' = hosts /\ now' = now + 1 /\ jobs' = jobs /\ starts' = starts
      /\ alarm' = alarm /\ since' = since /\ timer' = timer
  BY DEF TimedTick, Tick
<1>3. \A h \in hosts' : Excused(h, IF jobs > 0 THEN since ELSE alarm)'
  BY <1>2 DEF TimedInv, Excused
<1>4. timer' => now' <= alarm' /\ alarm' <= now' + 1
  BY <1>1, <1>2 DEF TimedTick, TimedInv
<1>5. jobs' > 0 => since' <= now' /\ now' <= since' + Delay
  BY <1>1, <1>2, DelayAssumption DEF TimedTick, TimedInv
<1> QED
  BY <1>2, <1>3, <1>4, <1>5 DEF TimedInv

LEMMA UntimedKeeps ==
    ASSUME IInv, TimedInv, Untimed
    PROVE  TimedInv'
<1>1. /\ hosts' \subseteq hosts /\ (timer' => timer)
      /\ now' = now /\ jobs' = jobs
  <2>1. ASSUME NEW w \in Workers, StartFails(w)
        PROVE  /\ hosts' \subseteq hosts /\ (timer' => timer)
               /\ now' = now /\ jobs' = jobs
    BY <2>1 DEF StartFails, CloseListener
  <2>2. ASSUME NEW w \in Workers, Stop(w)
        PROVE  /\ hosts' \subseteq hosts /\ (timer' => timer)
               /\ now' = now /\ jobs' = jobs
    BY <2>2 DEF Stop, CloseIfNoHosts, CloseListener
  <2>3. ASSUME NEW check \in wire, NEW type \in AnswerTypes,
               HandleEvent(check, type)
        PROVE  /\ hosts' \subseteq hosts /\ (timer' => timer)
               /\ now' = now /\ jobs' = jobs
    BY <2>3 DEF HandleEvent
  <2>4. ASSUME NEW check \in wire, Lose(check)
        PROVE  /\ hosts' \subseteq hosts /\ (timer' => timer)
               /\ now' = now /\ jobs' = jobs
    BY <2>4 DEF Lose
  <2> QED
    BY <2>1, <2>2, <2>3, <2>4 DEF Untimed
<1>2. alarm' = alarm /\ since' = since /\ starts' = starts
  BY DEF Untimed
<1> QED
  BY <1>1, <1>2 DEF TimedInv, Excused

----------------------------------------------------------------------------
LEMMA TimedInvariance == TimedSpec => []TimedInv
<1>1. TimedInit => TimedInv
  BY DEF TimedInit, Init, TimedInv
<1>2. IInv /\ TimedInv /\ [TimedNext]_timedVars => TimedInv'
  <2> SUFFICES ASSUME IInv, TimedInv, [TimedNext]_timedVars PROVE TimedInv'
    OBVIOUS
  <2>1. CASE UNCHANGED timedVars
    BY <2>1 DEF timedVars, vars, TimedInv, Excused
  <2>2. CASE TimedNext
    BY <2>2, TimedStartKeeps, TimedOnTimerKeeps, TimedRunJobKeeps,
       TimedTickKeeps, UntimedKeeps DEF TimedNext
  <2> QED
    BY <2>1, <2>2
<1> QED
  BY <1>1, <1>2, ControllerInvariance, PTL DEF TimedSpec

\* A check ends within a second of its deadline, plus the delay of the pool, or
\* else the program has started another check in each second since.
THEOREM EndsInTime == TimedSpec => []ChecksEndInTime
<1>1. IInv /\ TimedInv => ChecksEndInTime
  <2> SUFFICES ASSUME IInv, TimedInv, NEW h \in hosts
               PROVE  (h.timeout + 1)..(now - 1 - Delay) \subseteq starts
    BY DEF ChecksEndInTime
  <2>1. now \in Nat /\ jobs \in Nat /\ h.timeout \in Nat /\ timer
    BY Timeouts DEF IInv, TypeOK, Serviced
  <2>2. CASE jobs > 0
    BY <2>1, <2>2, DelayAssumption DEF TimedInv, Excused
  <2>3. CASE ~(jobs > 0)
    BY <2>1, <2>3, DelayAssumption DEF TimedInv, Excused
  <2> QED
    BY <2>2, <2>3
<1> QED
  BY <1>1, ControllerInvariance, TimedInvariance, PTL

----------------------------------------------------------------------------
\* The seconds after the deadline of a check in which another was started.
After(h) == {s \in starts : s > h.timeout}

\* They are no more than the checks that were started after it.
Counted ==
    /\ starts \subseteq 0..now
    /\ \A h \in hosts : Cardinality(After(h)) <= started - h.check

LEMMA StartsAreFinite ==
    ASSUME IInv, Counted, NEW h \in hosts
    PROVE  IsFiniteSet(After(h)) /\ Cardinality(After(h)) \in Nat
<1>1. IsFiniteSet(0..now)
  BY FS_Interval DEF IInv, TypeOK
<1>2. After(h) \in SUBSET (0..now)
  BY DEF After, Counted
<1> QED
  BY <1>1, <1>2, FS_Subset, FS_CardinalityType

\* A step that starts no check leaves in the list what was there, whatever
\* requests it sends again.
LEMMA OthersKeepHosts ==
    ASSUME IInv, TimedOnTimer \/ TimedRunJob \/ TimedTick \/ Untimed
    PROVE  /\ \A h \in hosts' : \E g \in hosts :
                 h.timeout = g.timeout /\ h.check = g.check
           /\ started' = started /\ starts' = starts
           /\ now' \in Nat /\ now' >= now
<1>1. now \in Nat /\ TypeOK
  BY DEF IInv, TypeOK
<1>2. CASE TimedOnTimer
  BY <1>1, <1>2 DEF TimedOnTimer, OnTimer
<1>3. CASE TimedRunJob
  <2>2. PICK fate \in Outcomes(hosts) : Visit(hosts, fate, {})
    BY <1>3 DEF TimedRunJob, JobEnds, RunJob
  <2>3. \A h \in hosts' : \E g \in hosts :
           h = IF g \in Due(hosts) THEN Resent(g) ELSE g
    BY <2>2, VisitHosts
  <2>4. \A g \in hosts : Resent(g).timeout = g.timeout
                         /\ Resent(g).check = g.check
    BY <1>1, ResentType
  <2> QED
    BY <1>1, <1>3, <2>3, <2>4 DEF TimedRunJob, JobEnds, RunJob
<1>4. CASE TimedTick
  BY <1>1, <1>4 DEF TimedTick, Tick
<1>5. CASE Untimed
  <2>1. hosts' \subseteq hosts /\ started' = started /\ now' = now
    <3>1. ASSUME NEW w \in Workers, StartFails(w) \/ Stop(w)
          PROVE  hosts' \subseteq hosts /\ started' = started /\ now' = now
      BY <3>1 DEF StartFails, Stop
    <3>2. ASSUME NEW check \in wire, NEW type \in AnswerTypes,
                 HandleEvent(check, type)
          PROVE  hosts' \subseteq hosts /\ started' = started /\ now' = now
      BY <3>2 DEF HandleEvent
    <3>3. ASSUME NEW check \in wire, Lose(check)
          PROVE  hosts' \subseteq hosts /\ started' = started /\ now' = now
      BY <3>3 DEF Lose
    <3> QED
      BY <1>5, <3>1, <3>2, <3>3 DEF Untimed
  <2> QED
    BY <1>1, <1>5, <2>1 DEF Untimed
<1> QED
  BY <1>2, <1>3, <1>4, <1>5

LEMMA OthersCount ==
    ASSUME IInv, Counted, TimedOnTimer \/ TimedRunJob \/ TimedTick \/ Untimed
    PROVE  Counted'
<1>1. /\ \A h \in hosts' : \E g \in hosts :
            h.timeout = g.timeout /\ h.check = g.check
      /\ started' = started /\ starts' = starts
      /\ now' \in Nat /\ now' >= now /\ now \in Nat
  BY OthersKeepHosts DEF IInv, TypeOK
<1>2. starts' \subseteq 0..now'
  BY <1>1 DEF Counted
<1>3. ASSUME NEW h \in hosts'
      PROVE  Cardinality(After(h)') <= started' - h.check
  <2>1. PICK g \in hosts : h.timeout = g.timeout /\ h.check = g.check
    BY <1>1
  <2>2. After(h)' = After(g)
    BY <1>1, <2>1 DEF After
  <2> QED
    BY <1>1, <2>1, <2>2 DEF Counted
<1> QED
  BY <1>2, <1>3 DEF Counted

LEMMA StartCounts ==
    ASSUME IInv, Counted, NEW w \in Workers, TimedStart(w)
    PROVE  Counted'
<1>1. now \in Nat /\ started \in Nat /\ Interval[w] \in Nat
  BY IntervalAssumption DEF IInv, TypeOK
<1>0. PICK next \in FirstNext(w) : hosts' = hosts \cup {NewHost(w, next)}
  BY DEF TimedStart, Start
<1>2. /\ now' = now
      /\ started' = started + 1 /\ starts' = starts \cup {now}
  BY DEF TimedStart, Start
<1>3. starts' \subseteq 0..now'
  BY <1>1, <1>2 DEF Counted
<1>4. ASSUME NEW h \in hosts
      PROVE  Cardinality(After(h)') <= started' - h.check
  <2>1. h.check \in Nat /\ h.timeout \in Nat
    BY DEF IInv, TypeOK, Host
  <2>2. IsFiniteSet(After(h)) /\ Cardinality(After(h)) \in Nat
    BY StartsAreFinite
  <2>3. After(h)' = After(h) \/ After(h)' = After(h) \cup {now}
    BY <1>2 DEF After
  <2>6. Cardinality(After(h) \cup {now}) =
          IF now \in After(h) THEN Cardinality(After(h))
          ELSE Cardinality(After(h)) + 1
    BY <2>2, FS_AddElement
  <2>4. Cardinality(After(h)') <= Cardinality(After(h)) + 1
    BY <2>2, <2>3, <2>6
  <2>5. Cardinality(After(h)') \in Nat
    BY <2>2, <2>3, <2>6
  <2> QED
    BY <1>1, <1>2, <2>1, <2>2, <2>4, <2>5 DEF Counted
<1>5. ASSUME NEW h, h = NewHost(w, next)
      PROVE  Cardinality(After(h)') <= started' - h.check
  <2>1. h.check = started + 1 /\ h.timeout = now + Interval[w]
    BY <1>5 DEF NewHost
  <2>2. \A s \in starts' : s \in Nat /\ s <= now
    BY <1>1, <1>2, <1>3
  <2>3. \A s \in starts' : ~(s > h.timeout)
    BY <1>1, <2>1, <2>2
  <2>4. After(h)' = {}
    BY <2>3 DEF After
  <2> QED
    BY <1>1, <1>2, <2>1, <2>4, FS_EmptySet
<1> QED
  BY <1>0, <1>3, <1>4, <1>5 DEF Counted

LEMMA CountInvariance == TimedSpec => []Counted
<1>1. TimedInit => Counted
  BY DEF TimedInit, Init, Counted
<1>2. IInv /\ Counted /\ [TimedNext]_timedVars => Counted'
  <2>1. Counted /\ UNCHANGED timedVars => Counted'
    BY DEF timedVars, vars, Counted, After
  <2> QED
    BY <2>1, OthersCount, StartCounts DEF TimedNext
<1> QED
  BY <1>1, <1>2, ControllerInvariance, PTL DEF TimedSpec

\* A check is late by a second, by the delay of the pool, and by one second more
\* for each check that was started after it, at most.
THEOREM LateByStartsOnly == TimedSpec => []LateByStarts
<1>1. IInv /\ Counted /\ ChecksEndInTime => LateByStarts
  <2> SUFFICES ASSUME IInv, Counted, ChecksEndInTime, NEW h \in hosts
               PROVE  now <= h.timeout + 1 + Delay + (started - h.check)
    BY DEF LateByStarts
  <2> DEFINE late == (h.timeout + 1)..(now - 1 - Delay)
  <2>1. /\ now \in Nat /\ started \in Nat
        /\ h.timeout \in Nat /\ h.check \in Nat /\ h.check <= started
    BY DEF IInv, TypeOK, Host, Numbered
  <2>2. late \in SUBSET After(h)
    BY <2>1 DEF ChecksEndInTime, After
  <2>3. IsFiniteSet(After(h)) /\ Cardinality(After(h)) \in Nat
    BY StartsAreFinite
  <2>4. Cardinality(late) <= Cardinality(After(h))
    BY <2>2, <2>3, FS_Subset
  <2>5. h.timeout + 1 \in Int /\ now - 1 - Delay \in Int
    BY <2>1, DelayAssumption
  <2>6. Cardinality(late) =
          IF h.timeout + 1 > now - 1 - Delay THEN 0
          ELSE (now - 1 - Delay) - (h.timeout + 1) + 1
    BY <2>5, FS_Interval
  <2>7. Cardinality(After(h)) <= started - h.check
    BY DEF Counted
  <2>8. CASE h.timeout + 1 > now - 1 - Delay
    BY <2>1, <2>8, DelayAssumption
  <2>9. CASE ~(h.timeout + 1 > now - 1 - Delay)
    <3>1. Cardinality(late) = (now - 1 - Delay) - (h.timeout + 1) + 1
      BY <2>6, <2>9
    <3> HIDE DEF late
    <3> QED
      BY <2>1, <2>3, <2>4, <2>7, <3>1, DelayAssumption
  <2> QED
    BY <2>8, <2>9
<1> QED
  BY <1>1, ControllerInvariance, CountInvariance, EndsInTime, PTL
=============================================================================
