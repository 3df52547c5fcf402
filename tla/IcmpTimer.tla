------------------------------ MODULE IcmpTimer ------------------------------
(***************************************************************************)
(* IcmpController in time: when the timer of the listener fires, and when  *)
(* its job runs.  Controller::start() re-arms the one-second timer at      *)
(* every insert, so checks that are started in quick succession keep it    *)
(* from firing, and the checks before them from timing out.                *)
(***************************************************************************)
EXTENDS IcmpController

CONSTANT Delay   \* seconds a job waits for a thread of the pool, at most

ASSUME DelayAssumption == Delay \in Nat

VARIABLES
    alarm,   \* when the timer fires next, if it is enabled
    since,   \* since when the first of the waiting jobs is next to run
    starts   \* the seconds in which a check was started: history

timedVars == <<vars, alarm, since, starts>>

\* Mutant: Timer::reset is given two seconds.
Arm_TwoSeconds == alarm' = now + 2

\* MainLoop::Timer, after reset(1000) and after it has fired.
Arm == alarm' = now + 1

TimedInit == Init /\ alarm = 0 /\ since = 0 /\ starts = {}

\* insert() arms the timer, also one that is running.
TimedStart(w) ==
    /\ Start(w)
    /\ Arm
    /\ starts' = starts \cup {now}
    /\ UNCHANGED since

TimedOnTimer ==
    /\ now >= alarm
    /\ OnTimer
    /\ Arm
    /\ since' = IF jobs = 0 THEN now ELSE since
    /\ UNCHANGED starts

\* No callback ends a job here: JobThrows has no part.
TimedRunJob ==
    /\ JobEnds
    /\ since' = now
    /\ UNCHANGED <<alarm, starts>>

\* The main loop fires a timer, and the pool runs a job, in their time.
TimedTick ==
    /\ timer => now < alarm
    /\ jobs > 0 => now < since + Delay
    /\ Tick
    /\ UNCHANGED <<alarm, since, starts>>

Untimed ==
    /\ \/ \E w \in Workers : StartFails(w) \/ Stop(w)
       \/ \E check \in wire, type \in AnswerTypes : HandleEvent(check, type)
       \/ \E check \in wire : Lose(check)
    /\ UNCHANGED <<alarm, since, starts>>

TimedNext ==
    \/ \E w \in Workers : TimedStart(w)
    \/ TimedOnTimer \/ TimedRunJob \/ TimedTick \/ Untimed

TimedSpec == TimedInit /\ [][TimedNext]_timedVars

----------------------------------------------------------------------------
\* A check outlives its deadline by a second, and the delay of the pool, unless
\* in each second since then another check was started.
ChecksEndInTime ==
    \A h \in hosts : (h.timeout + 1)..(now - 1 - Delay) \subseteq starts

\* So what keeps a check listed runs out with the checks that follow it: a check
\* is late by no more seconds, beyond those, than checks were started after it.
LateByStarts ==
    \A h \in hosts : now <= h.timeout + 1 + Delay + (started - h.check)
=============================================================================
