------------------------ MODULE IcmpControllerProofs ------------------------
(***************************************************************************)
(* Theorems about IcmpController, for any workers, intervals, id space and *)
(* bounds.                                                                 *)
(***************************************************************************)
EXTENDS IcmpController, TLAPS

\* A host of the list keeps its type when it is sent again.
LEMMA ResentType ==
    ASSUME TypeOK, NEW h \in hosts
    PROVE  /\ Resent(h) \in Host
           /\ Resent(h).worker = h.worker
           /\ Resent(h).check = h.check
           /\ Resent(h).timeout = h.timeout
           /\ Resent(h).next = now + Interval[h.worker]
           /\ Resent(h).packets = h.packets + 1
<1>1. h \in Host /\ now \in Nat
  BY DEF TypeOK
<1>2. Interval[h.worker] \in Nat
  BY <1>1, IntervalAssumption DEF Host
<1>3. h.packets + 1 \in Nat /\ now + Interval[h.worker] \in Nat
  BY <1>1, <1>2 DEF Host
<1>4. Resent(h) \in Host
  BY <1>1, <1>3 DEF Resent, Host
<1>5. ASSUME NEW r, r = Resent(h)
      PROVE  /\ r.worker = h.worker /\ r.check = h.check
             /\ r.timeout = h.timeout
             /\ r.next = now + Interval[h.worker]
             /\ r.packets = h.packets + 1
  BY <1>1, <1>3, <1>5 DEF Resent, Host
<1> QED
  BY <1>4, <1>5

\* The hosts with an outcome are due.
LEMMA OutcomesAreDue ==
    ASSUME NEW seen \in SUBSET hosts, NEW fate \in Outcomes(seen), NEW outcome
    PROVE  /\ With(fate, outcome) \subseteq Due(seen)
           /\ \A h \in With(fate, outcome) : fate[h] = outcome
  BY DEF Outcomes, With

\* The hosts that a visit erases.
Gone(seen, fate) == Expired(seen) \cup With(fate, "unreachable")

LEMMA HostsBeforeOne ==
    ASSUME TypeOK, NEW h \in hosts
    PROVE  Before(h) \in SUBSET hosts /\ {h} \in SUBSET (hosts \ Before(h))
  BY DEF Before, TypeOK, Host

\* The common part of RunJob and AbortJob keeps the types.
LEMMA VisitType ==
    ASSUME TypeOK,
           NEW seen \in SUBSET hosts,
           NEW fate \in Outcomes(seen),
           NEW aborted \in SUBSET (hosts \ seen),
           Visit(seen, fate, aborted)
    PROVE  /\ hosts' \subseteq Host
           /\ busy' \in [Workers -> BOOLEAN]
           /\ wire' \subseteq Nat
           /\ reports' \subseteq Report
<1>1. Due(seen) \subseteq hosts /\ Expired(seen) \subseteq hosts
  BY DEF Due, Expired
<1>2. hosts' \subseteq Host
  BY <1>1, ResentType DEF Visit, TypeOK
<1>3. busy' \in [Workers -> BOOLEAN]
  BY DEF Visit, Release, TypeOK
<1>4. wire' \subseteq Nat
  <2>1. \A h \in With(fate, "sent") : h.check \in Nat
    BY <1>1, OutcomesAreDue DEF TypeOK, Host
  <2> QED
    BY <2>1 DEF Visit, TypeOK
<1>5. reports' \subseteq Report
  <2>1. ASSUME NEW h \in hosts,
               NEW r \in {"timeout", "network_unreachable"}
        PROVE  ReportOf(h, r, h.check) \in Report /\ KeptBy(h, r) \in Report
    BY DEF TypeOK, Host, Report, Response, ReportOf, KeptBy
  <2>2. With(fate, "unreachable") \cup With(fate, "thrown") \subseteq hosts
    BY <1>1, OutcomesAreDue
  <2> QED
    BY <1>1, <2>1, <2>2 DEF Visit, TypeOK
<1> QED
  BY <1>2, <1>3, <1>4, <1>5

\* Type correctness of the controller.
THEOREM TypeCorrect == Spec => []TypeOK
<1>1. Init => TypeOK
  <2> SUFFICES ASSUME Init PROVE TypeOK
    OBVIOUS
  <2>1. busy \in [Workers -> BOOLEAN]
    BY DEF Init
  <2> QED
    BY <2>1 DEF Init, TypeOK
<1>2. TypeOK /\ [Next]_vars => TypeOK'
  <2> SUFFICES ASSUME TypeOK, [Next]_vars PROVE TypeOK'
    OBVIOUS
  <2>1. ASSUME NEW w \in Workers, Start(w) PROVE TypeOK'
    <3>1. Interval[w] \in Nat
      BY IntervalAssumption
    <3>2. PICK next \in FirstNext(w) : hosts' = hosts \cup {NewHost(w, next)}
      BY <2>1 DEF Start
    <3>6. NewHost(w, next) \in Host
      BY <3>1 DEF NewHost, FirstNext, Host, TypeOK
    <3>3. busy' \in [Workers -> BOOLEAN]
      BY <2>1 DEF Start, TypeOK
    <3>4. started + 1 \in Nat
      BY DEF TypeOK
    <3>5. wire' \subseteq Nat
      BY <2>1, <3>4 DEF Start, TypeOK
    <3> QED
      BY <2>1, <3>2, <3>3, <3>4, <3>5, <3>6 DEF Start, OpenListener, TypeOK
  <2>2. ASSUME NEW w \in Workers, StartFails(w) PROVE TypeOK'
    BY <2>2 DEF StartFails, CloseListener, TypeOK
  <2>3. ASSUME NEW w \in Workers, Stop(w) PROVE TypeOK'
    <3>1. busy' \in [Workers -> BOOLEAN]
      BY <2>3 DEF Stop, Release, TypeOK
    <3>2. hosts' \subseteq Host
      BY <2>3 DEF Stop, TypeOK
    <3> QED
      BY <2>3, <3>1, <3>2 DEF Stop, CloseIfNoHosts, CloseListener, TypeOK
  <2>4. ASSUME NEW check \in wire, NEW type \in AnswerTypes,
               HandleEvent(check, type)
        PROVE  TypeOK'
    <3> DEFINE gone == Answered(check, type)
    <3>1. gone \subseteq hosts
      BY DEF Answered, Matching
    <3>2. ResponseTo(type) \subseteq Response
      BY DEF ResponseTo, Response, AnswerTypes
    <3>3. ASSUME NEW h \in gone, NEW r \in ResponseTo(type)
          PROVE  ReportOf(h, r, check) \in Report
      BY <3>1, <3>2 DEF ReportOf, Report, TypeOK, Host
    <3>4. busy' \in [Workers -> BOOLEAN]
      BY <2>4 DEF HandleEvent, Release, TypeOK
    <3>5. reports' \subseteq Report
      BY <2>4, <3>3 DEF HandleEvent, TypeOK
    <3>6. hosts' \subseteq Host /\ wire' \subseteq Nat
      BY <2>4 DEF HandleEvent, TypeOK
    <3> QED
      BY <2>4, <3>4, <3>5, <3>6 DEF HandleEvent, TypeOK
  <2>5. CASE OnTimer
    BY <2>5 DEF OnTimer, TypeOK
  <2>6. ASSUME NEW fate \in Outcomes(hosts), RunJob(fate) PROVE TypeOK'
    <3>3. /\ hosts' \subseteq Host
          /\ busy' \in [Workers -> BOOLEAN]
          /\ wire' \subseteq Nat
          /\ reports' \subseteq Report
      BY <2>6, VisitType DEF RunJob
    <3>4. jobs' \in Nat
      BY <2>6 DEF RunJob, TypeOK
    <3> QED
      BY <2>6, <3>3, <3>4 DEF RunJob, CloseIfNoHosts, CloseListener, TypeOK
  <2>7. ASSUME NEW h \in hosts, NEW fate \in Outcomes(Before(h)),
               AbortJob(h, fate)
        PROVE  TypeOK'
    <3>3. /\ hosts' \subseteq Host
          /\ busy' \in [Workers -> BOOLEAN]
          /\ wire' \subseteq Nat
          /\ reports' \subseteq Report
      BY <2>7, HostsBeforeOne, VisitType DEF AbortJob
    <3>4. jobs' \in Nat
      BY <2>7 DEF AbortJob, TypeOK
    <3> QED
      BY <2>7, <3>3, <3>4 DEF AbortJob, TypeOK
  <2>8. CASE Tick
    BY <2>8 DEF Tick, TypeOK
  <2>9. ASSUME NEW check \in wire, Lose(check) PROVE TypeOK'
    BY <2>9 DEF Lose, TypeOK
  <2>10. CASE UNCHANGED vars
    BY <2>10 DEF vars, TypeOK
  <2> QED
    BY <2>1, <2>2, <2>3, <2>4, <2>5, <2>6, <2>7, <2>8, <2>9, <2>10
       DEF Next, JobEnds, JobThrows
<1> QED
  BY <1>1, <1>2, PTL DEF Spec

----------------------------------------------------------------------------
(***************************************************************************)
(* The inductive invariant.                                                *)
(***************************************************************************)

\* Check numbers are handed out once and name one host of the list.
Numbered ==
    /\ \A h \in hosts : h.check <= started
    /\ \A c \in wire : c <= started
    /\ \A r \in reports : r.check <= started
    /\ \A g, h \in hosts : g.check = h.check => g = h

\* A packet that has the id of a listed host is about the check of that host.
IdsApart ==
    \A h \in hosts, c \in wire \cup {g.check : g \in hosts} :
        Id(c) = Id(h.check) => c = h.check

\* No request is planned before the deadline, and after a second one not at the
\* deadline either.
Scheduled ==
    \A h \in hosts :
        /\ h.next >= h.timeout
        /\ Interval[h.worker] > 0 =>
              h.packets = 1 \/ (h.packets = 2 /\ h.next > h.timeout)

IInv ==
    /\ TypeOK
    /\ Numbered
    /\ IdsApart
    /\ BusyIffListed
    /\ AnswerIsOwn
    /\ OneReportPerCheck
    /\ Serviced
    /\ Scheduled

(***************************************************************************)
(* What Stop, HandleEvent, RunJob and AbortJob have in common: the hosts   *)
(* of `gone' leave the list, the others keep their worker and check, and   *)
(* what is reported is about `gone', once each, or was thrown at.          *)
(***************************************************************************)
Ends(gone) ==
    /\ Release(gone)
    /\ \A h \in hosts' : \E g \in hosts \ gone :
          h.worker = g.worker /\ h.check = g.check
    /\ \A g \in hosts \ gone : \E h \in hosts' :
          h.worker = g.worker /\ h.check = g.check
    /\ \A g, h \in hosts' : g.check = h.check => g = h
    /\ \A c \in wire' : c \in wire \/ \E h \in hosts : c = h.check
    /\ started' = started
    /\ reports \subseteq reports'
    /\ \A r \in reports' \ reports :
          /\ r.cause = r.check
          /\ \E h \in hosts : /\ r.worker = h.worker /\ r.check = h.check
                              /\ r.kept <=> h \notin gone
    /\ \A r, s \in reports' \ reports :
          r.check = s.check /\ ~r.kept /\ ~s.kept => r = s

\* Ending some checks keeps what the invariant says of numbers, ids, busy flags
\* and reports.
LEMMA EndsKeeps ==
    ASSUME IInv, NEW gone \in SUBSET hosts, Ends(gone)
    PROVE  Numbered' /\ IdsApart' /\ BusyIffListed' /\ AnswerIsOwn'
           /\ OneReportPerCheck'
<1>1. Numbered'
  <2>1. \A h \in hosts' : h.check <= started'
    BY DEF Ends, IInv, Numbered
  <2>2. \A c \in wire' : c <= started'
    BY DEF Ends, IInv, Numbered
  <2>3. \A r \in reports' : r.check <= started'
    BY DEF Ends, IInv, Numbered
  <2> QED
    BY <2>1, <2>2, <2>3 DEF Ends, Numbered
<1>2. IdsApart'
  <2> SUFFICES ASSUME NEW h \in hosts',
                      NEW c \in wire' \cup {g.check : g \in hosts'},
                      Id(c) = Id(h.check)
               PROVE  c = h.check
    BY DEF IdsApart, Id
  <2>1. PICK g \in hosts : g.check = h.check
    BY DEF Ends
  <2>2. c \in wire \cup {k.check : k \in hosts}
    BY DEF Ends
  <2> QED
    BY <2>1, <2>2 DEF IInv, IdsApart
<1>3. BusyIffListed'
  <2> SUFFICES ASSUME NEW w \in Workers
               PROVE  /\ busy'[w] <=> \E h \in hosts' : h.worker = w
                      /\ \A g, h \in hosts' :
                            g.worker = w /\ h.worker = w => g = h
    BY DEF BusyIffListed
  <2>1. busy'[w] <=> busy[w] /\ \A h \in gone : h.worker # w
    BY DEF Ends, Release
  <2>2. busy[w] <=> \E h \in hosts : h.worker = w
    BY DEF IInv, BusyIffListed
  <2>3. \A g, h \in hosts : g.worker = w /\ h.worker = w => g = h
    BY DEF IInv, BusyIffListed
  <2>4. (\E h \in hosts' : h.worker = w)
          <=> (\E g \in hosts \ gone : g.worker = w)
    BY DEF Ends
  <2>5. ASSUME NEW g \in hosts', NEW h \in hosts', g.worker = w, h.worker = w
        PROVE  g = h
    <3>1. PICK g0 \in hosts : g0.worker = w /\ g0.check = g.check
      BY <2>5 DEF Ends
    <3>2. PICK h0 \in hosts : h0.worker = w /\ h0.check = h.check
      BY <2>5 DEF Ends
    <3>3. g.check = h.check
      BY <3>1, <3>2, <2>3
    <3> QED
      BY <3>3 DEF Ends
  <2> QED
    BY <2>1, <2>2, <2>3, <2>4, <2>5
<1>4. AnswerIsOwn'
  BY DEF Ends, IInv, AnswerIsOwn
<1>5. OneReportPerCheck'
  <2>1. \A r \in reports, s \in reports' \ reports :
           ~r.kept /\ ~s.kept => r.check # s.check
    BY DEF Ends, IInv, OneReportPerCheck
  <2>2. \A r, s \in reports' : r.check = s.check /\ ~r.kept /\ ~s.kept => r = s
    BY <2>1 DEF Ends, IInv, OneReportPerCheck
  <2>3. ASSUME NEW r \in reports', NEW h \in hosts', r.check = h.check
        PROVE  r.kept
    <3>1. PICK g \in hosts \ gone : g.check = h.check
      BY DEF Ends
    <3>2. CASE r \in reports
      BY <2>3, <3>1, <3>2 DEF IInv, OneReportPerCheck
    <3>3. CASE r \notin reports
      <4>1. PICK k \in hosts : r.check = k.check /\ (r.kept <=> k \notin gone)
        BY <3>3 DEF Ends
      <4>2. k = g
        BY <2>3, <3>1, <4>1 DEF IInv, Numbered
      <4> QED
        BY <3>1, <4>1, <4>2
    <3> QED
      BY <3>2, <3>3
  <2> QED
    BY <2>2, <2>3 DEF OneReportPerCheck
<1> QED
  BY <1>1, <1>2, <1>3, <1>4, <1>5

----------------------------------------------------------------------------
\* Worker::stop ends the checks of that worker, in silence.
LEMMA StopEnds ==
    ASSUME IInv, NEW w \in Workers, Stop(w)
    PROVE  Ends({h \in hosts : h.worker = w})
<1> DEFINE gone == {h \in hosts : h.worker = w}
<1>1. hosts' = hosts \ gone /\ Release(gone)
  BY DEF Stop
<1>2. wire' = wire /\ started' = started /\ reports' = reports
  BY DEF Stop
<1>3. \A g, h \in hosts : g.check = h.check => g = h
  BY DEF IInv, Numbered
<1> QED
  BY <1>1, <1>2, <1>3 DEF Ends

\* A packet ends the check it is about, or none.
LEMMA HandleEventEnds ==
    ASSUME IInv, NEW check \in wire, NEW type \in AnswerTypes,
           HandleEvent(check, type)
    PROVE  Ends(Answered(check, type))
<1> DEFINE gone == Answered(check, type)
<1>1. gone \subseteq hosts
  BY DEF Answered, Matching
<1>2. \A h \in gone : h.check = check
  BY DEF Answered, Matching, IInv, IdsApart
<1>3. \A r, s \in ResponseTo(type) : r = s
  BY DEF ResponseTo, AnswerTypes
<1>4. hosts' = hosts \ gone /\ Release(gone) /\ started' = started
      /\ wire' \subseteq wire
  BY DEF HandleEvent
<1>5. reports' = reports \cup {ReportOf(h, r, check) :
                                 h \in gone, r \in ResponseTo(type)}
  BY DEF HandleEvent
<1>6. \A g, h \in hosts : g.check = h.check => g = h
  BY DEF IInv, Numbered
<1>7. ASSUME NEW r \in reports' \ reports
      PROVE  \E h \in gone, a \in ResponseTo(type) :
                r = ReportOf(h, a, check)
  BY <1>5
<1>8. ASSUME NEW r \in reports' \ reports
      PROVE  /\ r.cause = r.check
             /\ \E h \in gone : r.worker = h.worker /\ r.check = h.check
             /\ ~r.kept
  BY <1>7, <1>2 DEF ReportOf
<1>9. ASSUME NEW r \in reports' \ reports, NEW s \in reports' \ reports
      PROVE  r = s
  <2>1. PICK h \in gone, a \in ResponseTo(type) : r = ReportOf(h, a, check)
    BY <1>7
  <2>2. PICK k \in gone, b \in ResponseTo(type) : s = ReportOf(k, b, check)
    BY <1>7
  <2>3. h = k /\ a = b
    BY <1>1, <1>2, <1>3, <1>6
  <2> QED
    BY <2>1, <2>2, <2>3
<1> QED
  BY <1>1, <1>4, <1>5, <1>6, <1>8, <1>9 DEF Ends

\* The hosts of a list that a timer job has visited.
LEMMA VisitHosts ==
    ASSUME IInv,
           NEW seen \in SUBSET hosts,
           NEW fate \in Outcomes(seen),
           NEW aborted \in SUBSET (hosts \ seen),
           Visit(seen, fate, aborted),
           NEW h \in hosts'
    PROVE  \E g \in hosts \ Gone(seen, fate) :
              h = IF g \in Due(seen) THEN Resent(g) ELSE g
<1>1. Due(seen) \subseteq hosts
  BY DEF Due
<1>2. Due(seen) \cap Expired(seen) = {}
  BY DEF Due, Expired, IInv, TypeOK, Host
<1>3. CASE h \in hosts \ (Due(seen) \cup Gone(seen, fate))
  BY <1>3
<1>4. CASE \E g \in Due(seen) \ Gone(seen, fate) : h = Resent(g)
  BY <1>4, <1>1
<1> QED
  BY <1>3, <1>4 DEF Visit, Gone

\* A visit of the timer job ends the checks that expired and those whose
\* request found no network, each with its report; a worker that throws at one
\* keeps its check.
LEMMA VisitEnds ==
    ASSUME IInv,
           NEW seen \in SUBSET hosts,
           NEW fate \in Outcomes(seen),
           NEW aborted \in SUBSET (hosts \ seen),
           Visit(seen, fate, aborted),
           started' = started
    PROVE  Ends(Gone(seen, fate)) /\ Gone(seen, fate) \subseteq hosts
<1> DEFINE gone == Gone(seen, fate)
<1>1. /\ Due(seen) \subseteq seen /\ Expired(seen) \subseteq seen
      /\ gone \subseteq seen /\ Release(gone)
  BY OutcomesAreDue DEF Due, Expired, Visit, Gone
<1>2. Due(seen) \cap Expired(seen) = {}
  BY DEF Due, Expired, IInv, TypeOK, Host
<1>3. \A g, h \in hosts : g.check = h.check => g = h
  BY DEF IInv, Numbered
<1>4. \A g \in hosts : Resent(g).worker = g.worker /\ Resent(g).check = g.check
  BY ResentType DEF IInv
<1>5. \A h \in hosts' : \E g \in hosts \ gone :
          h.worker = g.worker /\ h.check = g.check
  BY VisitHosts, <1>4
<1>6. ASSUME NEW g \in hosts \ gone
      PROVE  \E h \in hosts' : h.worker = g.worker /\ h.check = g.check
  <2>1. CASE g \in Due(seen)
    BY <2>1, <1>4 DEF Visit, Gone
  <2>2. CASE g \notin Due(seen)
    BY <2>2 DEF Visit, Gone
  <2> QED
    BY <2>1, <2>2
<1>7. ASSUME NEW g \in hosts', NEW h \in hosts', g.check = h.check
      PROVE  g = h
  <2>1. PICK g0 \in hosts \ gone : g = IF g0 \in Due(seen) THEN Resent(g0) ELSE g0
    BY VisitHosts
  <2>2. PICK h0 \in hosts \ gone : h = IF h0 \in Due(seen) THEN Resent(h0) ELSE h0
    BY VisitHosts
  <2>3. g0.check = h0.check
    BY <2>1, <2>2, <1>4, <1>7
  <2> QED
    BY <2>1, <2>2, <2>3, <1>3
<1>8. \A c \in wire' : c \in wire \/ \E h \in hosts : c = h.check
  BY <1>1, OutcomesAreDue DEF Visit
<1>9. reports \subseteq reports'
  BY DEF Visit
<1>10. ASSUME NEW r \in reports' \ reports
       PROVE  \/ \E h \in Expired(seen) : r = ReportOf(h, "timeout", h.check)
              \/ \E h \in aborted : r = KeptBy(h, "timeout")
              \/ \E h \in With(fate, "unreachable") :
                    r = ReportOf(h, "network_unreachable", h.check)
              \/ \E h \in With(fate, "thrown") : r = KeptBy(h, "network_unreachable")
  BY DEF Visit
<1>13. \A h \in With(fate, "thrown") : h \in hosts \ gone
  <2>1. \A h \in With(fate, "thrown") : h \notin With(fate, "unreachable")
    BY OutcomesAreDue
  <2> QED
    BY <1>1, <1>2, <2>1, OutcomesAreDue DEF Gone
<1>11. ASSUME NEW r \in reports' \ reports
       PROVE  /\ r.cause = r.check
              /\ \E h \in hosts : /\ r.worker = h.worker /\ r.check = h.check
                                  /\ r.kept <=> h \notin gone
  <2>1. ASSUME NEW h \in gone, NEW a, r = ReportOf(h, a, h.check)
        PROVE  h \in hosts /\ r.cause = r.check /\ r.worker = h.worker
               /\ r.check = h.check /\ (r.kept <=> h \notin gone)
    BY <2>1, <1>1 DEF ReportOf
  <2>2. ASSUME NEW h \in hosts \ gone, NEW a, r = KeptBy(h, a)
        PROVE  h \in hosts /\ r.cause = r.check /\ r.worker = h.worker
               /\ r.check = h.check /\ (r.kept <=> h \notin gone)
    BY <2>2 DEF KeptBy
  <2>3. Expired(seen) \cup With(fate, "unreachable") \subseteq gone
        /\ aborted \subseteq hosts \ gone
    BY <1>1 DEF Gone
  <2> HIDE DEF gone
  <2> QED
    BY <1>10, <1>13, <2>1, <2>2, <2>3
<1>12. ASSUME NEW r \in reports' \ reports, NEW s \in reports' \ reports,
              r.check = s.check, ~r.kept, ~s.kept
       PROVE  r = s
  <2>1. ASSUME NEW q \in reports' \ reports, ~q.kept
        PROVE  \E h \in hosts : q = ReportOf(h, IF h \in Expired(seen) THEN "timeout"
                                        ELSE "network_unreachable", h.check)
    <3>1. ASSUME NEW h, NEW a, q = KeptBy(h, a)
          PROVE  FALSE
      BY <2>1, <3>1 DEF KeptBy
    <3> QED
      BY <1>1, <1>2, <1>10, <3>1, OutcomesAreDue
  <2>2. PICK h \in hosts : r = ReportOf(h, IF h \in Expired(seen) THEN "timeout"
                                       ELSE "network_unreachable", h.check)
    BY <1>12, <2>1
  <2>3. PICK k \in hosts : s = ReportOf(k, IF k \in Expired(seen) THEN "timeout"
                                       ELSE "network_unreachable", k.check)
    BY <1>12, <2>1
  <2>4. h.check = k.check
    BY <2>2, <2>3, <1>12 DEF ReportOf
  <2> QED
    BY <1>3, <2>2, <2>3, <2>4
<1> QED
  BY <1>1, <1>5, <1>6, <1>7, <1>8, <1>9, <1>11, <1>12 DEF Ends

----------------------------------------------------------------------------
\* Hosts that stay as they are, or are sent again when due, keep to schedule.
LEMMA VisitKeepsSchedule ==
    ASSUME IInv,
           NEW seen \in SUBSET hosts,
           NEW fate \in Outcomes(seen),
           NEW aborted \in SUBSET (hosts \ seen),
           Visit(seen, fate, aborted)
    PROVE  Scheduled'
<1> SUFFICES ASSUME NEW h \in hosts'
             PROVE  /\ h.next >= h.timeout
                    /\ Interval[h.worker] > 0 =>
                          h.packets = 1 \/ (h.packets = 2 /\ h.next > h.timeout)
  BY DEF Scheduled
<1>1. PICK g \in hosts : h = IF g \in Due(seen) THEN Resent(g) ELSE g
  BY VisitHosts
<1>2. /\ g.next >= g.timeout
      /\ Interval[g.worker] > 0 =>
            g.packets = 1 \/ (g.packets = 2 /\ g.next > g.timeout)
  BY DEF IInv, Scheduled
<1>3. CASE g \notin Due(seen)
  BY <1>1, <1>2, <1>3
<1>4. CASE g \in Due(seen)
  <2>1. now <= g.timeout /\ now >= g.next
    BY <1>4 DEF Due
  <2>2. /\ g.next \in Nat /\ g.timeout \in Nat /\ now \in Nat
        /\ Interval[g.worker] \in Nat
    BY IntervalAssumption DEF IInv, TypeOK, Host
  <2>3. /\ h.worker = g.worker /\ h.timeout = g.timeout
        /\ h.next = now + Interval[g.worker]
        /\ h.packets = g.packets + 1
    BY <1>1, <1>4, ResentType DEF IInv
  <2>4. g.next = g.timeout /\ now = g.timeout
    BY <1>2, <2>1, <2>2
  <2> QED
    BY <1>2, <2>2, <2>3, <2>4
<1> QED
  BY <1>3, <1>4

\* A new check has a number, and an id, that nothing else has.
LEMMA StartKeeps ==
    ASSUME IInv, TypeOK', NEW w \in Workers, Start(w)
    PROVE  IInv'
<1>0. PICK next \in FirstNext(w) : hosts' = hosts \cup {NewHost(w, next)}
  BY DEF Start
<1> DEFINE new == NewHost(w, next)
<1>1. /\ new.worker = w /\ new.check = started + 1
      /\ new.timeout = now + Interval[w] /\ new.next = next
      /\ new.packets = 1
  BY DEF NewHost
<1>2. /\ started \in Nat /\ started' = started + 1
      /\ now \in Nat /\ Interval[w] \in Nat
  BY IntervalAssumption DEF IInv, TypeOK, Start
<1>3. hosts' = hosts \cup {new} /\ reports' = reports
  BY <1>0 DEF Start
<1>4. \A h \in hosts : h.check <= started /\ h.check \in Nat
  BY DEF IInv, Numbered, TypeOK, Host
<1>5. \A c \in wire' : c = started + 1 \/ c \in wire
  BY DEF Start
<1>6. \A c \in wire : c <= started /\ c \in Nat
  BY DEF IInv, Numbered, TypeOK
<1>7. \A r \in reports : r.check <= started /\ r.check \in Nat
  BY DEF IInv, Numbered, TypeOK, Report
<1>8. Numbered'
  <2>1. \A h \in hosts' : h.check <= started'
    BY <1>1, <1>2, <1>3, <1>4
  <2>2. \A c \in wire' : c <= started'
    BY <1>2, <1>5, <1>6
  <2>3. \A r \in reports' : r.check <= started'
    BY <1>2, <1>3, <1>7
  <2>4. \A g, h \in hosts' : g.check = h.check => g = h
    BY <1>1, <1>2, <1>3, <1>4 DEF IInv, Numbered
  <2> QED
    BY <2>1, <2>2, <2>3, <2>4 DEF Numbered
<1>9. IdsApart'
  <2> SUFFICES ASSUME NEW h \in hosts',
                      NEW c \in wire' \cup {g.check : g \in hosts'},
                      Id(c) = Id(h.check)
               PROVE  c = h.check
    BY DEF IdsApart, Id
  <2>1. c = started + 1 \/ c \in wire \cup {g.check : g \in hosts}
    BY <1>1, <1>3, <1>5
  <2>2. h = new \/ h \in hosts
    BY <1>3
  <2>3. \A other \in wire \cup {g.check : g \in hosts} :
            Id(other) # Id(started + 1)
    BY DEF Start, IdIsFree
  <2> QED
    BY <1>1, <2>1, <2>2, <2>3 DEF IInv, IdsApart
<1>10. BusyIffListed'
  <2>1. ~busy[w] /\ busy' = [busy EXCEPT ![w] = TRUE]
    BY DEF Start
  <2>2. \A h \in hosts : h.worker # w
    BY <2>1 DEF IInv, BusyIffListed
  <2>3. ASSUME NEW v \in Workers
        PROVE  /\ busy'[v] <=> \E h \in hosts' : h.worker = v
               /\ \A g, h \in hosts' :
                     g.worker = v /\ h.worker = v => g = h
    <3>1. busy'[v] <=> v = w \/ busy[v]
      BY <2>1 DEF IInv, TypeOK
    <3> QED
      BY <1>1, <1>3, <2>2, <3>1 DEF IInv, BusyIffListed
  <2> QED
    BY <2>3 DEF BusyIffListed
<1>11. AnswerIsOwn'
  BY <1>3 DEF IInv, AnswerIsOwn
<1>12. OneReportPerCheck'
  BY <1>1, <1>2, <1>3, <1>7 DEF IInv, OneReportPerCheck
<1>13. Serviced'
  BY DEF Start, OpenListener, Serviced
<1>14. Scheduled'
  <2>1. next >= now + Interval[w]
    BY <1>2 DEF FirstNext
  <2> QED
    BY <1>1, <1>2, <1>3, <2>1 DEF IInv, Scheduled
<1> QED
  BY <1>8, <1>9, <1>10, <1>11, <1>12, <1>13, <1>14 DEF IInv

\* The listener follows the list wherever a list is looked at before stop().
LEMMA CloseKeepsServiced ==
    ASSUME Serviced, hosts' = {} \/ hosts # {}, CloseIfNoHosts
    PROVE  Serviced'
BY DEF CloseIfNoHosts, CloseListener, Serviced

\* A step of the pool, of the agents or of the main loop keeps the invariant.
LEMMA StepKeeps ==
    ASSUME IInv, TypeOK', [Next]_vars
    PROVE  IInv'
<1>1. ASSUME NEW w \in Workers, Start(w) PROVE IInv'
  BY <1>1, StartKeeps
<1>2. ASSUME NEW w \in Workers, StartFails(w) PROVE IInv'
  BY <1>2 DEF StartFails, CloseListener, IInv, TypeOK, Numbered, IdsApart,
     BusyIffListed, AnswerIsOwn, OneReportPerCheck, Serviced, Scheduled, Id
<1>3. ASSUME NEW w \in Workers, Stop(w) PROVE IInv'
  <2> DEFINE gone == {h \in hosts : h.worker = w}
  <2>1. Ends(gone)
    BY <1>3, StopEnds
  <2>2. hosts' \subseteq hosts /\ CloseIfNoHosts
    BY <1>3 DEF Stop
  <2>3. Serviced'
    BY <2>2, CloseKeepsServiced DEF IInv
  <2>4. Scheduled'
    BY <2>2 DEF IInv, Scheduled
  <2> QED
    BY <2>1, <2>3, <2>4, EndsKeeps DEF IInv
<1>4. ASSUME NEW check \in wire, NEW type \in AnswerTypes,
             HandleEvent(check, type)
      PROVE  IInv'
  <2>1. Ends(Answered(check, type)) /\ Answered(check, type) \subseteq hosts
    BY <1>4, HandleEventEnds DEF Answered, Matching
  <2>2. hosts' \subseteq hosts /\ UNCHANGED <<timer, handler, fd>>
    BY <1>4 DEF HandleEvent
  <2>3. Serviced'
    BY <2>2 DEF IInv, Serviced
  <2>4. Scheduled'
    BY <2>2 DEF IInv, Scheduled
  <2> QED
    BY <2>1, <2>3, <2>4, EndsKeeps DEF IInv
<1>5. ASSUME NEW fate \in Outcomes(hosts), RunJob(fate) PROVE IInv'
  <2>1. Visit(hosts, fate, {}) /\ started' = started /\ CloseIfNoHosts
    BY <1>5 DEF RunJob
  <2>2. Ends(Gone(hosts, fate)) /\ Gone(hosts, fate) \subseteq hosts
    BY <2>1, VisitEnds
  <2>3. hosts' = {} \/ hosts # {}
    BY <2>2 DEF Ends
  <2>4. Serviced'
    BY <2>1, <2>3, CloseKeepsServiced DEF IInv
  <2>5. Scheduled'
    BY <2>1, VisitKeepsSchedule
  <2> QED
    BY <2>2, <2>4, <2>5, EndsKeeps DEF IInv
<1>6. ASSUME NEW h \in hosts, NEW fate \in Outcomes(Before(h)),
             AbortJob(h, fate)
      PROVE  IInv'
  <2>1. /\ Visit(Before(h), fate, {h})
        /\ UNCHANGED <<started, timer, handler, fd>>
    BY <1>6 DEF AbortJob
  <2>2. Before(h) \in SUBSET hosts /\ {h} \in SUBSET (hosts \ Before(h))
    BY HostsBeforeOne DEF IInv
  <2>3. Ends(Gone(Before(h), fate)) /\ Gone(Before(h), fate) \subseteq hosts
    BY <2>1, <2>2, VisitEnds
  <2>4. Serviced'
    BY <2>1, <2>3 DEF Ends, IInv, Serviced
  <2>5. Scheduled'
    BY <2>1, <2>2, VisitKeepsSchedule
  <2> QED
    BY <2>3, <2>4, <2>5, EndsKeeps DEF IInv
<1>7. ASSUME UNCHANGED <<busy, hosts, timer, handler, fd, started, reports>>,
             wire' \subseteq wire
      PROVE  IInv'
  BY <1>7 DEF IInv, Numbered, IdsApart, BusyIffListed, AnswerIsOwn,
     OneReportPerCheck, Serviced, Scheduled, Id
<1>8. CASE OnTimer
  BY <1>7, <1>8 DEF OnTimer
<1>9. CASE Tick
  BY <1>7, <1>9 DEF Tick
<1>10. ASSUME NEW check \in wire, Lose(check) PROVE IInv'
  BY <1>7, <1>10 DEF Lose
<1>11. CASE UNCHANGED vars
  BY <1>7, <1>11 DEF vars
<1> QED
  BY <1>1, <1>2, <1>3, <1>4, <1>5, <1>6, <1>8, <1>9, <1>10, <1>11
     DEF Next, JobEnds, JobThrows

\* The inductive invariant holds in every reachable state.
THEOREM Invariance == Spec => []IInv
<1>1. Init => IInv
  <2> SUFFICES ASSUME Init PROVE IInv
    OBVIOUS
  <2>1. busy \in [Workers -> BOOLEAN]
    BY DEF Init
  <2>2. TypeOK
    BY <2>1 DEF Init, TypeOK
  <2> QED
    BY <2>2 DEF Init, IInv, Numbered, IdsApart, BusyIffListed, AnswerIsOwn,
       OneReportPerCheck, Serviced, Scheduled
<1>2. IInv /\ TypeOK' /\ [Next]_vars => IInv'
  BY StepKeeps
<1> QED
  BY <1>1, <1>2, TypeCorrect, PTL DEF Spec

\* A worker is busy exactly while one host checks it, so that it is never
\* checked twice at once nor left unable to start again.
THEOREM BusyIsExact == Spec => []BusyIffListed
<1>1. IInv => BusyIffListed
  BY DEF IInv
<1> QED
  BY <1>1, Invariance, PTL

\* A listed check always has the socket, the handler and the timer it needs.
THEOREM ListedIsServiced == Spec => []Serviced
<1>1. IInv => Serviced
  BY DEF IInv
<1> QED
  BY <1>1, Invariance, PTL

\* No packet of one check completes another, as long as ids are not reused
\* while something of their last owner is left.
THEOREM NoCrossTalk == Spec => []AnswerIsOwn
<1>1. IInv => AnswerIsOwn
  BY DEF IInv
<1> QED
  BY <1>1, Invariance, PTL

\* A check ends with at most one report, whoever removes its host, and a worker
\* hears of a check that goes on only when its set() throws.
THEOREM ReportsOnce == Spec => []OneReportPerCheck
<1>1. IInv => OneReportPerCheck
  BY DEF IInv
<1> QED
  BY <1>1, Invariance, PTL

\* With a positive interval no check sends a third request.
THEOREM RetriesOnce == Spec => []AtMostOneRetry
<1>1. IInv => AtMostOneRetry
  BY DEF IInv, Scheduled, AtMostOneRetry
<1> QED
  BY <1>1, Invariance, PTL

----------------------------------------------------------------------------
(***************************************************************************)
(* The controller implements IcmpCheck.                                    *)
(***************************************************************************)
Running == {[worker |-> h.worker, check |-> h.check] : h \in hosts}

\* Whatever ends checks is an End of the abstract specification.
LEMMA EndsIsEnd ==
    ASSUME IInv, IInv', NEW gone \in SUBSET hosts, Ends(gone)
    PROVE  Abs!End
<1>1. Running' \subseteq Running
  BY DEF Running, Ends
<1>2. reports \subseteq reports' /\ started' = started
  BY DEF Ends
<1>3. ASSUME NEW r \in reports' \ reports
      PROVE  /\ [worker |-> r.worker, check |-> r.check]
                   \in IF r.kept THEN Running' ELSE Running \ Running'
             /\ r.cause = r.check
             /\ ~r.kept => \A s \in reports' :
                               s.check = r.check /\ ~s.kept => s = r
  <2>1. PICK h \in hosts : /\ r.worker = h.worker /\ r.check = h.check
                           /\ r.kept <=> h \notin gone
    BY DEF Ends
  <2>2. [worker |-> r.worker, check |-> r.check] \in Running
    BY <2>1 DEF Running
  <2>3. CASE r.kept
    <3>1. PICK k \in hosts' : k.worker = h.worker /\ k.check = h.check
      BY <2>1, <2>3 DEF Ends
    <3> QED
      BY <2>1, <2>3, <3>1 DEF Running, Ends
  <2>4. CASE ~r.kept
    <3>1. ASSUME NEW k \in hosts' PROVE k.check # r.check
      <4>1. PICK g \in hosts \ gone : k.check = g.check
        BY DEF Ends
      <4> QED
        BY <2>1, <2>4, <4>1 DEF IInv, Numbered
    <3>2. [worker |-> r.worker, check |-> r.check] \notin Running'
      BY <3>1 DEF Running
    <3>3. r.cause = r.check
      BY DEF Ends
    <3>4. \A s \in reports' : s.check = r.check /\ ~s.kept => s = r
      BY <2>4 DEF IInv, OneReportPerCheck
    <3> QED
      BY <2>2, <2>4, <3>2, <3>3, <3>4
  <2> QED
    BY <2>3, <2>4
<1> QED
  BY <1>1, <1>2, <1>3 DEF Abs!End, Running

\* Worker::start is a Begin of the abstract specification.
LEMMA StartIsBegin ==
    ASSUME IInv, NEW w \in Workers, Start(w)
    PROVE  Abs!Begin(w)
<1>1. \A h \in hosts : h.worker # w
  BY DEF Start, IInv, BusyIffListed
<1>2. PICK next \in FirstNext(w) : hosts' = hosts \cup {NewHost(w, next)}
  BY DEF Start
<1>6. started' = started + 1 /\ reports' = reports
  BY DEF Start
<1>3. NewHost(w, next).worker = w /\ NewHost(w, next).check = started + 1
  BY DEF NewHost
<1>4. Running' = Running \cup {[worker |-> w, check |-> started + 1]}
  BY <1>2, <1>3 DEF Running
<1>5. \A c \in Running : c.worker # w
  BY <1>1 DEF Running
<1> QED
  BY <1>4, <1>5, <1>6 DEF Abs!Begin, Running

\* Every step of the controller is a step of IcmpCheck or changes nothing there.
LEMMA StepRefines ==
    ASSUME IInv, IInv', [Next]_vars
    PROVE  [Abs!Next]_(Abs!vars)
<1>1. ASSUME NEW w \in Workers, Start(w) PROVE Abs!Next
  BY <1>1, StartIsBegin DEF Abs!Next
<1>2. ASSUME NEW gone \in SUBSET hosts, Ends(gone) PROVE Abs!Next
  BY <1>2, EndsIsEnd DEF Abs!Next
<1>3. ASSUME UNCHANGED <<hosts, started, reports>>
      PROVE  UNCHANGED Abs!vars
  BY <1>3 DEF Abs!vars
<1>4. ASSUME NEW w \in Workers, StartFails(w) PROVE UNCHANGED Abs!vars
  BY <1>3, <1>4 DEF StartFails
<1>5. ASSUME NEW w \in Workers, Stop(w) PROVE Abs!Next
  BY <1>2, <1>5, StopEnds
<1>6. ASSUME NEW check \in wire, NEW type \in AnswerTypes,
             HandleEvent(check, type)
      PROVE  Abs!Next
  <2>1. Answered(check, type) \subseteq hosts
    BY DEF Answered, Matching
  <2> QED
    BY <1>2, <1>6, <2>1, HandleEventEnds
<1>7. ASSUME NEW fate \in Outcomes(hosts), RunJob(fate) PROVE Abs!Next
  <2>1. Ends(Gone(hosts, fate)) /\ Gone(hosts, fate) \subseteq hosts
    BY <1>7, VisitEnds DEF RunJob
  <2> QED
    BY <1>2, <2>1
<1>8. ASSUME NEW h \in hosts, NEW fate \in Outcomes(Before(h)),
             AbortJob(h, fate)
      PROVE  Abs!Next
  <2>1. Before(h) \in SUBSET hosts /\ {h} \in SUBSET (hosts \ Before(h))
    BY HostsBeforeOne DEF IInv
  <2>2. Ends(Gone(Before(h), fate)) /\ Gone(Before(h), fate) \subseteq hosts
    BY <1>8, <2>1, VisitEnds DEF AbortJob
  <2> QED
    BY <1>2, <2>2
<1>9. CASE OnTimer
  BY <1>3, <1>9 DEF OnTimer
<1>10. CASE Tick
  BY <1>3, <1>10 DEF Tick
<1>11. ASSUME NEW check \in wire, Lose(check) PROVE UNCHANGED Abs!vars
  BY <1>3, <1>11 DEF Lose
<1>12. CASE UNCHANGED vars
  BY <1>3, <1>12 DEF vars
<1> QED
  BY <1>1, <1>4, <1>5, <1>6, <1>7, <1>8, <1>9, <1>10, <1>11, <1>12
     DEF Next, JobEnds, JobThrows

\* The controller keeps the promise made to the workers by IcmpCheck.
THEOREM Refinement == Spec => Promise
<1>1. Init => Abs!Init
  BY DEF Init, Abs!Init
<1>2. IInv /\ IInv' /\ [Next]_vars => [Abs!Next]_(Abs!vars)
  BY StepRefines
<1> QED
  BY <1>1, <1>2, Invariance, PTL DEF Spec, Promise, Abs!Spec

----------------------------------------------------------------------------
\* How the check of one host may end in a step.
Accounted(h) ==
    \/ \E g \in hosts' : g.check = h.check
    \/ \E r \in reports' : r.check = h.check /\ ~r.kept
    \/ Stop(h.worker)
    \/ \E check \in wire : HandleEvent(check, "other")

\* The timer job reports every host it erases.
LEMMA VisitAccounts ==
    ASSUME TypeOK,
           NEW seen \in SUBSET hosts,
           NEW fate \in Outcomes(seen),
           NEW aborted \in SUBSET (hosts \ seen),
           Visit(seen, fate, aborted),
           NEW h \in hosts
    PROVE  Accounted(h)
<1>1. CASE h \in Expired(seen)
  <2>1. ReportOf(h, "timeout", h.check) \in reports'
    BY <1>1 DEF Visit
  <2> QED
    BY <2>1 DEF Accounted, ReportOf
<1>2. CASE h \in With(fate, "unreachable")
  <2>1. ReportOf(h, "network_unreachable", h.check) \in reports'
    BY <1>2 DEF Visit
  <2> QED
    BY <2>1 DEF Accounted, ReportOf
<1>3. CASE h \in Due(seen) \ Gone(seen, fate)
  <2>1. Resent(h) \in hosts'
    BY <1>3 DEF Visit, Gone
  <2>2. Resent(h).check = h.check
    BY ResentType
  <2> QED
    BY <2>1, <2>2 DEF Accounted
<1>4. CASE h \notin Due(seen) \cup Gone(seen, fate)
  BY <1>4 DEF Visit, Gone, Accounted
<1> QED
  BY <1>1, <1>2, <1>3, <1>4 DEF Gone

\* A packet that erases a host is reported to it, unless onResponse has no case
\* for its type.
LEMMA HandleEventAccounts ==
    ASSUME NEW check \in wire, NEW type \in AnswerTypes,
           HandleEvent(check, type), IInv,
           NEW h \in hosts
    PROVE  Accounted(h)
<1>1. hosts' = hosts \ Answered(check, type)
  BY DEF HandleEvent
<1>2. CASE h \notin Answered(check, type)
  BY <1>1, <1>2 DEF Accounted
<1>3. CASE h \in Answered(check, type) /\ type = "other"
  BY <1>3 DEF Accounted
<1>4. CASE h \in Answered(check, type) /\ type # "other"
  <2>1. h.check = check
    BY <1>4 DEF Answered, Matching, IInv, IdsApart
  <2>2. type \in {"reply", "unreach", "exceeded"}
    BY <1>4 DEF Answered, AnswerTypes
  <2>3. PICK a : a \in ResponseTo(type)
    BY <2>2 DEF ResponseTo
  <2>4. ReportOf(h, a, check) \in reports'
    BY <1>4, <2>3 DEF HandleEvent
  <2> QED
    BY <2>1, <2>4 DEF Accounted, ReportOf
<1> QED
  BY <1>2, <1>3, <1>4

\* No check goes missing: one that leaves the list was reported, was stopped by
\* its worker, or was taken by a packet that onResponse only logs.
THEOREM EndsAreReported == Spec => EndsReported
<1>1. IInv /\ [Next]_vars => [\A h \in hosts : Accounted(h)]_vars
  <2> SUFFICES ASSUME IInv, Next, NEW h \in hosts
               PROVE  Accounted(h)
    OBVIOUS
  <2>1. ASSUME NEW w \in Workers, Start(w) PROVE Accounted(h)
    BY <2>1 DEF Start, Accounted
  <2>2. ASSUME NEW w \in Workers, StartFails(w) PROVE Accounted(h)
    BY <2>2 DEF StartFails, Accounted
  <2>3. ASSUME NEW w \in Workers, Stop(w) PROVE Accounted(h)
    <3>1. CASE h.worker = w
      BY <2>3, <3>1 DEF Accounted
    <3>2. CASE h.worker # w
      BY <2>3, <3>2 DEF Stop, Accounted
    <3> QED
      BY <3>1, <3>2
  <2>4. ASSUME NEW check \in wire, NEW type \in AnswerTypes,
               HandleEvent(check, type)
        PROVE  Accounted(h)
    BY <2>4, HandleEventAccounts
  <2>5. CASE OnTimer
    BY <2>5 DEF OnTimer, Accounted
  <2>6. ASSUME NEW fate \in Outcomes(hosts), RunJob(fate) PROVE Accounted(h)
    BY <2>6, VisitAccounts DEF RunJob, IInv
  <2>7. ASSUME NEW f \in hosts, NEW fate \in Outcomes(Before(f)),
               AbortJob(f, fate)
        PROVE  Accounted(h)
    BY <2>7, HostsBeforeOne, VisitAccounts DEF AbortJob, IInv
  <2>8. CASE Tick
    BY <2>8 DEF Tick, Accounted
  <2>9. ASSUME NEW check \in wire, Lose(check) PROVE Accounted(h)
    BY <2>9 DEF Lose, Accounted
  <2> QED
    BY <2>1, <2>2, <2>3, <2>4, <2>5, <2>6, <2>7, <2>8, <2>9
       DEF Next, JobEnds, JobThrows
<1> QED
  BY <1>1, Invariance, PTL DEF Spec, EndsReported, Accounted

----------------------------------------------------------------------------
(***************************************************************************)
(* How much IdIsFree, the guard of Start, takes for granted.               *)
(***************************************************************************)

LEMMA Division ==
    ASSUME NEW n \in Nat \ {0}, NEW a \in Int
    PROVE  /\ a \div n \in Int /\ a % n \in 0..n-1
           /\ a = n * (a \div n) + (a % n)
  OBVIOUS

LEMMA Multiple ==
    ASSUME NEW n \in Nat \ {0}, NEW k \in Int, n * k > 0
    PROVE  n * k >= n
  OBVIOUS

LEMMA Distribute ==
    ASSUME NEW n \in Int, NEW p \in Int, NEW q \in Int
    PROVE  n * (q - p) = n * q - n * p
  OBVIOUS

\* Numbers less than n apart differ modulo n.
LEMMA RemaindersDiffer ==
    ASSUME NEW n \in Nat \ {0}, NEW a \in Int, NEW b \in Int,
           a < b, b - a < n
    PROVE  a % n # b % n
<1> DEFINE p == a \div n  q == b \div n
<1>1. /\ p \in Int /\ q \in Int /\ a % n \in Int /\ b % n \in Int
      /\ a = n * p + (a % n) /\ b = n * q + (b % n)
  BY Division
<1> HIDE DEF p, q
<1>2. n * p \in Int /\ n * q \in Int /\ q - p \in Int
  BY <1>1
<1>3. n * (q - p) = n * q - n * p
  BY <1>1, Distribute
<1>4. ASSUME a % n = b % n PROVE FALSE
  <2>1. b - a = n * (q - p)
    BY <1>1, <1>2, <1>3, <1>4
  <2>2. n * (q - p) >= n
    BY <1>2, <2>1, Multiple
  <2> QED
    BY <2>1, <2>2
<1> QED
  BY <1>4

\* Checks that are listed, or have a packet in the network.
Pending == wire \cup {h.check : h \in hosts}

\* The next check gets the id of a pending one only when as many checks as there
\* are ids were started since.
ReuseTakesARound ==
    \A c \in Pending : Id(c) = Id(started + 1) => started + 1 - c >= IdSpace

\* The counter behind Host::id does not come back to the id of a pending check
\* within a round: what Start assumes fails only if 65536 checks are started while
\* one is pending, and holds without more in a behaviour of fewer.
THEOREM IdsAreReusedLate ==
    /\ Spec => []ReuseTakesARound
    /\ MaxChecks \in Nat /\ MaxChecks < IdSpace =>
          (Spec => [](started < MaxChecks => IdIsFree(started + 1)))
<1>1. IInv => ReuseTakesARound
  <2> SUFFICES ASSUME IInv, NEW c \in Pending, started + 1 - c < IdSpace
               PROVE  Id(c) # Id(started + 1)
    BY IdSpaceAssumption DEF ReuseTakesARound, Pending, IInv, TypeOK, Host
  <2>1. c \in Nat /\ started \in Nat /\ c <= started
    BY DEF Pending, IInv, TypeOK, Host, Numbered
  <2> DEFINE a == c - 1  b == started
  <2>2. a \in Int /\ b \in Int /\ a < b /\ b - a < IdSpace
    BY <2>1, IdSpaceAssumption
  <2>3. a % IdSpace # b % IdSpace
    BY <2>2, IdSpaceAssumption, RemaindersDiffer
  <2>4. Id(c) = a % IdSpace /\ Id(started + 1) = b % IdSpace
    BY <2>1, IdSpaceAssumption DEF Id
  <2> QED
    BY <2>3, <2>4
<1>2. IInv /\ MaxChecks \in Nat /\ MaxChecks < IdSpace =>
        (started < MaxChecks => IdIsFree(started + 1))
  <2> SUFFICES ASSUME IInv, MaxChecks \in Nat, MaxChecks < IdSpace,
                      started < MaxChecks, NEW c \in Pending
               PROVE  Id(c) # Id(started + 1)
    BY DEF IdIsFree, Pending
  <2>1. c \in Nat /\ started \in Nat
    BY DEF Pending, IInv, TypeOK, Host
  <2>2. ~(started + 1 - c >= IdSpace)
    BY <2>1, IdSpaceAssumption
  <2>3. ReuseTakesARound
    BY <1>1
  <2> QED
    BY <2>2, <2>3 DEF ReuseTakesARound
<1>3. Spec => []ReuseTakesARound
  BY <1>1, Invariance, PTL
<1>4. ASSUME MaxChecks \in Nat /\ MaxChecks < IdSpace
      PROVE  Spec => [](started < MaxChecks => IdIsFree(started + 1))
  <2>1. IInv => (started < MaxChecks => IdIsFree(started + 1))
    BY <1>2, <1>4
  <2> QED
    BY <2>1, Invariance, PTL
<1> QED
  BY <1>3, <1>4
=============================================================================
