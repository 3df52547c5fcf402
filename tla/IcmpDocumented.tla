--------------------------- MODULE IcmpDocumented ---------------------------
(***************************************************************************)
(* What the headers and the README say of a check, against the controller. *)
(***************************************************************************)
EXTENDS MCIcmpController

CONSTANT Timeout    \* Timeout[w]: timers.timeout of w; no .cc file reads it

\* Router errors that were received while the check they are about was listed.
VARIABLE heard

Hear(check, type) ==
    heard' = heard \cup IF \E h \in hosts : h.check = check
                          THEN {[check |-> check, type |-> type]} ELSE {}

HearingInit == Init /\ heard = {}

HearingNext ==
    \/ \E check \in wire, type \in {"unreach", "exceeded"} :
          HandleEvent(check, type) /\ Hear(check, type)
    \/ Next /\ UNCHANGED heard

HearingSpec == HearingInit /\ [][HearingNext]_<<vars, heard>> /\ Fairness

\* icmp.h:50 calls timers.timeout the "ICMP timeout": a check is reported as
\* timed out only when that many seconds have gone by since it began.
TimeoutIsHonoured ==
    [][\A r \in reports' \ reports, h \in hosts :
          r.response = "timeout" /\ r.check = h.check
            => now > (h.timeout - Interval[h.worker]) + Timeout[h.worker]]_vars

\* README.md:31: a state exists for `destination-unreachable', and :32 one for
\* `time-exceeded'.  A router's error about a running check is reported.
RouterErrorIsReported ==
    \A e \in heard : \E r \in reports : r.check = e.check

\* The default of icmp-timeout, with both workers.
MCTimeout == [w \in MCWorkers |-> 5]

=============================================================================
