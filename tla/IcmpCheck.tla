------------------------------ MODULE IcmpCheck ------------------------------
(***************************************************************************)
(* What the ICMP controller promises to the workers: a worker runs one     *)
(* check at a time; a check ends once, with at most one report, caused by  *)
(* its own packets or its own deadline; after stop() the worker hears      *)
(* nothing until it starts again.  A worker that throws at a report may be *)
(* left with a check that goes on, and is told again.                      *)
(***************************************************************************)
EXTENDS Integers

CONSTANT Workers

VARIABLES
    running,  \* the checks in progress, as [worker, check] records
    count,    \* number of the last check begun
    reports   \* the reports delivered

vars == <<running, count, reports>>

Init == running = {} /\ count = 0 /\ reports = {}

Begin(w) ==
    /\ \A c \in running : c.worker # w
    /\ count' = count + 1
    /\ running' = running \cup {[worker |-> w, check |-> count + 1]}
    /\ UNCHANGED reports

\* Checks end, and workers are told: of a check that ends once, of one that goes
\* on by a report that is `kept'.
End ==
    /\ running' \subseteq running
    /\ reports \subseteq reports'
    /\ \A r \in reports' \ reports :
          /\ [worker |-> r.worker, check |-> r.check]
                \in IF r.kept THEN running' ELSE running \ running'
          /\ r.cause = r.check
          /\ ~r.kept => \A s \in reports' : s.check = r.check /\ ~s.kept => s = r
    /\ UNCHANGED count

Next == (\E w \in Workers : Begin(w)) \/ End

Spec == Init /\ [][Next]_vars
=============================================================================
