---------------------------- MODULE NicListProofs ----------------------------
(***************************************************************************)
(* Theorems about the loops over the interfaces, for any set of names, any *)
(* order in which they are walked and any changes meanwhile.               *)
(***************************************************************************)
EXTENDS NicList, FiniteSetTheorems, TLAPS

Scans == [body: Bodies \cup {"none"}, todo: SUBSET Nics, probed: Nics \cup {NoNic},
          found: SUBSET Nics, path: Nics \cup {NoNic}, seen: [Nics -> SUBSET Statuses]]

\* Types, as far as the loops need them.
Typed == kernel \in [Nics -> Statuses] /\ scan \in [Threads -> Scans]

\* The history has the present; what is found was as wanted; whatever has been as
\* wanted throughout is found or still to come, unless the loop was ended by a
\* first find; and an interface is probed because it is wanted.
LoopIsTrue(s) ==
    s.body # "none" =>
        /\ \A n \in Nics : kernel[n] \in s.seen[n]
        /\ s.body = "carrier" => s.path \in Nics
        /\ \A n \in s.found : n \in Wanted(s).nics /\ s.seen[n] \cap Wanted(s).as # {}
        /\ \/ \A n \in Wanted(s).nics :
                 s.seen[n] \subseteq Wanted(s).as => n \in s.found \cup s.todo
           \/ s.body = "active" /\ s.found # {} /\ s.todo = {} /\ s.probed = NoNic
        /\ \A n \in s.todo : s.seen[n] \cap (Statuses \ {"gone"}) # {}
        /\ s.probed # NoNic =>
              /\ s.body \notin {"nics", "detect"}
              /\ s.probed \in s.todo \cap Wanted(s).nics

Inv == Typed /\ \A t \in Threads : LoopIsTrue(scan[t])

\* What each body wants.
LEMMA WantedOf ==
    ASSUME NEW s, s.body \in Bodies
    PROVE  /\ s.body \in {"start", "refresh"} =>
                Wanted(s).nics = Nics /\ Wanted(s).as = {"link"}
           /\ s.body = "active" =>
                Wanted(s).nics = Nics \ Loopback /\ Wanted(s).as = {"link"}
           /\ s.body = "carrier" =>
                Wanted(s).nics = {s.path} /\ Wanted(s).as = {"link"}
           /\ s.body = "nics" =>
                /\ Wanted(s).nics = Nics \ Loopback
                /\ Wanted(s).as = Statuses \ {"gone"}
           /\ s.body = "detect" =>
                Wanted(s).nics = Nics /\ Wanted(s).as = Statuses \ {"gone"}
BY DEF Wanted, Bodies

\* Wanted depends on the body and the path only.
LEMMA SameWanted ==
    ASSUME NEW s, NEW r, r.body = s.body, r.path = s.path
    PROVE  Wanted(r) = Wanted(s)
BY DEF Wanted

\* A thread that does not scan, and one whose loop begins.
LEMMA NoLoop == NoScan \in Scans /\ LoopIsTrue(NoScan)
BY DEF NoScan, Scans, LoopIsTrue

LEMMA BeginIsTrue ==
    ASSUME Typed, NEW body \in Bodies, NEW path \in Nics \cup {NoNic},
           (path = NoNic) = (body # "carrier"),
           NEW s, s = [body |-> body, todo |-> {n \in Nics : kernel[n] # "gone"},
                       probed |-> NoNic, found |-> {}, path |-> path,
                       seen |-> [n \in Nics |-> {kernel[n]}]]
    PROVE  s \in Scans /\ LoopIsTrue(s)
<1>1. s \in Scans
  BY DEF Scans, Typed
<1>2. s.body \in Bodies /\ s.body # "none" /\ Wanted(s).nics \subseteq Nics
      /\ Wanted(s).as \subseteq Statuses \ {"gone"}
  BY WantedOf DEF Bodies, Statuses
<1>3. \A n \in Nics : s.seen[n] = {kernel[n]} /\ kernel[n] \in Statuses
  BY DEF Typed
<1>4. \A n \in Wanted(s).nics :
          s.seen[n] \subseteq Wanted(s).as => n \in s.found \cup s.todo
  BY <1>2, <1>3
<1> QED
  BY <1>1, <1>2, <1>3, <1>4, NicsAssumption DEF LoopIsTrue

\* A step of one thread's loop keeps the others.
LEMMA OneLoop ==
    ASSUME Inv, UNCHANGED kernel, NEW t \in Threads, NEW r \in Scans, LoopIsTrue(r),
           scan' = [scan EXCEPT ![t] = r]
    PROVE  Inv'
<1>1. scan' \in [Threads -> Scans] /\ kernel' \in [Nics -> Statuses]
  BY DEF Inv, Typed
<1>2. ASSUME NEW u \in Threads PROVE LoopIsTrue(scan[u])'
  <2>1. LoopIsTrue(scan'[u])
    BY DEF Inv, Typed
  <2> QED
    BY <2>1 DEF LoopIsTrue, Wanted
<1> QED
  BY <1>1, <1>2 DEF Inv, Typed

LEMMA LookIsTrue ==
    ASSUME Inv, NEW t \in Threads, NEW n \in Nics, Look(t, n)
    PROVE  Inv'
<1> DEFINE s == scan[t]
<1>1. s \in Scans /\ LoopIsTrue(s) /\ s.probed = NoNic /\ n \in s.todo /\ UNCHANGED kernel
  BY DEF Inv, Typed, Look
<1>2. s.body # "none" => s.body \in Bodies
  BY <1>1 DEF Scans
<1>0. s.body # "none" => kernel[n] \in s.seen[n] /\ kernel[n] \in Statuses
  BY <1>1 DEF LoopIsTrue, Inv, Typed
<1>3. CASE s.body = "none"
  <2> DEFINE r == scan'[t]
  <2>1. r \in Scans /\ r.body = "none" /\ scan' = [scan EXCEPT ![t] = r]
    BY <1>1, <1>3 DEF Look, Pass, Collect, Scans, Inv, Typed
  <2> QED
    BY <1>1, <2>1, OneLoop DEF LoopIsTrue
<1>4. CASE s.body # "none" /\ Skips(s, n)
  <2> DEFINE r == Pass(s, n)
  <2>1. r \in Scans /\ r.body = s.body /\ r.path = s.path /\ scan' = [scan EXCEPT ![t] = r]
    BY <1>1, <1>4 DEF Look, Pass, Scans
  <2>2. n \notin Wanted(s).nics
    BY <1>2, <1>4, WantedOf DEF Skips
  <2>3. LoopIsTrue(r)
    BY <1>1, <2>1, <2>2, SameWanted DEF LoopIsTrue, Pass, Scans
  <2> QED
    BY <1>1, <2>1, <2>3, OneLoop
<1>5. CASE s.body \in {"nics", "detect"} /\ ~Skips(s, n)
  <2> DEFINE r == Collect(s, n)
  <2>1. r \in Scans /\ r.body = s.body /\ r.path = s.path /\ scan' = [scan EXCEPT ![t] = r]
    BY <1>1, <1>5 DEF Look, Collect, Scans
  <2>2. n \in Wanted(s).nics /\ s.seen[n] \cap Wanted(s).as # {}
    BY <1>1, <1>2, <1>5, WantedOf DEF Skips, LoopIsTrue
  <2>3. LoopIsTrue(r)
    BY <1>1, <2>1, <2>2, SameWanted DEF LoopIsTrue, Collect, Scans
  <2> QED
    BY <1>1, <2>1, <2>3, OneLoop
<1>6. CASE s.body \in {"start", "refresh", "active", "carrier"} /\ ~Skips(s, n)
  <2>1. CASE s.body = "carrier" \/ kernel[n] \in {"idle", "link"}
    <3> DEFINE r == [s EXCEPT !.probed = n]
    <3>1. r \in Scans /\ r.body = s.body /\ r.path = s.path /\ scan' = [scan EXCEPT ![t] = r]
      BY <1>1, <1>6, <2>1 DEF Look, Scans
    <3>2. n \in Wanted(s).nics
      BY <1>2, <1>6, WantedOf DEF Skips
    <3>3. LoopIsTrue(r)
      BY <1>1, <1>6, <3>1, <3>2, SameWanted DEF LoopIsTrue, Scans
    <3> QED
      BY <1>1, <3>1, <3>3, OneLoop
  <2>2. CASE s.body # "carrier" /\ kernel[n] \notin {"idle", "link"}
    <3> DEFINE r == Pass(s, n)
    <3>1. r \in Scans /\ r.body = s.body /\ r.path = s.path /\ scan' = [scan EXCEPT ![t] = r]
      BY <1>1, <1>6, <2>2 DEF Look, Pass, Scans
    <3>2. ~(s.seen[n] \subseteq Wanted(s).as)
      BY <1>2, <1>0, <1>6, <2>2, WantedOf
    <3>3. LoopIsTrue(r)
      BY <1>1, <3>1, <3>2, SameWanted DEF LoopIsTrue, Pass, Scans
    <3> QED
      BY <1>1, <3>1, <3>3, OneLoop
  <2> QED
    BY <2>1, <2>2
<1> QED
  BY <1>2, <1>3, <1>4, <1>5, <1>6 DEF Bodies

LEMMA ReadIsTrue ==
    ASSUME Inv, NEW t \in Threads, ReadCarrier(t)
    PROVE  Inv'
<1> DEFINE s == scan[t]  n == s.probed
<1>1. s \in Scans /\ LoopIsTrue(s) /\ n # NoNic /\ n \in Nics /\ UNCHANGED kernel
      /\ kernel[n] \in {"idle", "link"}
  BY DEF Inv, Typed, ReadCarrier, Scans
<1> HIDE DEF s, n
<1> DEFINE r == IF s.body = "carrier"
                  THEN EndWith(s, IF kernel[n] = "link" THEN {n} ELSE {})
                ELSE IF kernel[n] = "idle" THEN [Pass(s, n) EXCEPT !.probed = NoNic]
                ELSE IF s.body = "active"  THEN EndWith(s, {n})
                ELSE [Collect(s, n) EXCEPT !.probed = NoNic]
<1>2. scan' = [scan EXCEPT ![t] = r]
  BY DEF ReadCarrier, s, n
<1>3. r \in Scans /\ r.body = s.body /\ r.path = s.path /\ r.seen = s.seen
      /\ r.probed = NoNic
  BY <1>1 DEF Scans, EndWith, Pass, Collect
<1>4. CASE s.body = "none"
  BY <1>1, <1>2, <1>3, <1>4, OneLoop DEF LoopIsTrue
<1>5. CASE s.body # "none"
  <2>1. /\ s.body \in {"start", "refresh", "active", "carrier"} /\ s.body \in Bodies
        /\ n \in s.todo /\ n \in Wanted(s).nics /\ kernel[n] \in s.seen[n]
        /\ Wanted(s).as = {"link"}
        /\ s.body = "carrier" => Wanted(s).nics = {n}
    BY <1>1, <1>5, WantedOf DEF LoopIsTrue, Scans, Bodies, n
  <2>2. Wanted(r) = Wanted(s)
    BY <1>3, SameWanted
  <2>3. /\ \A k \in Nics : kernel[k] \in s.seen[k]
        /\ s.body = "carrier" => s.path \in Nics
        /\ \A k \in s.found : k \in Wanted(s).nics /\ s.seen[k] \cap Wanted(s).as # {}
        /\ \A k \in Wanted(s).nics : s.seen[k] \subseteq Wanted(s).as => k \in s.found \cup s.todo
        /\ \A k \in s.todo : s.seen[k] \cap (Statuses \ {"gone"}) # {}
    BY <1>1, <1>5 DEF LoopIsTrue, n
  <2>4. CASE s.body = "carrier"
    <3>1. r.todo = {} /\ r.found = IF kernel[n] = "link" THEN {n} ELSE {}
      BY <1>1, <2>4 DEF EndWith, Scans
    <3> QED
      BY <1>1, <1>2, <1>3, <2>1, <2>2, <2>3, <2>4, <3>1, OneLoop DEF LoopIsTrue
  <2>5. CASE s.body # "carrier" /\ kernel[n] = "idle"
    <3>1. r.todo = s.todo \ {n} /\ r.found = s.found
      BY <1>1, <2>5 DEF Pass, Scans
    <3>2. LoopIsTrue(r)
      BY <1>3, <2>1, <2>2, <2>3, <2>5, <3>1 DEF LoopIsTrue
    <3> QED
      BY <1>1, <1>2, <1>3, <3>2, OneLoop
  <2>6. CASE s.body = "active" /\ kernel[n] = "link"
    <3>1. r.todo = {} /\ r.found = {n}
      BY <1>1, <2>6 DEF EndWith, Scans
    <3>2. LoopIsTrue(r)
      BY <1>3, <2>1, <2>2, <2>3, <2>6, <3>1 DEF LoopIsTrue
    <3> QED
      BY <1>1, <1>2, <1>3, <3>2, OneLoop
  <2>7. CASE s.body \in {"start", "refresh"} /\ kernel[n] = "link"
    <3>1. r.todo = s.todo \ {n} /\ r.found = s.found \cup {n}
      BY <1>1, <2>7 DEF Collect, Scans
    <3>2. LoopIsTrue(r)
      BY <1>3, <2>1, <2>2, <2>3, <2>7, <3>1 DEF LoopIsTrue
    <3> QED
      BY <1>1, <1>2, <1>3, <3>2, OneLoop
  <2> QED
    BY <1>1, <2>1, <2>4, <2>5, <2>6, <2>7
<1> QED
  BY <1>4, <1>5

\* The interfaces change under every loop that runs.
LEMMA KernelIsTrue ==
    ASSUME Inv, NEW n \in Nics, NEW status \in Statuses, KernelChanges(n, status)
    PROVE  Inv'
<1>1. Typed'
  <2>1. kernel' \in [Nics -> Statuses]
    BY DEF Inv, Typed, KernelChanges
  <2>2. ASSUME NEW t \in Threads PROVE scan'[t] \in Scans
    <3>1. scan[t] \in Scans
      BY DEF Inv, Typed
    <3>2. [scan[t] EXCEPT !.seen[n] = @ \cup {status}] \in Scans
      BY <3>1 DEF Scans
    <3> QED
      BY <3>1, <3>2 DEF KernelChanges
  <2>3. scan' \in [Threads -> Scans]
    BY <2>2 DEF KernelChanges
  <2> QED
    BY <2>1, <2>3 DEF Typed
<1>2. ASSUME NEW t \in Threads PROVE LoopIsTrue(scan[t])'
  <2> DEFINE s == scan[t]  r == scan'[t]
  <2>1. s \in Scans /\ LoopIsTrue(s) /\ kernel \in [Nics -> Statuses]
        /\ kernel' = [kernel EXCEPT ![n] = status]
    BY DEF Inv, Typed, KernelChanges
  <2>2. CASE s.body = "none"
    BY <2>1, <2>2 DEF LoopIsTrue, KernelChanges
  <2>3. CASE s.body # "none"
    <3>1. r = [s EXCEPT !.seen[n] = @ \cup {status}]
      BY <2>3 DEF KernelChanges
    <3>2. /\ r.body = s.body /\ r.path = s.path /\ r.todo = s.todo
          /\ r.probed = s.probed /\ r.found = s.found
          /\ \A k \in Nics : s.seen[k] \subseteq r.seen[k] /\ kernel'[k] \in
                                s.seen[k] \cup r.seen[k]
          /\ s.found \subseteq Nics /\ s.todo \subseteq Nics
      BY <2>1, <2>3, <3>1 DEF Scans, LoopIsTrue
    <3>3. Wanted(r) = Wanted(s) /\ Wanted(s).nics \subseteq Nics
      <4>1. s.body \in Bodies /\ (s.body = "carrier" => s.path \in Nics)
        BY <2>1, <2>3 DEF Scans, LoopIsTrue
      <4> QED
        BY <3>2, <4>1, SameWanted, WantedOf DEF Bodies
    <3> HIDE DEF s, r
    <3>4. /\ \A k \in Nics : kernel'[k] \in r.seen[k]
          /\ \A k \in r.found : k \in Wanted(r).nics /\ r.seen[k] \cap Wanted(r).as # {}
          /\ \A k \in r.todo : r.seen[k] \cap (Statuses \ {"gone"}) # {}
      BY <2>1, <2>3, <3>2, <3>3 DEF LoopIsTrue
    <3>5. \/ \A k \in Wanted(r).nics :
                r.seen[k] \subseteq Wanted(r).as => k \in r.found \cup r.todo
          \/ r.body = "active" /\ r.found # {} /\ r.todo = {} /\ r.probed = NoNic
      BY <2>1, <2>3, <3>2, <3>3 DEF LoopIsTrue
    <3>6. /\ r.body = "carrier" => r.path \in Nics
          /\ r.probed # NoNic => /\ r.body \notin {"nics", "detect"}
                                 /\ r.probed \in r.todo \cap Wanted(r).nics
      BY <2>1, <2>3, <3>2, <3>3 DEF LoopIsTrue
    <3> QED
      BY <3>4, <3>5, <3>6 DEF LoopIsTrue, Wanted, r
  <2> QED
    BY <2>2, <2>3
<1> QED
  BY <1>1, <1>2 DEF Inv

LEMMA NextIsTrue == Inv /\ [Next]_vars => Inv'
<1> SUFFICES ASSUME Inv, [Next]_vars PROVE Inv'
  OBVIOUS
<1>1. CASE Build
  <2>1. PICK auto \in BOOLEAN : IF auto THEN Begin("agent", "detect", NoNic)
                                        ELSE UNCHANGED scan
    BY <1>1 DEF Build
  <2>2. CASE auto
    <3>1. Begin("agent", "detect", NoNic) /\ UNCHANGED kernel
      BY <1>1, <2>1, <2>2 DEF Build
    <3> QED
      BY <3>1, BeginIsTrue, OneLoop DEF Begin, Inv, Bodies, Threads
  <2>3. CASE ~auto
    <3>1. UNCHANGED <<scan, kernel>>
      BY <1>1, <2>1, <2>3 DEF Build
    <3> QED
      BY <3>1 DEF Inv, Typed, LoopIsTrue, Wanted
  <2> QED
    BY <2>2, <2>3
<1>2. ASSUME NEW body \in {"start", "refresh"}, Count(body) PROVE Inv'
  BY <1>2, BeginIsTrue, OneLoop DEF Count, Begin, Inv, Bodies, Threads
<1>3. ASSUME NEW body \in BodiesOf["property"], NEW path \in Nics \cup {NoNic},
             Ask(body, path)
      PROVE Inv'
  <2>1. body \in Bodies
    BY DEF Bodies, BodiesOf
  <2> QED
    BY <1>3, <2>1, BeginIsTrue, OneLoop DEF Ask, Begin, Inv, Threads
<1>4. ASSUME NEW t \in Threads, NEW n \in Nics, Look(t, n) PROVE Inv'
  BY <1>4, LookIsTrue
<1>5. ASSUME NEW t \in Threads, ReadCarrier(t) PROVE Inv'
  BY <1>5, ReadIsTrue
<1>6. ASSUME NEW t \in Threads, CarrierThrows(t) \/ Finish(t) PROVE Inv'
  BY <1>6, NoLoop, OneLoop DEF CarrierThrows, Finish
<1>7. ASSUME NEW n \in Nics, NEW status \in Statuses, KernelChanges(n, status)
      PROVE Inv'
  BY <1>7, KernelIsTrue
<1>8. CASE StopAndDestroy \/ UNCHANGED vars
  BY <1>8 DEF StopAndDestroy, vars, Inv, Typed, LoopIsTrue, Wanted
<1> QED
  BY <1>1, <1>2, <1>3, <1>4, <1>5, <1>6, <1>7, <1>8 DEF Next, Step

LEMMA LoopInvariance == Spec => []Inv
<1>1. Init => Inv
  BY NoLoop DEF Init, Inv, Typed, LoopIsTrue, NoScan
<1> QED
  BY <1>1, NextIsTrue, PTL DEF Spec

\* What a loop over the interfaces has found when it ends is true of them, however
\* many there are and however often they change while it runs.
THEOREM ScansAreTrue == Spec => []ScanIsTrue
<1>1. Inv => ScanIsTrue
  <2> SUFFICES ASSUME Inv, NEW t \in Threads, Done(t)
               PROVE  LET s == scan[t]  w == Wanted(s)
                      IN /\ \A n \in s.found : n \in w.nics /\ s.seen[n] \cap w.as # {}
                         /\ \/ \A n \in w.nics : s.seen[n] \subseteq w.as => n \in s.found
                            \/ s.body = "active" /\ s.found # {}
    BY DEF ScanIsTrue
  <2>1. LoopIsTrue(scan[t]) /\ scan[t].body # "none" /\ scan[t].todo = {}
    BY DEF Inv, Done
  <2> QED
    BY <2>1 DEF LoopIsTrue
<1> QED
  BY <1>1, LoopInvariance, PTL

----------------------------------------------------------------------------
(***************************************************************************)
(* The number that is shown.                                               *)
(***************************************************************************)

\* What a loop that counts has found lies between two sets of interfaces.
LEMMA FoundBetween ==
    ASSUME Inv, Done("agent"), scan["agent"].body \in {"start", "refresh"}
    PROVE  LET s == scan["agent"]
           IN /\ {n \in Nics : s.seen[n] = {"link"}} \subseteq s.found
              /\ s.found \subseteq {n \in Nics : "link" \in s.seen[n]}
<1> DEFINE s == scan["agent"]
<1>1. LoopIsTrue(s) /\ s \in Scans /\ s.todo = {} /\ s.body # "none"
  BY DEF Inv, Typed, Threads, Done
<1>2. Wanted(s).nics = Nics /\ Wanted(s).as = {"link"}
  BY WantedOf DEF Bodies
<1> QED
  BY <1>1, <1>2 DEF LoopIsTrue

\* The number of any set of interfaces is a number, and grows with the set.
LEMMA Counted ==
    ASSUME NEW T \in SUBSET Nics, NEW S \in SUBSET T
    PROVE  /\ Cardinality(S) \in Nat /\ Cardinality(T) \in Nat
           /\ Cardinality(S) <= Cardinality(T)
<1>1. IsFiniteSet(T)
  BY NicsAssumption, FS_Subset
<1> QED
  BY <1>1, FS_Subset, FS_CardinalityType

\* A loop that counts is ended by Finish, or by an exception.
LEMMA CountEnds ==
    ASSUME Inv, [Next]_vars, scan["agent"].body \in {"start", "refresh"},
           scan'["agent"].body = "none"
    PROVE  Finish("agent") \/ (value' = value /\ ~Done("agent"))
<1> DEFINE s == scan["agent"]
<1> USE DEF Threads
<1>0. s \in Scans /\ scan \in [Threads -> Scans] /\ LoopIsTrue(s)
  BY DEF Inv, Typed
<1>1. CASE Build \/ \E body \in {"start", "refresh"} : Count(body)
  BY <1>0, <1>1 DEF Build, Begin, Count
<1>2. CASE StopAndDestroy \/ UNCHANGED vars
  BY <1>2 DEF StopAndDestroy, vars
<1>3. ASSUME NEW body, NEW path, Ask(body, path) PROVE FALSE
  BY <1>0, <1>3 DEF Ask, Begin
<1>4. ASSUME NEW t \in Threads, NEW n \in Nics, Look(t, n) PROVE FALSE
  BY <1>0, <1>4 DEF Look, Pass, Collect, Scans
<1>5. ASSUME NEW t \in Threads, ReadCarrier(t) PROVE FALSE
  BY <1>0, <1>5 DEF ReadCarrier, EndWith, Pass, Collect, Scans
<1>6. ASSUME NEW t \in Threads, CarrierThrows(t)
      PROVE  value' = value /\ ~Done("agent")
  <2>1. t = "agent"
    BY <1>0, <1>6 DEF CarrierThrows
  <2> QED
    BY <1>0, <1>6, <2>1 DEF CarrierThrows, Done, LoopIsTrue
<1>7. ASSUME NEW t \in Threads, Finish(t) PROVE Finish("agent")
  BY <1>0, <1>7 DEF Finish
<1>8. ASSUME NEW n \in Nics, NEW status \in Statuses, KernelChanges(n, status)
      PROVE  FALSE
  BY <1>0, <1>8 DEF KernelChanges, Scans
<1> QED
  BY <1>1, <1>2, <1>3, <1>4, <1>5, <1>6, <1>7, <1>8 DEF Next, Step

\* What Finish stores.
LEMMA FinishCounts ==
    ASSUME Inv, Finish("agent"), scan["agent"].body \in {"start", "refresh"}
    PROVE  LET s == scan["agent"]
           IN /\ Done("agent") /\ value' \in Nat
              /\ value' = Cardinality(s.found)
              /\ Cardinality({n \in Nics : s.seen[n] = {"link"}}) <= value'
              /\ value' <= Cardinality({n \in Nics : "link" \in s.seen[n]})
<1> DEFINE s == scan["agent"]
<1>1. Done("agent") /\ value' = Cardinality(s.found)
  BY DEF Finish
<1>2. /\ {n \in Nics : s.seen[n] = {"link"}} \in SUBSET s.found
      /\ s.found \in SUBSET {n \in Nics : "link" \in s.seen[n]}
  BY <1>1, FoundBetween
<1>3. s.found \in SUBSET Nics
  BY DEF Inv, Typed, Threads, Scans
<1>4. /\ Cardinality({n \in Nics : s.seen[n] = {"link"}}) <= Cardinality(s.found)
      /\ Cardinality(s.found) <= Cardinality({n \in Nics : "link" \in s.seen[n]})
      /\ Cardinality(s.found) \in Nat
  BY <1>2, <1>3, Counted
<1> QED
  BY <1>1, <1>4

\* However the interfaces change under the loop, the number it ends with lies
\* between what was true throughout and what was true at some time.
THEOREM CountsAreTrue == Spec => CountIsTrue
<1> DEFINE s == scan["agent"]
           Right ==
             s.body \in {"start", "refresh"} /\ scan'["agent"].body = "none" =>
                IF Done("agent")
                  THEN /\ Cardinality({n \in Nics : s.seen[n] = {"link"}}) <= value'
                       /\ value' <= Cardinality({n \in Nics : "link" \in s.seen[n]})
                  ELSE value' = value
<1>1. Inv /\ [Next]_vars => Right
  BY CountEnds, FinishCounts
<1> QED
  BY <1>1, LoopInvariance, PTL DEF Spec, CountIsTrue

\* A loop that ends well while no interface changes counts the links there are.
THEOREM StillCountIsExact ==
    Spec => [][LET s == scan["agent"]
               IN /\ s.body \in {"start", "refresh"} /\ scan'["agent"].body = "none"
                  /\ Done("agent") /\ \A n \in Nics : s.seen[n] = {kernel[n]}
                  => value' = Cardinality({n \in Nics : kernel[n] = "link"})]_vars
<1> DEFINE s == scan["agent"]
           Exact ==
             /\ s.body \in {"start", "refresh"} /\ scan'["agent"].body = "none"
             /\ Done("agent") /\ \A n \in Nics : s.seen[n] = {kernel[n]}
             => value' = Cardinality({n \in Nics : kernel[n] = "link"})
<1>1. Inv /\ [Next]_vars => Exact
  <2> SUFFICES ASSUME Inv, [Next]_vars, s.body \in {"start", "refresh"}, Done("agent"),
                      scan'["agent"].body = "none", \A n \in Nics : s.seen[n] = {kernel[n]}
               PROVE  value' = Cardinality({n \in Nics : kernel[n] = "link"})
    OBVIOUS
  <2>1. Finish("agent")
    BY CountEnds
  <2>2. value' = Cardinality(s.found)
    BY <2>1, FinishCounts
  <2>3. s.found = {n \in Nics : kernel[n] = "link"}
    <3>1. /\ {n \in Nics : s.seen[n] = {"link"}} \subseteq s.found
          /\ s.found \subseteq {n \in Nics : "link" \in s.seen[n]}
      BY FoundBetween
    <3> QED
      BY <3>1
  <2> QED
    BY <2>2, <2>3
<1> QED
  BY <1>1, LoopInvariance, PTL DEF Spec
=============================================================================
