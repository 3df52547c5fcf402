--------------------------- MODULE NicAgentProofs ---------------------------
(***************************************************************************)
(* Theorems about the netlink listener as the agents use it, for any set   *)
(* of agents, message types, flags and bounds.                             *)
(***************************************************************************)
EXTENDS NicAgent, TLAPS

\* The part of the state that only the listener's own operations write.
LEMMA OnlyNetLinkWrites ==
    ASSUME [Next]_vars
    PROVE  \/ \E o \in Objects \cup {Me}, m \in MessageTypes \cup {"newlink", "dellink"} :
                 PushBack(o, m) \/ PushBackThrows(o, m)
           \/ \E o \in Objects \cup {Me} : Remove(o)
           \/ UNCHANGED <<listeners, fd, handler, accepted>>
<1>1. CASE StartAsk
  BY <1>1 DEF StartAsk, Ask, netVars
<1>2. CASE StartCompare \/ StartStore \/ StartUpdate \/ StartPublish
  BY <1>2 DEF StartCompare, StartStore, StartUpdate, StartPublish, Compare, Store,
              Update, netVars
<1>3. CASE StartIndex
  BY <1>3 DEF StartIndex, netVars
<1>4. CASE Register("new", "newlink", "del")
  BY <1>4 DEF Register
<1>5. CASE Register("del", "dellink", "on")
  BY <1>5 DEF Register
<1>6. CASE StopAgent
  BY <1>6 DEF StopAgent
<1>7. CASE RefreshAsk
  BY <1>7 DEF RefreshAsk, Ask, netVars
<1>8. CASE RefreshGoesOn \/ RefreshPublish
  BY <1>8 DEF RefreshGoesOn, RefreshPublish, Compare, Store, Update, netVars
<1>9. ASSUME NEW u \in Updaters, RunUpdate(u) \/ EndUpdate(u)
      PROVE  UNCHANGED <<listeners, fd, handler, accepted>>
  BY <1>9 DEF RunUpdate, EndUpdate, netVars
<1>10. CASE HandleEvent(Head(queue)) \/ CallbackStores
  BY <1>10 DEF HandleEvent, Receive, CallbackStores, netVars
<1>11. CASE LinkChanges \/ LinkGoes \/ LinkComes
  BY <1>11 DEF LinkChanges, LinkGoes, LinkComes, Notify
<1>12. ASSUME NEW o \in Others, NEW m \in RouteTypes, OtherStarts(o, m)
       PROVE  PushBack(o, m) \/ PushBackThrows(o, m)
  BY <1>12 DEF OtherStarts
<1>13. ASSUME NEW o \in Others, OtherStops(o)
       PROVE  Remove(o)
  BY <1>13 DEF OtherStops
<1>14. CASE UNCHANGED vars
  BY <1>14 DEF vars, netVars
<1> QED
  BY <1>1, <1>2, <1>3, <1>4, <1>5, <1>6, <1>7, <1>8, <1>9, <1>10, <1>11,
     <1>12, <1>13, <1>14 DEF Next, Others, RouteTypes

\* No socket outlives the last listener and no unbound or closed descriptor is
\* watched, even when socket() or bind() fails halfway through a registration.
THEOREM NoSocketWithoutListener == Spec => []SocketHasListener
<1>1. Init => SocketHasListener
  BY DEF Init, NetInit, SocketHasListener
<1>2. SocketHasListener /\ [Next]_vars => SocketHasListener'
  <2> SUFFICES ASSUME SocketHasListener, [Next]_vars PROVE SocketHasListener'
    OBVIOUS
  <2>1. ASSUME NEW o, NEW m, PushBack(o, m) PROVE SocketHasListener'
    <3>1. handler' => fd' = "bound"
      BY <2>1 DEF PushBack, SocketHasListener
    <3>2. [object |-> o, message |-> m] \in listeners'
      BY <2>1 DEF PushBack
    <3> QED
      BY <3>1, <3>2 DEF SocketHasListener
  <2>2. ASSUME NEW o, NEW m, PushBackThrows(o, m) PROVE SocketHasListener'
    <3>1. fd = "none" /\ handler' = handler
      BY <2>2 DEF PushBackThrows
    <3>2. ~handler
      BY <3>1 DEF SocketHasListener
    <3>3. [object |-> o, message |-> m] \in listeners'
      BY <2>2 DEF PushBackThrows
    <3> QED
      BY <3>1, <3>2, <3>3 DEF SocketHasListener
  <2>3. ASSUME NEW o, Remove(o) PROVE SocketHasListener'
    BY <2>3 DEF Remove, SocketHasListener
  <2>4. CASE UNCHANGED <<listeners, fd, handler, accepted>>
    BY <2>4 DEF SocketHasListener
  <2> QED
    BY <2>1, <2>2, <2>3, <2>4, OnlyNetLinkWrites
<1> QED
  BY <1>1, <1>2, PTL DEF Spec

\* A descriptor is either bound and watched, or was left behind by a bind() that
\* failed: this is all that the test fd != -1 of push_back tells.
OpenIsWatched ==
    \/ fd = "none"
    \/ fd = "bound" /\ handler
    \/ fd = "unbound" /\ ~handler

\* Every registration that returned is heard, whatever other agents do and whether
\* or not bind() may fail, but for the descriptor that a failed bind() leaves open.
THEOREM RegisteredAreHeard == Spec => []RegisteredIsHeard
<1> DEFINE Inv == OpenIsWatched /\ SocketHasListener /\ RegisteredIsHeard
<1>1. Init => Inv
  <2> SUFFICES ASSUME Init PROVE Inv
    OBVIOUS
  <2>1. fd = "none" /\ ~handler /\ accepted = {}
    BY DEF Init, NetInit
  <2>2. RegisteredIsHeard
    BY <2>1, Zenon DEF RegisteredIsHeard
  <2>3. SocketHasListener
    BY <2>1 DEF SocketHasListener
  <2> QED
    BY <2>1, <2>2, <2>3 DEF OpenIsWatched
<1>2. Inv /\ SocketHasListener' /\ [Next]_vars => Inv'
  <2> SUFFICES ASSUME Inv, SocketHasListener', [Next]_vars PROVE Inv'
    OBVIOUS
  <2>1. ASSUME NEW o, NEW m, PushBack(o, m) PROVE Inv'
    BY <2>1 DEF PushBack, OpenIsWatched, RegisteredIsHeard
  <2>2. ASSUME NEW o, NEW m, PushBackThrows(o, m) PROVE Inv'
    <3>1. fd = "none" /\ ~handler /\ ~handler' /\ fd' \in {"none", "unbound"}
      BY <2>2 DEF PushBackThrows, SocketHasListener
    <3>2. accepted = {} /\ accepted' = {}
      BY <2>2, <3>1 DEF PushBackThrows, RegisteredIsHeard
    <3>3. RegisteredIsHeard'
      BY <3>2, Zenon DEF RegisteredIsHeard
    <3> QED
      BY <3>1, <3>3 DEF OpenIsWatched
  <2>3. ASSUME NEW o, Remove(o) PROVE Inv'
    BY <2>3 DEF Remove, OpenIsWatched, RegisteredIsHeard
  <2>4. CASE UNCHANGED <<listeners, fd, handler, accepted>>
    BY <2>4 DEF OpenIsWatched, RegisteredIsHeard
  <2> QED
    BY <2>1, <2>2, <2>3, <2>4, OnlyNetLinkWrites
<1>3. Inv => RegisteredIsHeard
  OBVIOUS
<1> QED
  BY <1>1, <1>2, <1>3, NoSocketWithoutListener, PTL DEF Spec
----------------------------------------------------------------------------
Flags   == 0..FlagsRange - 1
Message == [type: MessageTypes, index: Int, flags: Flags]

\* TypeOK with the types of what it is fed from: the kernel and the queue.
AllTyped ==
    /\ TypeOK
    /\ link \in [index: Int, flags: Flags]
    /\ created \in Int
    /\ queue \in Seq(Message)

LEMMA EmptyQueue == << >> \in Seq(Message)
OBVIOUS

\* However a short is widened, it is a value of unsigned int.
LEMMA ShortIsFlags ==
    ASSUME NEW flags \in Flags
    PROVE  Short(flags) \in Flags /\ Alias(flags) \in Int
<1>1. flags % ShortRange \in 0..ShortRange - 1
  BY NicAssumption DEF Flags
<1>2. ASSUME NEW low \in 0..ShortRange - 1
      PROVE  low \in Flags /\ low + (FlagsRange - ShortRange) \in Flags
  BY NicAssumption DEF Flags
<1> QED
  BY <1>1, <1>2 DEF Short, Alias

Answers == [ok: BOOLEAN, flags: Flags, index: Int,
            next: {"ask", "compare", "store", "update"}, news: BOOLEAN]
Fields  == [index: Int, netlink: BOOLEAN, exist: BOOLEAN, flags: Flags]

\* What refresh() asks and stores.
LEMMA AnswerTyped ==
    ASSUME AllTyped
    PROVE  Answer \in Answers
<1>1. CASE Present
  BY <1>1, ShortIsFlags DEF AllTyped, Answer, Answers
<1>2. CASE ~Present
  <2>1. 0 \in Flags
    BY NicAssumption DEF Flags
  <2>2. Answer = [ok |-> FALSE, flags |-> 0, index |-> -1,
                  next |-> "compare", news |-> FALSE]
    BY <1>2 DEF Answer, Present
  <2> QED
    BY <2>1, <2>2 DEF Answers
<1> QED
  BY <1>1, <1>2

LEMMA ZeroIsFlags ==
    0 \in Flags /\ NoAnswer \in Answers /\ Told \in Answers
    /\ NoAnswer.next = "ask" /\ Told.next = "update"
<1>1. 0 \in Flags
  BY NicAssumption DEF Flags
<1>2. NoAnswer \in Answers
  BY <1>1 DEF NoAnswer, Answers
<1>3. Told \in Answers /\ Told.next = "update"
  BY <1>2 DEF Told, Answers
<1> QED
  BY <1>1, <1>2, <1>3 DEF NoAnswer

LEMMA StoredTyped ==
    ASSUME AllTyped, NEW answer \in Answers
    PROVE  Stored(answer) \in Fields
BY DEF AllTyped, TypeOK, Stored, Flags, Answers, Fields

\* "Nothing is computed" is told from every state.
LEMMA StateTyped ==
    ASSUME NEW i PROVE StateOf(i) \in StateNames /\ StateOf(i) # Nothing
BY DEF StateOf, StateNames, Nothing

\* The kernel's message joins the queue, or is lost.
LEMMA QueuedTyped ==
    ASSUME AllTyped, NEW m \in Message
    PROVE  Queued(m) \in Seq(Message)
BY DEF AllTyped, Queued

\* What TypeOK says of the agent's own fields, and of the states they have.
AgentTyped ==
    /\ intf \in Fields
    /\ pc \in {"off", "probe", "update", "publish", "index", "new", "del", "on"}
    /\ probe \in [Askers -> Answers]
    /\ held \subseteq [flags: Flags, netlink: BOOLEAN]

StateTypes ==
    /\ computed \in [Threads -> StateNames \cup {Nothing}]
    /\ published \in StateNames

KernelTyped == link \in [index: Int, flags: Flags] /\ created \in Int

Typed == queue \in Seq(Message) /\ AgentTyped /\ StateTypes /\ KernelTyped

LEMMA Split == AllTyped <=> NetTypeOK /\ Typed
BY DEF AllTyped, TypeOK, Typed, AgentTyped, StateTypes, KernelTyped, Flags, Fields,
       Answers, Held

\* The two halves of updated(true).
LEMMA ComputeTyped ==
    ASSUME StateTypes, NEW t \in Threads, Compute(t)
    PROVE  /\ StateTypes'
           /\ computed'[t] = StateOf(intf')
           /\ \A u \in Threads \ {t} : computed'[u] = computed[u]
BY StateTyped DEF StateTypes, Compute

LEMMA PublishTyped ==
    ASSUME StateTypes, NEW t \in Threads, Publish(t)
    PROVE  /\ StateTypes'
           /\ published' = computed[t] /\ computed'[t] = Nothing
           /\ \A u \in Threads \ {t} : computed'[u] = computed[u]
BY DEF StateTypes, Publish

\* The steps of refresh() after the ioctl.
LEMMA RefreshTyped ==
    ASSUME AllTyped, NEW t \in Askers, Compare(t) \/ Store(t) \/ Update(t)
    PROVE  /\ intf' \in Fields /\ probe' \in [Askers -> Answers] /\ StateTypes'
           /\ UNCHANGED <<queue, link, created, held>>
<1>1. AgentTyped /\ StateTypes /\ t \in Threads
  BY Split DEF Typed, Threads
<1>2. CASE Compare(t)
  <2>1. [probe[t] EXCEPT !.next = "store", !.news = Differs(probe[t])] \in Answers
    BY <1>1 DEF AgentTyped, Answers, Differs
  <2>2. probe' \in [Askers -> Answers]
    BY <1>1, <1>2, <2>1 DEF Compare, AgentTyped
  <2> QED
    BY <1>1, <1>2, <2>2 DEF Compare, AgentTyped, StateTypes, stateVars, netVars,
                            kernelVars
<1>3. CASE Store(t)
  BY <1>1, <1>3, StoredTyped, ZeroIsFlags
     DEF Store, AgentTyped, StateTypes, netVars, kernelVars
<1>4. CASE Update(t)
  BY <1>1, <1>4, ComputeTyped, ZeroIsFlags
     DEF Update, AgentTyped, netVars, kernelVars
<1> QED
  BY <1>2, <1>3, <1>4

LEMMA ListenerTyped ==
    ASSUME AllTyped, [Next]_vars
    PROVE  NetTypeOK'
<1> USE DEF NetTypeOK, Listener
<1>0. NetTypeOK
  BY DEF AllTyped, TypeOK
<1>1. ASSUME NEW o \in Objects \cup {Me}, NEW m \in MessageTypes \cup {"newlink", "dellink"},
             PushBack(o, m) \/ PushBackThrows(o, m)
      PROVE  NetTypeOK'
  <2>1. [object |-> o, message |-> m] \in Listener
    BY NicAssumption
  <2> QED
    BY <1>0, <1>1, <2>1 DEF PushBack, PushBackThrows
<1>2. ASSUME NEW o, Remove(o) PROVE NetTypeOK'
  BY <1>0, <1>2 DEF Remove
<1>3. CASE UNCHANGED <<listeners, fd, handler, accepted>>
  BY <1>0, <1>3
<1> QED
  BY <1>1, <1>2, <1>3, OnlyNetLinkWrites

LEMMA StepTyped == AllTyped /\ [Next]_vars => AllTyped'
<1> SUFFICES ASSUME AllTyped, [Next]_vars PROVE Typed'
  BY ListenerTyped
     DEF AllTyped, TypeOK, Typed, AgentTyped, StateTypes, KernelTyped, Flags, Fields,
         Answers, Held
<1>0. Typed
  BY Split
<1> USE DEF Typed, kernelVars, stateVars, netVars
<1>1. CASE StartAsk \/ RefreshAsk
  BY <1>0, <1>1, AnswerTyped
     DEF StartAsk, RefreshAsk, Ask, AgentTyped, StateTypes, KernelTyped, Askers
<1>2. CASE StartCompare \/ StartStore \/ StartUpdate \/ RefreshGoesOn
  <2>1. PICK t \in Askers : Compare(t) \/ Store(t) \/ Update(t)
    BY <1>2 DEF StartCompare, StartStore, StartUpdate, RefreshGoesOn, Askers
  <2>2. /\ intf' \in Fields /\ probe' \in [Askers -> Answers] /\ StateTypes'
        /\ UNCHANGED <<queue, link, created, held>>
    BY <2>1, RefreshTyped
  <2>3. pc' \in {"update", "publish", "index", pc}
    BY <1>2 DEF StartCompare, StartStore, StartUpdate, RefreshGoesOn
  <2> QED
    BY <1>0, <2>2, <2>3 DEF AgentTyped, KernelTyped
<1>3. CASE StartPublish \/ RefreshPublish
  <2>1. PICK t \in Threads : Publish(t)
    BY <1>3 DEF StartPublish, RefreshPublish, Threads, Askers
  <2>2. StateTypes'
    BY <1>0, <2>1, PublishTyped
  <2> QED
    BY <1>0, <1>3, <2>2 DEF StartPublish, RefreshPublish, AgentTyped, KernelTyped
<1>4. CASE StartIndex
  BY <1>0, <1>4 DEF StartIndex, AgentTyped, StateTypes, KernelTyped, Fields
<1>5. CASE Register("new", "newlink", "del") \/ Register("del", "dellink", "on")
  BY <1>0, <1>5
     DEF Register, PushBack, PushBackThrows, AgentTyped, StateTypes, KernelTyped
<1>6. CASE StopAgent
  <2>1. queue' \in {queue, <<>>}
    BY <1>6 DEF StopAgent, Remove
  <2>2. queue' \in Seq(Message)
    BY <1>0, <2>1, EmptyQueue
  <2> QED
    BY <1>0, <1>6, <2>2 DEF StopAgent, AgentTyped, StateTypes, KernelTyped
<1>7. ASSUME NEW u \in Updaters, RunUpdate(u) \/ EndUpdate(u) PROVE Typed'
  <2>1. u \in Threads
    BY DEF Threads
  <2>2. Compute(u) \/ Publish(u)
    BY <1>7 DEF RunUpdate, EndUpdate
  <2>3. StateTypes'
    BY <1>0, <2>1, <2>2, ComputeTyped, PublishTyped
  <2> QED
    BY <1>0, <1>7, <2>3 DEF RunUpdate, EndUpdate, AgentTyped, KernelTyped
<1>8. CASE queue # <<>> /\ HandleEvent(Head(queue))
  <2> DEFINE m == Head(queue)
  <2>1. m \in Message /\ queue' \in Seq(Message)
    BY <1>0, <1>8 DEF HandleEvent, Receive
  <2>2. \/ NewLink(m) \/ DelLink(m) \/ UNCHANGED <<intf, held>>
    BY <1>8 DEF HandleEvent
  <2> HIDE DEF m
  <2>3. intf' \in Fields
    BY <1>0, <2>1, <2>2 DEF NewLink, DelLink, AgentTyped, Message, Fields
  <2>4. \A netlink \in BOOLEAN : [flags |-> m.flags, netlink |-> netlink]
                                   \in [flags: Flags, netlink: BOOLEAN]
    BY <2>1 DEF Message
  <2>5. held' \subseteq [flags: Flags, netlink: BOOLEAN]
    BY <1>0, <2>2, <2>4 DEF NewLink, DelLink, AgentTyped
  <2> QED
    BY <1>0, <1>8, <2>1, <2>3, <2>5
       DEF HandleEvent, AgentTyped, StateTypes, KernelTyped
<1>15. CASE CallbackStores
  <2>1. PICK new \in held :
           intf' = [intf EXCEPT !.flags = new.flags, !.netlink = new.netlink]
    BY <1>15 DEF CallbackStores
  <2>2. intf' \in Fields
    BY <1>0, <2>1 DEF AgentTyped, Fields
  <2> QED
    BY <1>0, <1>15, <2>2 DEF CallbackStores, AgentTyped, StateTypes, KernelTyped
<1>9. ASSUME NEW type \in {"newlink", "dellink"}, NEW index \in Int, NEW flags \in Flags,
             Notify(type, index, flags), KernelTyped'
      PROVE  Typed'
  <2>1. [type |-> type, index |-> index, flags |-> flags] \in Message
    BY NicAssumption DEF Message
  <2> QED
    BY <1>0, <1>9, <2>1, QueuedTyped DEF Notify, AgentTyped, StateTypes
<1>10. CASE LinkChanges
  <2>1. PICK flags \in LinkFlags : link' = [link EXCEPT !.flags = flags] /\
                                   Notify("newlink", link.index, flags) /\ created' = created
    BY <1>10 DEF LinkChanges
  <2>2. flags \in Flags
    BY NicAssumption DEF Flags
  <2> QED
    BY <1>0, <1>9, <2>1, <2>2 DEF KernelTyped
<1>11. CASE LinkGoes
  BY <1>0, <1>9, <1>11, ZeroIsFlags DEF LinkGoes, KernelTyped
<1>12. CASE LinkComes
  <2>1. PICK flags \in LinkFlags : link' = [index |-> created + 1, flags |-> flags] /\
                                   Notify("newlink", created + 1, flags) /\ created' = created + 1
    BY <1>12 DEF LinkComes
  <2>2. flags \in Flags
    BY NicAssumption DEF Flags
  <2> QED
    BY <1>0, <1>9, <2>1, <2>2 DEF KernelTyped
<1>13. ASSUME NEW o, NEW m, OtherStarts(o, m) \/ OtherStops(o) PROVE Typed'
  <2>1. queue' \in {queue, <<>>}
    BY <1>13 DEF OtherStarts, OtherStops, PushBack, PushBackThrows, Remove
  <2>2. UNCHANGED <<link, created, intf, pc, probe, held, computed, published>>
    BY <1>13 DEF OtherStarts, OtherStops, nicVars
  <2>3. queue' \in Seq(Message)
    BY <1>0, <2>1, EmptyQueue
  <2> QED
    BY <1>0, <2>2, <2>3 DEF AgentTyped, StateTypes, KernelTyped
<1>14. CASE UNCHANGED vars
  BY <1>0, <1>14 DEF vars, nicVars, AgentTyped, StateTypes, KernelTyped
<1> QED
  BY <1>1, <1>2, <1>3, <1>4, <1>5, <1>6, <1>7, <1>8, <1>10, <1>11, <1>12, <1>13, <1>14,
     <1>15 DEF Next

LEMMA InitTyped == Init => AllTyped
<1> SUFFICES ASSUME Init PROVE NetTypeOK /\ Typed
  BY Split
<1>1. LinkFlags \subseteq Flags /\ 0 \in Flags /\ NoAnswer \in Answers
  BY NicAssumption, ZeroIsFlags DEF Flags
<1>2. KernelTyped
  BY <1>1 DEF Init, KernelTyped
<1>3. NetTypeOK /\ queue \in Seq(Message)
  BY EmptyQueue DEF Init, NetInit, NetTypeOK
<1>4. AgentTyped
  BY <1>1 DEF Init, AgentTyped, NoLink, Fields
<1>5. StateTypes
  BY DEF Init, StateTypes, StateNames
<1> QED
  BY <1>2, <1>3, <1>4, <1>5 DEF Typed

LEMMA TypeInvariance == Spec => []AllTyped
BY InitTyped, StepTyped, PTL DEF Spec

\* Type correctness: in particular the flags keep to an unsigned int, though they
\* come from a short that is widened with its sign.
THEOREM TypeCorrect == Spec => []TypeOK
<1>1. AllTyped => TypeOK
  BY DEF AllTyped
<1> QED
  BY <1>1, TypeInvariance, PTL
----------------------------------------------------------------------------
(***************************************************************************)
(* The state shown and the fields it is computed from.                     *)
(***************************************************************************)

\* Before the first refresh() of start() is stored, nothing else writes the agent.
FirstIsNews ==
    Unborn =>
        /\ intf = NoLink
        /\ ~pushed /\ held = {}
        /\ \A l \in listeners : l.object # Me
        /\ pc \in {"off", "probe"} /\ (starts = 0 => pc = "off")
        /\ probe["refresh"] = NoAnswer
        /\ pc = "off" => probe["start"] = NoAnswer
        /\ pc = "probe" =>
              /\ probe["start"].ok \/ probe["start"].index = -1
              /\ probe["start"].next \in {"compare", "store"}
              /\ probe["start"].next = "store" => probe["start"].news
        /\ \A t \in Threads : computed[t] = Nothing

\* Every state that has been computed is the one to show now.
Fresh ==
    /\ \A t \in Threads : computed[t] \in {Nothing, StateOf(intf)}
    /\ \/ published = StateOf(intf)
       \/ \E t \in Threads : computed[t] # Nothing

\* starts is a number.
DueInv == UpdateIsDue /\ FirstIsNews /\ starts \in Nat

\* Computing in one thread: fresh, or overtaking another.
LEMMA ComputeIsDue ==
    ASSUME StateTypes, NEW t \in Threads, Compute(t)
    PROVE  raced' \/ Fresh'
<1>1. /\ computed'[t] = StateOf(intf') /\ StateOf(intf') # Nothing
      /\ \A u \in Threads \ {t} : computed'[u] = computed[u]
  BY ComputeTyped, StateTyped
<1>2. raced' <=> \E u \in Threads \ {t} : computed[u] \notin {Nothing, StateOf(intf')}
  BY DEF Compute
<1> QED
  BY <1>1, <1>2 DEF Fresh

LEMMA PublishIsDue ==
    ASSUME StateTypes, Fresh, NEW t \in Threads, Publish(t), StateOf(intf') = StateOf(intf)
    PROVE  Fresh'
<1>1. /\ published' = computed[t] /\ computed'[t] = Nothing /\ computed[t] # Nothing
      /\ \A u \in Threads \ {t} : computed'[u] = computed[u]
  BY PublishTyped DEF Publish
<1> QED
  BY <1>1 DEF Fresh

\* A state does not depend on the index.
LEMMA IndexIsNotState ==
    ASSUME NEW i \in Fields, NEW index PROVE StateOf([i EXCEPT !.index = index]) = StateOf(i)
BY DEF StateOf, Fields

\* What refresh() is told first is news.
LEMMA FirstDiffers ==
    ASSUME DueInv, pc = "probe", Unborn
    PROVE  Differs(probe["start"])
BY DEF DueInv, FirstIsNews, Differs, NoLink

\* A refresh() that has found news is returning.
Returning == \E t \in Askers : probe[t].next = "update"

\* A step that leaves the state of the fields, and the states computed, alone.
LEMMA IdleIsDue ==
    ASSUME DueInv, StateOf(intf') = StateOf(intf), UNCHANGED stateVars,
           pushed => pushed', Returning => Returning',
           Unborn => Unborn', FirstIsNews', starts' \in Nat
    PROVE  DueInv'
BY DEF DueInv, UpdateIsDue, stateVars, Returning

\* A step that computes a state from the fields it leaves.
LEMMA ComputedIsDue ==
    ASSUME StateTypes, NEW t \in Threads, Compute(t), FirstIsNews', starts' \in Nat
    PROVE  DueInv'
BY ComputeIsDue DEF DueInv, UpdateIsDue, Fresh

\* A step that stores a state.
LEMMA PublishedIsDue ==
    ASSUME DueInv, StateTypes, NEW t \in Threads, Publish(t),
           UNCHANGED <<intf, pushed, probe>>,
           Unborn => Unborn', FirstIsNews', starts' \in Nat
    PROVE  DueInv'
<1>1. CASE Fresh
  BY <1>1, PublishIsDue DEF DueInv, UpdateIsDue, Fresh
<1>2. CASE ~Fresh
  BY <1>2 DEF DueInv, UpdateIsDue, Fresh, Publish
<1> QED
  BY <1>1, <1>2

\* refresh() compares, stores and, when it has found news, computes.
LEMMA CompareIsDue ==
    ASSUME AllTyped, DueInv, NEW t \in Askers, Compare(t), UNCHANGED pc
    PROVE  DueInv'
<1>1. probe \in [Askers -> Answers] /\ intf \in Fields
  BY Split DEF Typed, AgentTyped
<1>2. /\ probe[t].next = "compare"
      /\ probe' = [probe EXCEPT ![t] =
                      [probe[t] EXCEPT !.next = "store", !.news = Differs(probe[t])]]
      /\ UNCHANGED <<listeners, intf, held, pushed, starts, stateVars>>
  BY DEF Compare, netVars
<1>3. Returning => Returning'
  BY <1>1, <1>2 DEF Returning
<1>4. FirstIsNews'
  <2>1. CASE Unborn
    <3>1. t = "start" /\ pc = "probe"
      BY <1>2, <2>1 DEF DueInv, FirstIsNews, Askers, NoAnswer
    <3>2. Differs(probe[t])
      BY <2>1, <3>1, FirstDiffers
    <3>3. /\ probe'[t].next = "store" /\ probe'[t].news
          /\ probe'[t].ok = probe[t].ok /\ probe'[t].index = probe[t].index
      BY <1>1, <1>2, <3>2 DEF Answers
    <3>4. probe'["refresh"] = probe["refresh"]
      BY <1>1, <1>2, <3>1 DEF Askers
    <3> QED
      BY <1>2, <2>1, <3>1, <3>3, <3>4 DEF DueInv, FirstIsNews, Unborn, stateVars
  <2>2. CASE ~Unborn
    BY <1>2, <2>2 DEF FirstIsNews, Unborn
  <2> QED
    BY <2>1, <2>2
<1> QED
  BY <1>2, <1>3, <1>4, IdleIsDue DEF DueInv, Unborn

LEMMA StoreIsDue ==
    ASSUME AllTyped, DueInv, NEW t \in Askers, Store(t), ~Unborn',
           Unborn => probe[t].news
    PROVE  DueInv'
<1>1. probe \in [Askers -> Answers] /\ probe[t].next = "store"
  BY Split DEF Typed, AgentTyped, Store
<1>2. FirstIsNews' /\ starts' \in Nat /\ pushed' = pushed
      /\ UNCHANGED <<computed, published>>
  BY DEF FirstIsNews, DueInv, Store
<1>3. CASE probe[t].news
  <2>1. probe'[t] = Told
    BY <1>1, <1>3 DEF Store
  <2>2. probe'[t].next = "update"
    BY <2>1, ZeroIsFlags
  <2> QED
    BY <1>2, <2>2 DEF DueInv, UpdateIsDue
<1>4. CASE ~probe[t].news
  <2>1. \A u \in Askers : probe[u].next = "update" => probe'[u] = probe[u]
    BY <1>1 DEF Store
  <2>2. ~Unborn
    BY <1>4
  <2>3. raced' <=> raced \/ StateOf(intf') # StateOf(intf)
    BY <1>4 DEF Store
  <2>4. CASE StateOf(intf') # StateOf(intf)
    BY <1>2, <2>3, <2>4 DEF DueInv, UpdateIsDue
  <2>5. CASE StateOf(intf') = StateOf(intf)
    <3>1. (raced => raced') /\ ((\E u \in Askers : probe[u].next = "update") =>
             \E u \in Askers : probe'[u].next = "update")
      BY <2>1, <2>3
    <3>2. UpdateIsDue'
      BY <1>2, <2>2, <2>5, <3>1 DEF DueInv, UpdateIsDue
    <3> QED
      BY <1>2, <3>2 DEF DueInv
  <2> QED
    BY <2>4, <2>5
<1> QED
  BY <1>3, <1>4

LEMMA UpdatedIsDue ==
    ASSUME AllTyped, DueInv, NEW t \in Askers, Update(t), ~Unborn'
    PROVE  DueInv'
<1>1. StateTypes /\ t \in Threads /\ Compute(t) /\ starts' = starts
  BY Split DEF Typed, Threads, Update
<1> QED
  BY <1>1, ComputedIsDue DEF FirstIsNews, DueInv

\* A netlink callback only stores the index before it holds what differs...
LEMMA CallbackIsDue ==
    ASSUME AllTyped, DueInv, NEW m, HandleEvent(m)
    PROVE  DueInv'
<1>1. /\ UNCHANGED <<pc, probe, pushed, starts, stateVars, listeners>>
      /\ Unborn' <=> Unborn
  BY DEF HandleEvent, Receive, Unborn
<1>2. StateOf(intf') = StateOf(intf)
  <2>1. intf \in Fields
    BY Split DEF Typed, AgentTyped
  <2>2. intf' = intf \/ \E index : intf' = [intf EXCEPT !.index = index]
    BY DEF HandleEvent, NewLink, DelLink
  <2> QED
    BY <2>1, <2>2, IndexIsNotState
<1>3. FirstIsNews'
  <2>1. CASE Unborn
    <3>1. Me \notin Called(m.type)
      BY <2>1 DEF DueInv, FirstIsNews, Called
    <3>2. UNCHANGED <<intf, held>>
      BY <3>1 DEF HandleEvent
    <3> QED
      BY <1>1, <2>1, <3>2 DEF DueInv, FirstIsNews, stateVars
  <2>2. CASE ~Unborn
    BY <1>1, <2>2 DEF FirstIsNews
  <2> QED
    BY <2>1, <2>2
<1> QED
  BY <1>1, <1>2, <1>3, IdleIsDue DEF DueInv, Returning

\* ... and pushes an update with what it held.
LEMMA HeldIsDue ==
    ASSUME DueInv, CallbackStores
    PROVE  DueInv'
<1>1. pushed' /\ held # {} /\ UNCHANGED <<starts, pc>>
  BY DEF CallbackStores
<1>2. ~Unborn /\ ~Unborn'
  BY <1>1 DEF DueInv, FirstIsNews, Unborn
<1> QED
  BY <1>1, <1>2 DEF DueInv, UpdateIsDue, FirstIsNews

LEMMA NextIsDue == AllTyped /\ DueInv /\ [Next]_vars => DueInv'
<1> SUFFICES ASSUME AllTyped, DueInv, [Next]_vars PROVE DueInv'
  OBVIOUS
<1>0. StateTypes /\ AgentTyped
  BY Split DEF Typed
<1> USE DEF kernelVars, netVars
<1>1. CASE StartAsk
  <2>1. probe' = [probe EXCEPT !["start"] = Answer] /\ Answer.next = "compare"
        /\ probe \in [Askers -> Answers] /\ "start" \in Askers
        /\ probe["start"] = NoAnswer
    BY <1>0, <1>1 DEF StartAsk, Ask, Answer, AgentTyped, Askers
  <2>2. probe'["start"] = Answer /\ \A t \in Askers \ {"start"} : probe'[t] = probe[t]
    BY <2>1
  <2>3. Answer.ok \/ Answer.index = -1
    BY DEF Answer
  <2>4. "refresh" \in Askers \ {"start"}
    BY DEF Askers
  <2>5. FirstIsNews'
    BY <1>1, <2>1, <2>2, <2>3, <2>4
       DEF StartAsk, Ask, DueInv, FirstIsNews, Unborn, stateVars
  <2>6. Unborn => Unborn'
    BY <1>1 DEF StartAsk, DueInv, FirstIsNews, Unborn
  <2>7. Returning => Returning'
    BY <2>1, <2>2, ZeroIsFlags DEF Returning
  <2> QED
    BY <1>1, <2>5, <2>6, <2>7, IdleIsDue DEF StartAsk, Ask, DueInv
<1>2. CASE StartCompare \/ (Compare("refresh") /\ UNCHANGED pc)
  <2>1. \E t \in Askers : Compare(t) /\ UNCHANGED pc
    BY <1>2 DEF StartCompare, Askers
  <2> QED
    BY <2>1, CompareIsDue
<1>3. CASE StartStore
  <2>1. ~Unborn' /\ "start" \in Askers /\ Store("start")
    <3>1. starts # 0 /\ starts' = starts /\ pc' # "probe"
      BY <1>3, ZeroIsFlags DEF StartStore, Store, DueInv, FirstIsNews, Unborn
    <3> QED
      BY <1>3, <3>1 DEF StartStore, Unborn, Askers
  <2>2. Unborn => probe["start"].news
    BY <1>3, ZeroIsFlags DEF StartStore, Store, DueInv, FirstIsNews
  <2> QED
    BY <2>1, <2>2, StoreIsDue
<1>14. CASE Store("refresh") /\ UNCHANGED pc
  <2>1. ~Unborn /\ ~Unborn' /\ "refresh" \in Askers
    BY <1>14, ZeroIsFlags DEF Store, Unborn, DueInv, FirstIsNews, Askers
  <2> QED
    BY <1>14, <2>1, StoreIsDue
<1>15. CASE StartUpdate \/ (Update("refresh") /\ UNCHANGED pc)
  <2>1. PICK t \in Askers : Update(t)
    BY <1>15 DEF StartUpdate, Askers
  <2>2. probe[t].next = "update" /\ starts' = starts
    BY <2>1 DEF Update
  <2>3. ~Unborn
    BY <2>2, ZeroIsFlags DEF DueInv, FirstIsNews, Askers
  <2>4. ~Unborn'
    BY <1>15, <2>2, <2>3 DEF StartUpdate, Unborn
  <2> QED
    BY <2>1, <2>4, UpdatedIsDue
<1>4. CASE StartPublish \/ RefreshPublish \/ \E u \in Updaters : EndUpdate(u)
  <2>1. PICK t \in Threads : Publish(t)
    BY <1>4 DEF StartPublish, RefreshPublish, EndUpdate, Threads, Askers
  <2>2. UNCHANGED <<intf, pushed, probe, starts>> /\ computed[t] # Nothing
    BY <1>4, <2>1 DEF StartPublish, RefreshPublish, EndUpdate, Publish
  <2>3. ~Unborn /\ ~Unborn'
    BY <1>4, <2>2 DEF StartPublish, RefreshPublish, EndUpdate, DueInv, FirstIsNews, Unborn
  <2>4. FirstIsNews'
    BY <2>3 DEF FirstIsNews
  <2> QED
    BY <1>0, <2>1, <2>2, <2>3, <2>4, PublishedIsDue DEF DueInv
<1>5. ASSUME NEW u \in Updaters, RunUpdate(u) PROVE DueInv'
  <2>1. u \in Threads /\ Compute(u) /\ UNCHANGED <<starts, pc>> /\ pushed
    BY <1>5 DEF RunUpdate, Threads
  <2>2. FirstIsNews' /\ starts' \in Nat
    BY <2>1 DEF DueInv, FirstIsNews, Unborn
  <2> QED
    BY <1>0, <2>1, <2>2, ComputedIsDue
<1>6. CASE StartIndex
  <2>1. ~Unborn /\ ~Unborn' /\ StateOf(intf') = StateOf(intf)
        /\ UNCHANGED <<pushed, probe, starts, stateVars>>
    BY <1>0, <1>6, IndexIsNotState
       DEF StartIndex, DueInv, FirstIsNews, Unborn, AgentTyped
  <2> QED
    BY <2>1, IdleIsDue DEF DueInv, FirstIsNews, Returning
<1>7. CASE Register("new", "newlink", "del") \/ Register("del", "dellink", "on")
  <2>1. ~Unborn /\ ~Unborn'
    BY <1>7 DEF Register, DueInv, FirstIsNews, Unborn
  <2> QED
    BY <1>7, <2>1, IdleIsDue DEF Register, DueInv, FirstIsNews, Returning
<1>8. CASE StopAgent
  <2>1. Unborn' <=> Unborn
    BY <1>8 DEF StopAgent, Unborn, DueInv, FirstIsNews
  <2>2. FirstIsNews'
    BY <1>8, <2>1 DEF StopAgent, Remove, DueInv, FirstIsNews, stateVars
  <2> QED
    BY <1>8, <2>1, <2>2, IdleIsDue DEF StopAgent, DueInv, Returning
<1>9. CASE RefreshAsk
  <2>1. ~Unborn /\ ~Unborn' /\ UNCHANGED <<intf, pushed, starts, stateVars>>
    BY <1>9 DEF RefreshAsk, Ask, DueInv, FirstIsNews, Unborn
  <2>2. \A t \in Askers : probe[t].next = "update" => probe'[t] = probe[t]
    BY <1>0, <1>9, ZeroIsFlags DEF RefreshAsk, Ask, AgentTyped
  <2> QED
    BY <2>1, <2>2, IdleIsDue DEF DueInv, FirstIsNews, Returning
<1>10. CASE HandleEvent(Head(queue)) \/ CallbackStores
  BY <1>10, CallbackIsDue, HeldIsDue
<1>11. CASE LinkChanges \/ LinkGoes \/ LinkComes
  <2>1. UNCHANGED <<intf, pc, probe, held, pushed, starts, stateVars, listeners>>
    BY <1>11 DEF LinkChanges, LinkGoes, LinkComes, Notify
  <2>2. FirstIsNews' /\ (Unborn' <=> Unborn)
    BY <2>1 DEF DueInv, FirstIsNews, Unborn, stateVars
  <2> QED
    BY <2>1, <2>2, IdleIsDue DEF DueInv, Returning
<1>12. ASSUME NEW o \in Others, NEW m, OtherStarts(o, m) \/ OtherStops(o)
       PROVE  DueInv'
  <2>1. UNCHANGED <<intf, pc, probe, held, pushed, starts, stateVars>>
    BY <1>12 DEF OtherStarts, OtherStops, nicVars
  <2>2. \A l \in listeners' : l \in listeners \/ l.object # Me
    BY <1>12 DEF OtherStarts, OtherStops, PushBack, PushBackThrows, Remove, Others
  <2>3. FirstIsNews' /\ (Unborn' <=> Unborn)
    BY <2>1, <2>2 DEF DueInv, FirstIsNews, Unborn, stateVars
  <2> QED
    BY <2>1, <2>3, IdleIsDue DEF DueInv, Returning
<1>13. CASE UNCHANGED vars
  <2>1. UNCHANGED <<intf, pc, probe, held, pushed, starts, stateVars, listeners>>
    BY <1>13 DEF vars, nicVars
  <2>2. FirstIsNews' /\ (Unborn' <=> Unborn)
    BY <2>1 DEF DueInv, FirstIsNews, Unborn, stateVars
  <2> QED
    BY <2>1, <2>2, IdleIsDue DEF DueInv, Returning
<1>16. CASE RefreshGoesOn
  BY <1>2, <1>14, <1>15, <1>16 DEF RefreshGoesOn
<1>17. CASE queue # <<>> /\ HandleEvent(Head(queue))
  BY <1>10, <1>17
<1> QED
  BY <1>1, <1>2, <1>3, <1>4, <1>5, <1>6, <1>7, <1>8, <1>9, <1>10, <1>11, <1>12, <1>13,
     <1>15, <1>16, <1>17 DEF Next

\* Though fields are compared, stored and read without a lock, a state shown that is
\* not that of the fields is about to be replaced, but for two races: updates that
\* overlap, and a refresh() that stores what it found to be nothing new after
\* another thread has written the fields.
THEOREM UpdatesAreDue == Spec => []UpdateIsDue
<1>1. Init => DueInv
  BY NicAssumption DEF Init, NetInit, DueInv, UpdateIsDue, FirstIsNews, Unborn, Askers
<1>2. DueInv => UpdateIsDue
  BY DEF DueInv
<1> QED
  BY <1>1, <1>2, NextIsDue, TypeInvariance, PTL DEF Spec
=============================================================================
