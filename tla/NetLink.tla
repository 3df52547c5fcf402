------------------------------- MODULE NetLink -------------------------------
(***************************************************************************)
(* NetLink::Controller (netlink.cc): one netlink socket, watched by the    *)
(* main loop, shared by the agents that listen to link and route messages. *)
(*                                                                         *)
(* The order of the list only orders callbacks of different agents, and a  *)
(* second registration of the same pair would only repeat a callback, so   *)
(* the list is a set.  Agents are started and stopped in the main loop's   *)
(* thread: handle_event walks the list without the mutex, and a remove()   *)
(* from another thread meanwhile would be a data race, left out here.      *)
(***************************************************************************)
EXTENDS Integers, Sequences

CONSTANTS
    Objects,      \* the agents that register listeners
    MessageTypes, \* RTM_NEWLINK, RTM_DELLINK, RTM_NEWROUTE, ...
    BindMayFail,  \* bind() can refuse the address (nl_pid already in use)
    MaxQueue      \* bound: messages the kernel keeps for the socket

ASSUME BindAssumption == BindMayFail \in BOOLEAN

VARIABLES
    listeners,  \* Controller::listeners
    fd,         \* Handler::values.fd: "none" (-1), "unbound" or "bound"
    handler,    \* MainLoop::Handler is enabled
    queue,      \* messages in the socket, oldest first
    accepted    \* registrations that returned without an exception: history

netVars == <<listeners, fd, handler, queue, accepted>>

Listener == [object: Objects, message: MessageTypes]

NetInit ==
    /\ listeners = {}
    /\ fd = "none"
    /\ handler = FALSE
    /\ queue = <<>>
    /\ accepted = {}

----------------------------------------------------------------------------
\* push_back, up to its return: the watcher already had a socket, which is all
\* that is tested, or gets one.
PushBack(o, m) ==
    /\ listeners' = listeners \cup {[object |-> o, message |-> m]}
    /\ accepted' = accepted \cup {[object |-> o, message |-> m]}
    /\ \/ fd # "none" /\ UNCHANGED <<fd, handler>>
       \/ fd = "none" /\ fd' = "bound" /\ handler' = TRUE
    /\ UNCHANGED queue

\* push_back throws: the listener was stored before socket() or bind() failed,
\* and a socket that could not be bound stays open.
PushBackThrows(o, m) ==
    /\ fd = "none"
    /\ listeners' = listeners \cup {[object |-> o, message |-> m]}
    /\ \/ fd' = "none"
       \/ BindMayFail /\ fd' = "unbound"
    /\ UNCHANGED <<handler, queue, accepted>>

\* Mutant of remove(): the socket is closed whoever still listens.
Remove_ClosesAlways(o) ==
    /\ listeners' = {l \in listeners : l.object # o}
    /\ accepted' = {l \in accepted : l.object # o}
    /\ fd' = "none" /\ handler' = FALSE /\ queue' = <<>>

\* Mutant of remove(): the socket is left open.
Remove_KeepsSocket(o) ==
    /\ listeners' = {l \in listeners : l.object # o}
    /\ accepted' = {l \in accepted : l.object # o}
    /\ UNCHANGED <<fd, handler, queue>>

\* remove: every listener of the object, then the socket if none is left.
Remove(o) ==
    /\ listeners' = {l \in listeners : l.object # o}
    /\ accepted' = {l \in accepted : l.object # o}
    /\ IF listeners' = {}
         THEN fd' = "none" /\ handler' = FALSE /\ queue' = <<>>
         ELSE UNCHANGED <<fd, handler, queue>>

\* What the kernel leaves in the queue of a bound socket; when the queue is full
\* the message is lost, and recvmsg will fail once with ENOBUFS.
Queued(message) ==
    IF fd = "bound" /\ Len(queue) < MaxQueue THEN Append(queue, message)
                                             ELSE queue

\* handle_event takes the oldest message; the caller runs the callbacks.
Receive(message) ==
    /\ handler /\ queue # <<>>
    /\ message = Head(queue)
    /\ queue' = Tail(queue)
    /\ UNCHANGED <<listeners, fd, handler, accepted>>

\* The agents that handle_event calls for a message.
Called(type) == {o \in Objects : [object |-> o, message |-> type] \in listeners}

----------------------------------------------------------------------------
NetTypeOK ==
    /\ listeners \subseteq Listener
    /\ accepted \subseteq Listener
    /\ fd \in {"none", "unbound", "bound"}
    /\ handler \in BOOLEAN

\* A listener that was registered is in the list, and the socket it waits on is
\* bound and watched, whatever other agents register, fail to register or remove.
\* A bind() that failed is the exception: the descriptor it leaves open is taken
\* for a socket by the registrations after it, until the last listener goes.
RegisteredIsHeard ==
    \A l \in accepted :
        l \in listeners /\ \/ fd = "bound" /\ handler
                           \/ fd = "unbound" /\ ~handler

\* No socket outlives the last listener, and the main loop never watches a
\* descriptor that is closed or not bound.
SocketHasListener ==
    /\ fd # "none" => listeners # {}
    /\ handler => fd = "bound"
=============================================================================
