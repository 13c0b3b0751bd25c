------------------------------- MODULE TcpSim -------------------------------
(***************************************************************************)
(* The background traffic of scripts/background_tcp_simulation: every node *)
(* keeps a TCP connection to every other node and sends on it until its    *)
(* duration is over (tcp_sim.py: one process per node; local_tcp_sim.py:   *)
(* one process for all).  A node has a listener thread, a connector thread *)
(* per target and a handler thread per accepted connection; the sockets in *)
(* use are kept in the list active_sockets of the process, under a lock.   *)
(***************************************************************************)
EXTENDS Naturals, FiniteSets

CONSTANTS
    Node,
    Process,
    ProcessOf,    \* the process that a node is part of
    Connector,    \* the connector threads, <<from, to>>: one for each pair in the code
    Local,        \* local_tcp_sim.py?
    MaxConn       \* bound: connections a connector makes

\* The two ends of the n-th connection of a connector
Socket == [end : {"out", "in"}, by : Connector, n : 1..MaxConn]

Out(c, n) == [end |-> "out", by |-> c, n |-> n]

Peer(s) == [s EXCEPT !.end = IF @ = "out" THEN "in" ELSE "out"]

Home(s) == ProcessOf[IF s.end = "out" THEN s.by[1] ELSE s.by[2]]

VARIABLES
    connector,    \* what each connector thread does next
    count,        \* connections each connector has made
    expired,      \* connectors whose duration is over
    listener,     \* what each listener thread does next
    accepted,     \* the connection a listener has accepted and not yet listed
    handler,      \* what the handler of each accepted connection does next
    backlog,      \* connections that wait to be accepted
    open,         \* open sockets
    active,       \* active_sockets of all processes
    main          \* what the main thread of each process does next

vars == <<connector, count, expired, listener, accepted, handler, backlog, open, active,
          main>>

InSocket == {s \in Socket : s.end = "in"}

Init ==
    /\ connector = [c \in Connector |-> "outer"]
    /\ count = [c \in Connector |-> 0]
    /\ expired = {}
    /\ listener = [j \in Node |-> "bind"]
    /\ accepted = [j \in Node |-> {}]
    /\ handler = [s \in InSocket |-> "none"]
    /\ backlog = {} /\ open = {} /\ active = {}
    /\ main = [p \in Process |-> "join connectors"]
-----------------------------------------------------------------------------
(* start_tcp_connection *)

Current(c) == Out(c, count[c])

Expire(c) ==
    /\ c \notin expired
    /\ expired' = expired \cup {c}
    /\ UNCHANGED <<connector, count, listener, accepted, handler, backlog, open, active, main>>

\* socket() and connect(): the connection waits in the backlog of the listener.
Connect(c) ==
    /\ connector[c] = "outer" /\ c \notin expired /\ count[c] < MaxConn
    /\ listener[c[2]] \in {"accept", "append"}
    /\ count' = [count EXCEPT ![c] = @ + 1]
    /\ connector' = [connector EXCEPT ![c] = "register"]
    /\ open' = open \cup {Out(c, count'[c]), Peer(Out(c, count'[c]))}
    /\ backlog' = backlog \cup {Peer(Out(c, count'[c]))}
    /\ UNCHANGED <<expired, listener, accepted, handler, active, main>>

\* When the very first socket() fails, the finally clause uses a variable that has
\* no value: the thread dies.  Any other failure is tried again after a pause.
SocketFails(c) ==
    /\ connector[c] = "outer" /\ c \notin expired /\ count[c] = 0
    /\ connector' = [connector EXCEPT ![c] = "dead"]
    /\ UNCHANGED <<count, expired, listener, accepted, handler, backlog, open, active, main>>

Register(c) ==
    /\ connector[c] = "register"
    /\ active' = active \cup {Current(c)}
    /\ connector' = [connector EXCEPT ![c] = "send"]
    /\ UNCHANGED <<count, expired, listener, accepted, handler, backlog, open, main>>

\* Mutant: the inner loop does not look at the time
StopSending_Endless(c) ==
    /\ connector[c] = "send"
    /\ {Current(c), Peer(Current(c))} \cap open # {Current(c), Peer(Current(c))}
    /\ connector' = [connector EXCEPT ![c] = "remove"]
    /\ UNCHANGED <<count, expired, listener, accepted, handler, backlog, open, active, main>>

\* The inner loop ends when sending fails, because either end was closed or the
\* network broke, or when the duration is over.
StopSending(c) ==
    /\ connector[c] = "send"
    /\ \/ {Current(c), Peer(Current(c))} \cap open # {Current(c), Peer(Current(c))}
       \/ count[c] < MaxConn
       \/ c \in expired
    /\ connector' = [connector EXCEPT ![c] = "remove"]
    /\ UNCHANGED <<count, expired, listener, accepted, handler, backlog, open, active, main>>

RemoveOut(c) == active \ {Current(c)}

Remove(c) ==
    /\ connector[c] = "remove"
    /\ active' = RemoveOut(c)
    /\ connector' = [connector EXCEPT ![c] = "close"]
    /\ UNCHANGED <<count, expired, listener, accepted, handler, backlog, open, main>>

Close(c) ==
    /\ connector[c] = "close"
    /\ open' = open \ {Current(c)}
    /\ connector' = [connector EXCEPT ![c] = "outer"]
    /\ UNCHANGED <<count, expired, listener, accepted, handler, backlog, active, main>>

Over(c) == c \in expired

ConnectorEnds(c) ==
    /\ connector[c] = "outer" /\ Over(c)
    /\ connector' = [connector EXCEPT ![c] = "done"]
    /\ UNCHANGED <<count, expired, listener, accepted, handler, backlog, open, active, main>>
-----------------------------------------------------------------------------
(* listen_for_connections *)

Bind(j) ==
    /\ listener[j] = "bind"
    /\ listener' = [listener EXCEPT ![j] = "accept"]
    /\ UNCHANGED <<connector, count, expired, accepted, handler, backlog, open, active, main>>

Accept(j) ==
    /\ listener[j] = "accept"
    /\ \E s \in backlog :
           /\ s.by[2] = j
           /\ backlog' = backlog \ {s}
           /\ accepted' = [accepted EXCEPT ![j] = {s}]
    /\ listener' = [listener EXCEPT ![j] = "append"]
    /\ UNCHANGED <<connector, count, expired, handler, open, active, main>>

\* Mutant: the accepted socket is not listed
ListAccepted_Skips(j) == active

ListAccepted(j) == active \cup accepted[j]

\* The socket is listed and the handler thread is started.
Handle(j) ==
    /\ listener[j] = "append"
    /\ active' = ListAccepted(j)
    /\ handler' = [s \in InSocket |-> IF s \in accepted[j] THEN "recv" ELSE handler[s]]
    /\ accepted' = [accepted EXCEPT ![j] = {}]
    /\ listener' = [listener EXCEPT ![j] = "accept"]
    /\ UNCHANGED <<connector, count, expired, backlog, open, main>>

\* bind() or accept() fails: the "try" is around the whole loop, so the node
\* listens no more and the connections in its backlog are reset.
ListenFails(j) ==
    /\ listener[j] \in {"bind", "accept"}
    /\ listener' = [listener EXCEPT ![j] = "failed"]
    /\ open' = {s \in open : ~ (s \in backlog /\ s.by[2] = j)}
    /\ backlog' = {s \in backlog : s.by[2] # j}
    /\ UNCHANGED <<connector, count, expired, accepted, handler, active, main>>
-----------------------------------------------------------------------------
(* handle_client_connection *)

\* recv() returns nothing once the other end is closed, and raises an exception
\* on a socket that close_all_connections closed.
RecvEnds(s) ==
    /\ handler[s] = "recv"
    /\ {s, Peer(s)} \cap open # {s, Peer(s)}
    /\ handler' = [handler EXCEPT ![s] = "close"]
    /\ UNCHANGED <<connector, count, expired, listener, accepted, backlog, open, active, main>>

HandlerCloses(s) ==
    /\ handler[s] = "close"
    /\ open' = open \ {s}
    /\ handler' = [handler EXCEPT ![s] = "remove"]
    /\ UNCHANGED <<connector, count, expired, listener, accepted, backlog, active, main>>

RemoveIn(s) == active \ {s}

HandlerRemoves(s) ==
    /\ handler[s] = "remove"
    /\ active' = RemoveIn(s)
    /\ handler' = [handler EXCEPT ![s] = "done"]
    /\ UNCHANGED <<connector, count, expired, listener, accepted, backlog, open, main>>
-----------------------------------------------------------------------------
(* main *)

Nodes(p) == {i \in Node : ProcessOf[i] = p}

ConnectorsJoined(p) ==
    /\ main[p] = "join connectors"
    /\ \A c \in Connector : c[1] \in Nodes(p) => connector[c] \in {"done", "dead"}
    /\ main' = [main EXCEPT ![p] = "join listeners"]
    /\ UNCHANGED <<connector, count, expired, listener, accepted, handler, backlog, open, active>>

\* tcp_sim.py ends here, local_tcp_sim.py closes all connections.
ListenersJoined(p) ==
    /\ main[p] = "join listeners"
    /\ \A j \in Nodes(p) : listener[j] = "failed"
    /\ main' = [main EXCEPT ![p] = IF Local THEN "close all" ELSE "exited"]
    /\ UNCHANGED <<connector, count, expired, listener, accepted, handler, backlog, open, active>>

\* Only tcp_sim.py catches the KeyboardInterrupt.
Interrupt(p) ==
    /\ main[p] \in {"join connectors", "join listeners"}
    /\ main' = [main EXCEPT ![p] = IF Local THEN "interrupted" ELSE "close all"]
    /\ UNCHANGED <<connector, count, expired, listener, accepted, handler, backlog, open, active>>

\* The other threads are no daemons: they go on after the main thread has ended.
close_all_connections(p) ==
    /\ main[p] = "close all"
    /\ open' = {s \in open : ~ (s \in active /\ Home(s) = p)}
    /\ active' = {s \in active : Home(s) # p}
    /\ main' = [main EXCEPT ![p] = "exited"]
    /\ UNCHANGED <<connector, count, expired, listener, accepted, handler, backlog>>

ConnectorStep(c) ==
    Connect(c) \/ Register(c) \/ StopSending(c) \/ Remove(c) \/ Close(c) \/ ConnectorEnds(c)

ListenerStep(j) == Bind(j) \/ Accept(j) \/ Handle(j)

HandlerStep(s) == RecvEnds(s) \/ HandlerCloses(s) \/ HandlerRemoves(s)

MainStep(p) == ConnectorsJoined(p) \/ ListenersJoined(p) \/ close_all_connections(p)

Next ==
    \/ \E c \in Connector : ConnectorStep(c) \/ Expire(c) \/ SocketFails(c)
    \/ \E j \in Node : ListenerStep(j) \/ ListenFails(j)
    \/ \E s \in InSocket : HandlerStep(s)
    \/ \E p \in Process : MainStep(p) \/ Interrupt(p)

\* Time passes, and the operating system lets every thread that can go on do so.
Fairness ==
    /\ \A c \in Connector : WF_vars(Expire(c)) /\ WF_vars(ConnectorStep(c))
    /\ \A j \in Node : WF_vars(ListenerStep(j))
    /\ \A s \in InSocket : WF_vars(HandlerStep(s))

Spec == Init /\ [][Next]_vars
FairSpec == Spec /\ Fairness
-----------------------------------------------------------------------------
(* Properties *)

(* Threads, sockets and the list of active sockets stay within their types,
   and a connector holds at most one open socket: start_tcp_connection closes
   one before it opens the next. *)
TcpTypeOK ==
    /\ connector \in [Connector -> {"outer", "register", "send", "remove", "close", "done",
                                    "dead"}]
    /\ count \in [Connector -> 0..MaxConn]
    /\ expired \subseteq Connector
    /\ listener \in [Node -> {"bind", "accept", "append", "failed"}]
    /\ accepted \in [Node -> SUBSET InSocket]
    /\ handler \in [InSocket -> {"none", "recv", "close", "remove", "done"}]
    /\ backlog \subseteq InSocket
    /\ open \subseteq Socket
    /\ \A s, t \in open : s.end = "out" /\ t.end = "out" /\ s.by = t.by => s = t
    /\ active \subseteq Socket
    /\ main \in [Process -> {"join connectors", "join listeners", "close all", "exited",
                             "interrupted"}]

\* A socket in the hands of a thread that is about to list it or has just taken it
\* off the list
InTransit(s) ==
    IF s.end = "out"
    THEN s = Current(s.by) /\ connector[s.by] \in {"register", "close"}
    ELSE s \in backlog \/ s \in accepted[s.by[2]]

\* close_all_connections can find every open socket: one that is not in
\* active_sockets is in the hands of the connector or listener thread that lists it
\* next, or of the connector that closes it next.
OpenIsListed == \A s \in open : s \in active \/ InTransit(s)

\* active_sockets does not grow with every reconnection: what it lists is open,
\* unless the thread in whose hands it is takes it off the list next.
ListedIsOpen ==
    \A s \in active \ open : s.end = "in" /\ handler[s] = "remove"

\* When the duration of every connector is over, the connections are closed at both
\* ends and the list becomes empty, also when the threads of two nodes, the
\* handlers and an interrupt meet in any order.
AllClosedAtLast == <>[](open = {} /\ active = {})
=============================================================================
