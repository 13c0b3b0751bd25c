----------------------------- MODULE MCFairParts ----------------------------
(***************************************************************************)
(* What the parts beside the cluster do in the end, and what one worker    *)
(* thread amounts to, on small instances: the worker thread of a node      *)
(* (module Workers, extended here), the client, the background traffic and *)
(* the tasks that start and stop clients.  As in MCParts, a behaviour is   *)
(* one of one part, and each part has its own fairness.                    *)
(***************************************************************************)
EXTENDS Workers, TLC

CONSTANTS None, w1, a, b, c

VARIABLE part
-----------------------------------------------------------------------------
(* The worker: the second leader has the first one's first entry and       *)
(* replaces the others.                                                    *)

E(t, x) == [term |-> t, command |-> x]

TwoLeaders == <<<<E(1, a), E(1, b), E(1, b)>>, <<E(1, a), E(2, c)>>>>
TwoLeadersCommit == <<1, 2>>
-----------------------------------------------------------------------------
(* The client with a window of two requests *)

VARIABLES server_ip, in_flight, todo, req, pending, ok, redirect, leader, told, changes,
          disturbed

clientVars == <<server_ip, in_flight, todo, req, pending, ok, redirect, leader, told,
                changes, disturbed>>

Window == INSTANCE Client WITH Server <- {1, 2}, MaxCap <- TRUE, MaxInFlight <- 2,
                               SendFails <- FALSE, MaxNet <- 1, MaxChanges <- 1

ClientInit == Window!Init /\ (part # "window" => server_ip = 1 /\ leader = 1)
-----------------------------------------------------------------------------
(* Background traffic: one connector between two nodes *)

VARIABLES connector, count, expired, listener, accepted, handler, backlog, open, active,
          main

tcpVars == <<connector, count, expired, listener, accepted, handler, backlog, open,
             active, main>>

Sockets == INSTANCE TcpSim WITH Node <- 1..2, Process <- 1..2,
    ProcessOf <- <<1, 2>>, Connector <- {<<1, 2>>}, Local <- FALSE, MaxConn <- 1
-----------------------------------------------------------------------------
(* The tasks that stop the clients they start whatever fails elsewhere: in *)
(* test_petition an exception of the tc command ends the task before.      *)

VARIABLES program, at, experiment, remote, sentkills, local, totals, archive, downloaded,
          failed, faults

tasksVars == <<program, at, experiment, remote, sentkills, local, totals, archive,
               downloaded, failed, faults>>

Stops == INSTANCE Tasks WITH todo <- program, run <- experiment, pending <- sentkills,
    N <- 2, Times <- 1, MaxRuns <- 2, MaxFaults <- 1,
    Invoked <- {"batch_experiments_motivation", "start_clients_remote_collect",
                "start_clients_remote", "start_client_remote"}
-----------------------------------------------------------------------------
FairPartsInit ==
    /\ part \in {"worker", "window", "sockets", "tasks"}
    /\ Init /\ ClientInit /\ Sockets!Init /\ Stops!Init

FairPartsNext ==
    /\ UNCHANGED part
    /\ \/ part = "worker" /\ Next /\ UNCHANGED <<clientVars, tcpVars, tasksVars>>
       \/ part = "window" /\ Window!Next /\ UNCHANGED <<vars, tcpVars, tasksVars>>
       \/ part = "sockets" /\ Sockets!Next /\ UNCHANGED <<vars, clientVars, tasksVars>>
       \/ part = "tasks" /\ Stops!Next /\ UNCHANGED <<vars, clientVars, tcpVars>>

\* Fairness of module Client, for the part that moves
ClientFairness ==
    /\ WF_clientVars(part = "window" /\ Window!ClientStep)
    /\ WF_clientVars(part = "window" /\ Window!Timeout)
    /\ SF_clientVars(part = "window" /\ Window!Receive)
    /\ SF_clientVars(part = "window" /\ \E s \in 1..2 : Window!Serve(s))
    /\ \A s \in 1..2 : WF_clientVars(part = "window" /\ Window!Learn(s))

\* Fairness of module TcpSim
TcpFairness ==
    /\ WF_tcpVars(part = "sockets" /\ Sockets!Expire(<<1, 2>>))
    /\ WF_tcpVars(part = "sockets" /\ Sockets!ConnectorStep(<<1, 2>>))
    /\ \A j \in 1..2 : WF_tcpVars(part = "sockets" /\ Sockets!ListenerStep(j))
    /\ WF_tcpVars(part = "sockets" /\ \E s \in Sockets!InSocket : Sockets!HandlerStep(s))

\* Fairness of module Tasks
TasksFairness ==
    /\ WF_tasksVars(part = "tasks" /\ Stops!Proceed)
    /\ \A h \in 1..2 : WF_tasksVars(part = "tasks" /\ Stops!ExecuteKill(h))

FairPartsSpec ==
    /\ FairPartsInit
    /\ [][FairPartsNext]_<<part, vars, clientVars, tcpVars, tasksVars>>
    /\ ClientFairness /\ TcpFairness /\ TasksFairness
-----------------------------------------------------------------------------
(* Properties, each of the part it is about *)

(* The client never falls silent: again and again one of its requests is   *)
(* outstanding (timeout_cb() starts over after a window was lost).         *)
RequestsFlow == part = "window" => Window!RequestsFlow

(* Once the cluster has a leader for good, the client sends to it, even    *)
(* if servers name themselves, nobody or an old leader for a while, and    *)
(* late responses send the client back (handle_response()).                *)
FollowsLeader == part = "window" => Window!FollowsLeader

\* When the duration of every connector is over, the connections are closed at both
\* ends and the list becomes empty, also when the threads of two nodes, the
\* handlers and an interrupt meet in any order.
AllClosedAtLast == part = "sockets" => Sockets!AllClosedAtLast

\* The client of an experiment is killed in the end, unless something failed on
\* its host: the loops that start and kill clients catch their exceptions, so that
\* one host's failure does not keep the clients of others running.
ClientsStop == part = "tasks" => Stops!ClientsStop
=============================================================================
