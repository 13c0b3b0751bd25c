------------------------------- MODULE MCParts ------------------------------
(***************************************************************************)
(* The safety of the parts beside the cluster, on small instances: the     *)
(* test's dumps (module Dumps, extended here), the remote tasks, the local *)
(* processes, the ZooKeeper experiments, the background traffic, the       *)
(* client, the worker threads of a node, and the scripts that read logs.   *)
(* The parts share no state while they run: they meet in files, which are  *)
(* the inputs of the modules about scripts.  A behaviour therefore is one  *)
(* of one part, chosen at the start; all other parts stay as they are.     *)
(***************************************************************************)
EXTENDS Dumps, FiniteSetsExt, TLC

CONSTANTS None, NoLeader, w1, w2

VARIABLE part
-----------------------------------------------------------------------------
(* scripts/tasks.py *)

VARIABLES program, at, experiment, remote, pending, local, totals, archive, downloaded,
          failed, faults

tasksVars == <<program, at, experiment, remote, pending, local, totals, archive,
               downloaded, failed, faults>>

\* The tasks that start servers and clients and collect throughput
Throughput ==
    {"batch_experiments_motivation", "start_clients_remote_collect",
     "start_clients_remote", "start_client_remote", "test_petition"}

\* The tasks that count timeouts and weigh detection times
Timeouts ==
    {"sum_remote_timeouts", "sum_remote_detect", "batch_sum_remote_timeouts",
     "batch_sum_remote_detect"}

\* The tasks that start and stop servers and fetch their logs
ServerLogs ==
    {"start_remote_default", "start_remote_default_with_client",
     "run_multiple_experiments", "automate_exp", "killall_remote",
     "download_multi_logs", "count_leader", "analyze_logs_false_pos", "get_results"}

Collect == INSTANCE Tasks WITH todo <- program, run <- experiment, N <- 2, Invoked <- Throughput,
                               Times <- 2, MaxRuns <- 3, MaxFaults <- 1
Sums == INSTANCE Tasks WITH todo <- program, run <- experiment, N <- 2, Invoked <- Timeouts,
                            Times <- 2, MaxRuns <- 3, MaxFaults <- 1
Servers == INSTANCE Tasks WITH todo <- program, run <- experiment, N <- 2, Invoked <- ServerLogs,
                               Times <- 2, MaxRuns <- 2, MaxFaults <- 1

TasksNext ==
    \/ part = "collect" /\ Collect!Next
    \/ part = "sums" /\ Sums!Next
    \/ part = "servers" /\ Servers!Next
-----------------------------------------------------------------------------
(* local/fabfile.py: two replicas and two clients, stopped before started  *)

VARIABLES session, processes, starting, live, started

procsVars == <<session, processes, starting, live, started>>

Procs == INSTANCE LocalProcs WITH Replicas <- 2, NClients <- 2, MaxProcs <- 5,
                                  Disciplined <- TRUE
-----------------------------------------------------------------------------
(* zookeeper_setup.py: three nodes, two switches with one link each        *)

VARIABLES plan, step, rest, round, point, sweep, polled, delay, ensemble, zkleader,
          zklogs, clock, windows, copies, plot, made, result, steady, unstarted, zkfaults

zkVars == <<plan, step, rest, round, point, sweep, polled, delay, ensemble, zkleader,
            zklogs, clock, windows, copies, plot, made, result, steady, unstarted,
            zkfaults>>

NoLinks == [n \in 0..2 |-> <<>>]
OneLinkEach == [n \in 0..2 |-> <<"a">>]
TwoSwitches == <<<<"switch", 1, "a">>, <<"switch", 4, "a">>>>

\* The sweeps over leaders that set delays on the switches
Labels == INSTANCE ZooKeeper WITH pc <- step, todo <- rest, run <- sweep, seen <- polled,
    up <- ensemble, leader <- zkleader, logs <- zklogs, faults <- zkfaults,
    NodeSeq <- <<0, 1, 2>>, SwitchLinks <- TwoSwitches, NodeLinks <- NoLinks,
    Invoked <- {"leader", "threads", "comprehensive", "main"}, Leaders <- <<1, 2>>, Lats <- <<2>>,
    Runs <- 1, MaxClock <- 0, MaxFaults <- 0

\* The sweeps that set delays on the nodes, too
Links == INSTANCE ZooKeeper WITH pc <- step, todo <- rest, run <- sweep, seen <- polled,
    up <- ensemble, leader <- zkleader, logs <- zklogs, faults <- zkfaults,
    NodeSeq <- <<0, 1, 2>>, SwitchLinks <- TwoSwitches, NodeLinks <- OneLinkEach,
    Invoked <- {"readwrite", "once", "boot"}, Leaders <- <<1>>,
    Lats <- <<2>>, Runs <- 1, MaxClock <- 0, MaxFaults <- 1

\* The runs whose quorum sizes are counted: two of them, ...
Quorums == INSTANCE ZooKeeper WITH pc <- step, todo <- rest, run <- sweep, seen <- polled,
    up <- ensemble, leader <- zkleader, logs <- zklogs, faults <- zkfaults,
    NodeSeq <- <<0, 1>>, SwitchLinks <- TwoSwitches, NodeLinks <- NoLinks,
    Invoked <- {"quorum"}, Leaders <- <<1>>, Lats <- <<2>>, Runs <- 2,
    MaxClock <- 4, MaxFaults <- 0

\* ... and two experiments of one run, the second of which may miss its download
Stale == INSTANCE ZooKeeper WITH pc <- step, todo <- rest, run <- sweep, seen <- polled,
    up <- ensemble, leader <- zkleader, logs <- zklogs, faults <- zkfaults,
    NodeSeq <- <<0, 1>>, SwitchLinks <- TwoSwitches, NodeLinks <- NoLinks,
    Invoked <- {"quorum"}, Leaders <- <<1>>, Lats <- <<2>>, Runs <- 1,
    MaxClock <- 2, MaxFaults <- 1

ZkInit ==
    CASE part = "labels" -> Labels!Init
      [] part = "links" -> Links!Init
      [] part = "quorums" -> Quorums!Init
      [] part = "stale" -> Stale!Init
      [] OTHER -> zkleader = 0 /\ Labels!Init

ZkNext ==
    \/ part = "labels" /\ Labels!Next
    \/ part = "links" /\ Links!Next
    \/ part = "quorums" /\ Quorums!Next
    \/ part = "stale" /\ Stale!Next
-----------------------------------------------------------------------------
(* Background traffic: two nodes in two processes, or in one               *)

VARIABLES connector, count, expired, listener, accepted, handler, backlog, open, active,
          main

tcpVars == <<connector, count, expired, listener, accepted, handler, backlog, open,
             active, main>>

Sockets == INSTANCE TcpSim WITH Node <- 1..2, Process <- 1..2,
    ProcessOf <- <<1, 2>>, Connector <- {<<1, 2>>}, Local <- FALSE, MaxConn <- 2
LocalSockets == INSTANCE TcpSim WITH Node <- 1..2, Process <- {1},
    ProcessOf <- <<1, 1>>, Connector <- {<<1, 2>>, <<2, 1>>}, Local <- TRUE, MaxConn <- 1

TcpInit == IF part = "local sockets" THEN LocalSockets!Init ELSE Sockets!Init

TcpNext ==
    \/ part = "sockets" /\ Sockets!Next
    \/ part = "local sockets" /\ LocalSockets!Next
-----------------------------------------------------------------------------
(* The client with a window of two requests, and the worker threads        *)

VARIABLES server_ip, in_flight, todo, req, waiting, ok, redirect, leader, told, changes,
          disturbed

clientVars == <<server_ip, in_flight, todo, req, waiting, ok, redirect, leader, told,
                changes, disturbed>>

\* Under one leader there is room for all requests; while it changes, only for one.
Window == INSTANCE Client WITH pending <- waiting, Server <- {1, 2}, MaxCap <- TRUE,
    MaxInFlight <- 2, SendFails <- TRUE, MaxNet <- 2, MaxChanges <- 0
Redirected == INSTANCE Client WITH pending <- waiting, Server <- {1, 2}, MaxCap <- TRUE,
    MaxInFlight <- 2, SendFails <- TRUE, MaxNet <- 1, MaxChanges <- 1
FixedRate == INSTANCE Client WITH pending <- waiting, Server <- {1, 2}, MaxCap <- FALSE,
    MaxInFlight <- 1, SendFails <- TRUE, MaxNet <- 1, MaxChanges <- 1

ClientInit ==
    /\ IF part = "fixed rate" THEN FixedRate!Init ELSE Window!Init
    /\ part \notin {"window", "redirected", "fixed rate"} => server_ip = 1 /\ leader = 1

ClientNext ==
    \/ part = "window" /\ Window!Next
    \/ part = "redirected" /\ Redirected!Next
    \/ part = "fixed rate" /\ FixedRate!Next

VARIABLES current_term, entries, commitIndex, responses, taken, wpc, msg, pos, limit,
          timeouts, start

threadsVars == <<current_term, entries, commitIndex, responses, taken, wpc, msg, pos,
                 limit, timeouts, start>>

Threads == INSTANCE Workers WITH log <- entries, pc <- wpc, Worker <- {w1, w2},
    Command <- {"a", "b"},
    LeaderLog <- <<<<[term |-> 1, command |-> "a"], [term |-> 1, command |-> "b"]>>>>,
    LeaderCommit <- <<2>>, Preempts <- TRUE, MaxMessages <- 2, MaxTimeouts <- 0
-----------------------------------------------------------------------------
(* The scripts that read one log *)

VARIABLES lines, plotted, extracted, failures, analysed

viewsVars == <<lines, plotted, extracted, failures, analysed>>

Roles == INSTANCE Views WITH log <- lines, Terms <- {1}, Ids <- {1}, Elapsed <- {0, 1},
                             Cutoff <- 1, MaxLines <- 4
ByTerm == INSTANCE Views WITH log <- lines, Terms <- {1, 2}, Ids <- {1, 2},
                             Elapsed <- {0, 1}, Cutoff <- 1, MaxLines <- 3

ViewsNext ==
    \/ part = "roles" /\ Roles!Next
    \/ part = "terms" /\ ByTerm!Next

VARIABLE timed

Timing == INSTANCE Windows WITH log <- timed, Values <- {1}, Elapsed <- {0, 1, 2},
                                SkipFirst <- 1, SkipLast <- 1, MaxLines <- 3
-----------------------------------------------------------------------------
(* The scripts that read the logs of several nodes or clients              *)

VARIABLES now, clients, resp

clientLogsVars == <<now, clients, resp>>

Sections == INSTANCE ClientLogs WITH log <- clients, Hosts <- {1}, Leader <- {1, 2},
    Latencies <- {1}, Kinds <- {"begin", "end", "success", "failure", "other"},
    Elapsed <- {0, 1}, Tick <- 1, Trim <- 1, MaxLines <- 4
Merged == INSTANCE ClientLogs WITH log <- clients, Hosts <- {1, 2}, Leader <- {1},
    Latencies <- {1}, Kinds <- {"success"}, Elapsed <- {1, 2}, Tick <- 2,
    Trim <- 1, MaxLines <- 6
Weighted == INSTANCE ClientLogs WITH log <- clients, Hosts <- {1, 2}, Leader <- {1},
    Latencies <- {1, 4}, Kinds <- {"success"}, Elapsed <- {0, 1, 2}, Tick <- 1,
    Trim <- 1, MaxLines <- 4

ClientLogsInit ==
    CASE part = "merged" -> Merged!Init
      [] part = "weighted" -> Weighted!Init
      [] OTHER -> Sections!Init

ClientLogsNext ==
    \/ part = "sections" /\ Sections!Next
    \/ part = "merged" /\ Merged!Next
    \/ part = "weighted" /\ Weighted!Next

VARIABLES logs, term, sent, seen

termLogsVars == <<logs, term, sent, seen>>

Leads == INSTANCE TermLogs WITH Node <- {"n0", "n1", "n2"}, Mapped <- {"n0", "n1"},
    Terms <- 1..3, LeaderOf <- <<"n0", "n1", "n0">>, Ranked <- {}, WarmUp <- 1, MaxBeats <- 2, MaxLines <- 3
Ranks == INSTANCE TermLogs WITH Node <- {"n0", "n2"}, Mapped <- {"n0"},
    Terms <- {1}, LeaderOf <- <<"n0">>, Ranked <- {"n0", "n2"}, WarmUp <- 1, MaxBeats <- 1, MaxLines <- 3

TermLogsInit == IF part = "ranks" THEN Ranks!Init ELSE Leads!Init

TermLogsNext ==
    \/ part = "leads" /\ Leads!Next
    \/ part = "ranks" /\ Ranks!Next
-----------------------------------------------------------------------------
(* The scripts that read a directory of YCSB outputs *)

VARIABLE files

Regular(nodes, thds, runs) ==
    [kind : {"regular"}, node : nodes, lat : {1}, thd : thds, run : runs]

\* Groups of two runs, two settings, both types of a key, two thread counts and two
\* read ratios of two leaders
AllNames ==
    Regular({0, 1}, {1}, {1, 2}) \cup Regular({0}, {2}, {1})
        \cup [kind : {"triple", "quorum"}, node : {0}, lat : {1}, thd : {1}, run : {1}]
        \cup [kind : {"threads"}, node : {0, 1}, lat : {1}, thd : {33, 34}]
        \cup [kind : {"pareto"}, node : {0, 1}, mean : {1}, read : {1, 2}]

OneName == [kind : {"threads"}, node : {0}, lat : {1}, thd : {34}]

Overall(v) == [section |-> "OVERALL", value |-> v]
Update(v) == [section |-> "UPDATE", value |-> v]

\* Two runs that differ in both values, and one that ended early
ThreeOutputs == {<<Overall(1), Update(2)>>, <<Overall(2), Update(1)>>, <<Overall(1)>>}

\* Every output of at most two lines, 0 being the value of a line that was cut off
AllOutputs ==
    UNION {[1..k -> [section : {"OVERALL", "READ", "UPDATE"}, value : 0..2]] : k \in 0..2}

Groups == INSTANCE Ycsb WITH Names <- AllNames, Values <- {1, 2},
                             Outputs <- ThreeOutputs, MaxFiles <- 2
Parsers == INSTANCE Ycsb WITH Names <- OneName, Values <- {1, 2},
                              Outputs <- AllOutputs, MaxFiles <- 1

YcsbNext ==
    \/ part = "groups" /\ Groups!Next
    \/ part = "parsers" /\ Parsers!Next
-----------------------------------------------------------------------------
(* One part takes its steps *)

Parts == {"dumps", "collect", "sums", "servers", "processes", "labels", "links",
          "quorums", "stale", "sockets", "local sockets", "window", "redirected", "fixed rate",
          "threads", "roles", "terms", "timing", "sections", "merged", "weighted", "leads",
          "ranks", "groups", "parsers"}

PartsInit ==
    /\ part \in Parts
    /\ Init /\ Collect!Init /\ Procs!Init /\ ZkInit /\ TcpInit
    /\ ClientInit /\ Threads!Init
    /\ Roles!Init /\ Timing!Init /\ ClientLogsInit /\ TermLogsInit /\ Groups!Init

Others(moving) ==
    /\ UNCHANGED part
    /\ IF moving = "dumps" THEN TRUE ELSE UNCHANGED vars
    /\ IF moving = "tasks" THEN TRUE ELSE UNCHANGED tasksVars
    /\ IF moving = "processes" THEN TRUE ELSE UNCHANGED procsVars
    /\ IF moving = "zookeeper" THEN TRUE ELSE UNCHANGED zkVars
    /\ IF moving = "tcp" THEN TRUE ELSE UNCHANGED tcpVars
    /\ IF moving = "client" THEN TRUE ELSE UNCHANGED clientVars
    /\ IF moving = "threads" THEN TRUE ELSE UNCHANGED threadsVars
    /\ IF moving = "views" THEN TRUE ELSE UNCHANGED viewsVars
    /\ IF moving = "timing" THEN TRUE ELSE UNCHANGED timed
    /\ IF moving = "client logs" THEN TRUE ELSE UNCHANGED clientLogsVars
    /\ IF moving = "term logs" THEN TRUE ELSE UNCHANGED termLogsVars
    /\ IF moving = "ycsb" THEN TRUE ELSE UNCHANGED files

PartsNext ==
    \/ part = "dumps" /\ Next /\ Others("dumps")
    \/ TasksNext /\ Others("tasks")
    \/ part = "processes" /\ Procs!Next /\ Others("processes")
    \/ ZkNext /\ Others("zookeeper")
    \/ TcpNext /\ Others("tcp")
    \/ ClientNext /\ Others("client")
    \/ part = "threads" /\ Threads!Next /\ Others("threads")
    \/ ViewsNext /\ Others("views")
    \/ part = "timing" /\ Timing!Next /\ Others("timing")
    \/ ClientLogsNext /\ Others("client logs")
    \/ TermLogsNext /\ Others("term logs")
    \/ YcsbNext /\ Others("ycsb")

partsVars == <<part, vars, tasksVars, procsVars, zkVars, tcpVars, clientVars,
               threadsVars, viewsVars, timed, clientLogsVars, termLogsVars, files>>

PartsSpec == PartsInit /\ [][PartsNext]_partsVars
-----------------------------------------------------------------------------
(* Properties, each of the part it is about *)

(* The state of every part stays within its types and bounds: no loop over hosts,
   replicas or runs goes past its end (tasks.py, zookeeper_setup.py), a connector of
   tcp_sim.py holds at most one open socket, the client's counter stays between 0 and
   its window whatever late, failed or redirected responses do to it, and no view or
   section has more heartbeats or answers than the log it was read from. *)
PartsTypeOK ==
    /\ part = "dumps" => DumpsTypeOK
    /\ part = "servers" => Servers!TasksTypeOK
    /\ part = "processes" => Procs!LocalTypeOK
    /\ part = "links" => Links!ZkTypeOK
    /\ part = "sockets" => Sockets!TcpTypeOK
    /\ part = "window" => Window!ClientTypeOK
    /\ part = "redirected" => Redirected!ClientTypeOK
    /\ part = "fixed rate" => FixedRate!ClientTypeOK
    /\ part = "threads" => Threads!WorkersTypeOK
    /\ part = "roles" => Roles!ViewsTypeOK
    /\ part = "terms" => ByTerm!ViewsTypeOK
    /\ part = "sections" => Sections!ClientLogsTypeOK
    /\ part = "ranks" => Ranks!TermLogsTypeOK

\* Whatever failed or was aborted before, processes of two experiments never meet:
\* the servers on all hosts are of one experiment, because start_remote and
\* start_remote_default stop the old ones on every host before they start a new one
\* on any, no host runs two clients that write into one client_remote.log, and while
\* a local session lasts, status reports every server and no replica has two.
ProcessesOfOneRun ==
    /\ part = "servers" => Servers!ServersOfOneRun
    /\ part = "collect" => Collect!OneClientPerHost
    /\ part = "processes" => Procs!StatusIsComplete

\* A failure on one host never reaches the results of another one, and what
\* earlier invocations left behind never replaces a result: every host without
\* a failed iteration has in the archive exactly the result of this experiment.
\* Without any failure all of them are in the merged result.
FaultsStayLocal ==
    /\ part = "collect" => Collect!FaultsStayLocal
    /\ part = "sums" => Sums!FaultsStayLocal

\* What was merged or summed up is what the archive holds: no result of an
\* earlier experiment is filed with the files of this one.
SummedIsArchived ==
    /\ part = "collect" => Collect!SummedIsArchived
    /\ part = "sums" => Sums!SummedIsArchived

\* stop: "Stops all running leader_election processes."
StopStopsAll == Procs!StopStopsAll

\* The name of an output file tells what was measured.  Unless the ensemble dropped
\* the leader after designate_leader had seen it lead, the workload ran on the node
\* in the name; and the links of the switches had the latency in the name, whatever
\* an experiment that was aborted half way left on them.
ResultsMatchLabel ==
    /\ part = "labels" => Labels!LabelIsLeader /\ Labels!DelayMatchesLabel
    /\ part = "links" => Links!LabelIsLeader

\* A workload runs with a server down only when a start command for this server
\* failed or run_once stopped it: designate_leader starts all it has killed.
DegradedOnlyByFailedStart ==
    /\ part = "labels" => Labels!DegradedOnlyByFailedStart
    /\ part = "links" => Links!DegradedOnlyByFailedStart
    /\ part = "quorums" => Quorums!DegradedOnlyByFailedStart
    /\ part = "stale" => Stale!DegradedOnlyByFailedStart

\* A quorum plot counts no line that the workload of another run caused, though
\* all runs of a leader share one log that is downloaded after the last of them.
CountsAreOfTheRun ==
    /\ part = "quorums" => Quorums!CountsAreOfTheRun
    /\ part = "stale" => Stale!CountsAreOfTheRun

\* active_sockets lists the open sockets, so that close_all_connections finds them
\* all and the list does not grow with every reconnection; a socket for which this
\* fails is in the hands of a thread whose next step puts it right.
ListIsExact ==
    /\ part = "sockets" => Sockets!OpenIsListed /\ Sockets!ListedIsOpen
    /\ part = "local sockets" => LocalSockets!OpenIsListed /\ LocalSockets!ListedIsOpen

(* As long as the client has met only successful responses, and nothing    *)
(* was lost, its counter is the number of requests that really are on      *)
(* their way, in the leader's log or being answered (the increment in      *)
(* send_request() and the decrement in handle_response() pair up).         *)
CountIsExact ==
    /\ part = "window" => Window!CountIsExact
    /\ part = "redirected" => Redirected!CountIsExact

(* Whatever the threads do while one leader sends entries of one term, a   *)
(* response never claims more of the log than the node holds (match_index  *)
(* in handle_append_entries counts entries instead of reading the log).    *)
ClaimedIsHeld == part = "threads" => Threads!ClaimedIsHeld

(* Threads that append the same entries of one term can only push an entry *)
(* behind its place, never in front of it, and they bring in nothing that  *)
(* the leader did not send (one leader; handle_append_entries).            *)
ShiftedOnlyBack == part = "threads" => Threads!ShiftedOnlyBack

\* The scripts that cut a server's log into views agree with the log and with each
\* other: the views of parse_plot_log.py leave no gap and together have the
\* heartbeats logged since the first began, extract_failure.py finds the same views
\* and prints the count it plots, and those of analysis.py are the longest runs of
\* heartbeats of one term and role.
ViewsAreExact ==
    /\ part = "roles" => /\ Roles!ViewsCoverLog /\ Roles!HeartbeatsConserved
                         /\ Roles!SameViews
    /\ part = "terms" => ByTerm!PrintedIsPlotted /\ ByTerm!TermViewsAreRuns

\* What the readers of detection times take is what the server logged: the two
\* scripts on the servers cut the same window out of a log, and the notebook's parser,
\* unless it has raised an exception, has every failure with the term of the election
\* right before it (election_match outlives its line).
DetectionsAreExact ==
    part = "timing" => Timing!SamplesAreWindow /\ Timing!FailuresFollowElections

\* analyze_resp_time.py attributes every commit to the section it was logged in, and
\* every moment between two lines to the section they lie in, whether sections end
\* with a marker, with the next section or with the log; the samples per leader are
\* together those of the whole log, each once.
SectionsAreExact ==
    part = "sections" => Sections!SectionsAreExact /\ Sections!LatenciesAreSplit

\* The numbers for all clients follow from those of each: the combined throughput of
\* a second is the number of commits that all clients logged in this second and in
\* their window, and the weighted average latency of sum_all_clients.py lies between
\* the smallest and the largest of the hosts it could parse.
CombinedIsExact ==
    /\ part = "merged" => Merged!ThroughputIsExact
    /\ part = "weighted" => Weighted!WeightedIsBetween

\* In whatever order the directory lists the files, election_analysis.py gives each
\* term its leader ("first writer wins" is harmless because a term has one), and
\* counts the first ranks as rank_analysis.py does.
FilesInAnyOrder ==
    /\ part = "leads" => Leads!TermLeaderIsLeader
    /\ part = "ranks" => Ranks!RanksAgree

\* length_analysis.py names the right leader of every term in every file, and no
\* follower's file makes a term longer than its leader's file does.
LengthsAreBounded == part = "leads" => Leads!LengthsAreBounded

\* The scripts that compare YCSB results agree where they overlap, in every order of
\* the files: the bars of ycsb_compare.py are the regular bars of ycsb_compare_both.py,
\* the gaps of ycsb_thread_analysis.py are determined, a plotted setting has each of
\* its files once, and both parsers read a file alike, also one that was cut off.
ComparisonsAgree ==
    /\ part = "groups" => /\ Groups!RegularBarsAgree /\ Groups!GapsAreDetermined
                          /\ Groups!ProfilesAreComplete
    /\ part = "parsers" => Parsers!ParsersAgree
=============================================================================
