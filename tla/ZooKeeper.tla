------------------------------ MODULE ZooKeeper -----------------------------
(***************************************************************************)
(* The ZooKeeper experiments of scripts/zookeeper_setup.py.  The script    *)
(* puts delays on the links of the switches, forces a chosen node to       *)
(* become the leader of the ensemble, runs YCSB workloads and files the    *)
(* outcome under a name made of the leader, the latency and the run.       *)
(*                                                                         *)
(* The script does one remote command per step.  The ensemble goes on by   *)
(* itself between two of them: it elects a leader, loses it, logs quorums. *)
(* A remote command may fail; what the code does then depends on whether   *)
(* the call stands in a "try".                                             *)
(***************************************************************************)
EXTENDS Integers, Sequences, FiniteSets, SequencesExt

CONSTANTS
    NodeSeq,      \* the nodes of fattree.yaml, in order
    SwitchLinks,  \* the interfaces of the switches, in order: <<"switch", id, name>>
    NodeLinks,    \* the interfaces of each node, in order
    None,
    Invoked,      \* the experiments the user may run
    Leaders,      \* the leaders of an experiment, in order
    Lats,         \* latencies of an experiment, in order
    Runs,         \* workloads for each latency
    MaxClock,     \* bound: no quorum line and no experiment begins later
    MaxFaults     \* bound: commands that fail

ZkNode == ToSet(NodeSeq)

LinksOf(n) == [i \in 1..Len(NodeLinks[n]) |-> <<"node", n, NodeLinks[n][i]>>]

AllNodeLinks == FlattenSeq([i \in 1..Len(NodeSeq) |-> LinksOf(NodeSeq[i])])

Link == ToSet(SwitchLinks) \cup ToSet(AllNodeLinks)

VARIABLES
    plan,         \* the experiment: what its code iterates over
    pc,           \* the step of the script
    todo,         \* what is left of the loop the script is in
    round,        \* index of node_id in plan.leaders
    point,        \* index of lat in plan.lats
    run,          \* number of the run
    seen,         \* leader_node_id of the last get_leader
    delay,        \* netem delay on each link, 0 for none
    up,           \* nodes whose ZooKeeper server runs
    leader,       \* the leader of the ensemble, or None
    logs,         \* quorum lines in the log of each node
    clock,        \* the time, advanced by every event that is stamped
    windows,      \* leader_experiments
    copies,       \* the local copy of each node's log
    plot,         \* the last quorum plot: its title and the lines counted
    made,         \* the YCSB output on the leader
    result,       \* the last YCSB output downloaded
    steady,       \* history: the leader that designate_leader saw last still leads
    unstarted,    \* history: nodes whose start failed, or that were stopped for good
    faults        \* commands that failed

script == <<plan, round, point, run>>
ensemble == <<up, leader, logs>>
records == <<windows, copies, plot>>
vars == <<script, pc, todo, seen, delay, ensemble, clock, records, made, result,
          steady, unstarted, faults>>

NoPlan == [kind |-> "none", clear |-> <<>>, leaders |-> <<None>>, lats |-> <<0>>,
           setup |-> <<>>, runs |-> 0]

NoPlot == [title |-> 0, lines |-> {}]

Init ==
    /\ plan = NoPlan /\ pc = "idle" /\ todo = <<>>
    /\ round = 1 /\ point = 1 /\ run = 1
    /\ seen = None
    /\ delay = [l \in Link |-> 0]
    /\ up = ZkNode
    /\ leader \in ZkNode
    /\ logs = [n \in ZkNode |-> {}]
    /\ clock = 0
    /\ windows = <<>> /\ copies = [n \in ZkNode |-> {}] /\ plot = NoPlot
    /\ made = None /\ result = None
    /\ steady = FALSE /\ unstarted = {} /\ faults = 0
-----------------------------------------------------------------------------
(* The ensemble, as far as the script relies on it *)

HasQuorum(nodes) == 2 * Cardinality(nodes) > Cardinality(ZkNode)

Elect(n) ==
    /\ leader = None /\ n \in up /\ HasQuorum(up)
    /\ leader' = n
    /\ UNCHANGED <<script, pc, todo, seen, delay, up, logs, clock, records, made,
                   result, steady, unstarted, faults>>

\* The followers no longer hear the leader in time.
StepDown ==
    /\ leader # None
    /\ leader' = None
    /\ steady' = FALSE
    /\ UNCHANGED <<script, pc, todo, seen, delay, up, logs, clock, records, made,
                   result, unstarted, faults>>

\* The workload of varying_leader_quorum_exp that is running, known by its start
Workload == IF pc = "ycsb" /\ windows # <<>> THEN Last(windows).from ELSE 0

\* "All quorums present in synced leader tracker", logged by the leader
LogQuorum ==
    /\ leader # None
    /\ clock < MaxClock
    /\ clock' = clock + 1
    /\ logs' = [logs EXCEPT ![leader] = @ \cup
                   {[at |-> clock', of |-> Workload]}]
    /\ UNCHANGED <<script, pc, todo, seen, delay, up, leader, records, made, result,
                   steady, unstarted, faults>>

ServerStops(n) ==
    /\ up' = up \ {n}
    /\ leader' = IF leader = n \/ ~HasQuorum(up') THEN None ELSE leader
    /\ steady' = (steady /\ leader' # None)
-----------------------------------------------------------------------------
(* Control *)

NodeId == plan.leaders[round]
Lat == plan.lats[point]

Loop(step, items) == pc' = step /\ todo' = items

GoIdle == Loop("idle", <<>>)

\* get_leader begins: leader_node_id = None
PollFor(step) == Loop(step, NodeSeq) /\ seen' = None

\* Only varying_leader_quorum_exp reads the clock before a run.
BeginRun ==
    IF plan.kind = "quorum" THEN Loop("start time", <<>>) /\ UNCHANGED seen
    ELSE PollFor("poll")

EnterPoint(k) ==
    /\ point' = k /\ run' = 1
    /\ IF plan.lats[k] = 0 THEN BeginRun
       ELSE Loop("setup", plan.setup) /\ UNCHANGED seen

\* The next node_id, if there is one
EndRound ==
    IF round < Len(plan.leaders)
    THEN /\ round' = round + 1 /\ point' = 1 /\ run' = 1
         /\ windows' = <<>> /\ steady' = FALSE
         /\ Loop("clear", plan.clear)
    ELSE GoIdle /\ UNCHANGED <<round, point, run, windows, steady>>

MoreRuns == run < plan.runs

\* After a workload: the next run, the next latency, or what follows the last one
NextRun ==
    /\ pc = "next"
    /\ IF MoreRuns
       THEN run' = run + 1 /\ BeginRun /\ UNCHANGED <<round, point, windows, steady>>
       ELSE IF point < Len(plan.lats)
       THEN EnterPoint(point + 1) /\ UNCHANGED <<round, windows, steady>>
       ELSE IF plan.kind \in {"quorum", "once"}
       THEN /\ Loop(IF plan.kind = "quorum" THEN "download" ELSE "stop all", NodeSeq)
            /\ UNCHANGED <<round, point, run, windows, seen, steady>>
       ELSE EndRound /\ UNCHANGED seen
    /\ UNCHANGED <<plan, delay, ensemble, clock, copies, plot, made, result, unstarted,
                   faults>>

\* An exception that nobody catches ends the script.
Fail == faults < MaxFaults /\ faults' = faults + 1
Abort ==
    /\ Fail
    /\ GoIdle
    /\ UNCHANGED <<script, seen, clock, records>>

\* A for loop goes on with its next item, or leaves.
GoOn == todo' = Tail(todo) /\ UNCHANGED pc
-----------------------------------------------------------------------------
(* The experiments *)

SwitchPlan(kind, leaders, lats, runs) ==
    [kind |-> kind, clear |-> SwitchLinks, leaders |-> leaders, lats |-> lats,
     setup |-> SwitchLinks, runs |-> runs]

varying_leader_exp == SwitchPlan("leader", Leaders, <<0>> \o Lats, Runs)

varying_leader_quorum_exp == SwitchPlan("quorum", Leaders, Lats, Runs)

varying_thread_count_exp(l, lat) == SwitchPlan("threads", <<l>>, <<lat>>, Runs)

\* clear_all_weights clears the links of the nodes, not those of the switches.
varying_read_write_exp ==
    [kind |-> "readwrite", clear |-> AllNodeLinks, leaders |-> <<Last(NodeSeq)>>,
     lats |-> <<3>>, setup |-> LinksOf(Last(NodeSeq)), runs |-> Runs]

comprehensive_exp(lat) ==
    [kind |-> "comprehensive", clear |-> <<>>, leaders |-> <<None>>, lats |-> <<lat>>,
     setup |-> AllNodeLinks, runs |-> Runs]

\* The main program: delays only
main(lat) == SwitchPlan("main", <<None>>, <<lat>>, 0)

run_once ==
    [kind |-> "once", clear |-> <<>>, leaders |-> <<None>>, lats |-> <<0>>,
     setup |-> <<>>, runs |-> 1]

start_zookeeper_server == [run_once EXCEPT !.kind = "boot"]

PlansOf(kind) ==
    CASE kind = "leader" -> {varying_leader_exp}
      [] kind = "quorum" -> {varying_leader_quorum_exp}
      [] kind = "threads" ->
           {varying_thread_count_exp(l, lat) : l \in ToSet(Leaders), lat \in ToSet(<<0>> \o Lats)}
      [] kind = "readwrite" -> {varying_read_write_exp}
      [] kind = "comprehensive" -> {comprehensive_exp(lat) : lat \in ToSet(Lats)}
      [] kind = "main" -> {main(lat) : lat \in ToSet(Lats)}
      [] kind = "once" -> {run_once}
      [] kind = "boot" -> {start_zookeeper_server}

Begin(kind) ==
    /\ pc = "idle" /\ clock <= MaxClock
    /\ plan' \in PlansOf(kind)
    /\ round' = 1 /\ point' = 1 /\ run' = 1 /\ windows' = <<>> /\ seen' = None
    /\ CASE kind = "once" -> Loop("look", NodeSeq)
         [] kind = "boot" -> Loop("boot", NodeSeq)
         [] kind = "comprehensive" -> Loop("setup", plan'.setup)
         [] OTHER -> Loop("clear", plan'.clear)
    /\ steady' = FALSE
    /\ UNCHANGED <<delay, ensemble, clock, copies, plot, made, result, unstarted, faults>>
-----------------------------------------------------------------------------
(* Delays *)

\* On the links of the nodes the exception is caught per node: the loop goes on
\* with the links of the next node.
OnSwitch(l) == l[1] = "switch"

SkipNode == /\ todo' = SelectSeq(todo, LAMBDA l : l[2] # Head(todo)[2])
            /\ UNCHANGED pc

LinkFails ==
    /\ IF OnSwitch(Head(todo)) THEN Abort
       ELSE Fail /\ SkipNode /\ UNCHANGED <<script, seen, clock, records>>
    /\ UNCHANGED <<ensemble, made, result, steady, unstarted>>

\* tc qdisc del
ClearLink ==
    /\ pc = "clear" /\ todo # <<>>
    /\ \/ /\ delay' = [delay EXCEPT ![Head(todo)] = 0]
          /\ GoOn
          /\ UNCHANGED <<script, seen, ensemble, clock, records, made, result, steady,
                         unstarted, faults>>
       \/ LinkFails /\ UNCHANGED delay

Cleared ==
    /\ pc = "clear" /\ todo = <<>>
    /\ IF plan.kind = "main"
       THEN Loop("setup", plan.setup) /\ UNCHANGED seen
       ELSE PollFor("designate")
    /\ UNCHANGED <<script, delay, ensemble, clock, records, made, result, steady,
                   unstarted, faults>>

\* Switch 4 gets three times the latency.
DelayFor(l, lat) == IF OnSwitch(l) /\ l[2] = 4 THEN 3 * lat ELSE lat

\* tc qdisc del, then tc qdisc add; either may fail
SetLink ==
    /\ pc = "setup" /\ todo # <<>>
    /\ \/ /\ delay' = [delay EXCEPT ![Head(todo)] = DelayFor(Head(todo), Lat)]
          /\ GoOn
          /\ UNCHANGED <<script, seen, ensemble, clock, records, made, result, steady,
                         unstarted, faults>>
       \/ /\ delay' \in {delay, [delay EXCEPT ![Head(todo)] = 0]}
          /\ LinkFails

LinksSet ==
    /\ pc = "setup" /\ todo = <<>>
    /\ \/ /\ IF plan.runs = 0 THEN GoIdle /\ UNCHANGED seen ELSE BeginRun
          /\ UNCHANGED <<script, clock, records, faults>>
       \/ plan.kind = "comprehensive" /\ Abort       \* tc qdisc show
    /\ UNCHANGED <<delay, ensemble, made, result, steady, unstarted>>
-----------------------------------------------------------------------------
(* get_leader and designate_leader *)

\* A server that is down, and a command that fails, are skipped; the last node
\* that says "leader" counts.
PollNode(n) == IF leader = n THEN n ELSE seen

Poll ==
    /\ pc \in {"designate", "poll", "look"} /\ todo # <<>>
    /\ \/ /\ seen' = PollNode(Head(todo))
          /\ steady' = (steady \/ (pc = "designate" /\ leader = Head(todo)))
          /\ UNCHANGED faults
       \/ Fail /\ UNCHANGED <<seen, steady>>
    /\ GoOn
    /\ UNCHANGED <<script, delay, ensemble, clock, records, made, result, unstarted>>

Others == SelectSeq(NodeSeq, LAMBDA n : n # NodeId)

\* Mutant: any leader will do
Designated_Any == seen # None

Designated == seen = NodeId

designate_leader ==
    /\ pc = "designate" /\ todo = <<>>
    /\ IF Designated
       THEN EnterPoint(1) /\ UNCHANGED <<round, windows>>
       ELSE Loop("kill", Others) /\ UNCHANGED <<round, point, run, windows, seen>>
    /\ UNCHANGED <<plan, delay, ensemble, clock, copies, plot, made, result, steady,
                   unstarted, faults>>

kill_node ==
    /\ pc = "kill" /\ todo # <<>>
    /\ \/ ServerStops(Head(todo)) /\ UNCHANGED <<logs, faults>>
       \/ Fail /\ UNCHANGED <<ensemble, steady>>
    /\ GoOn
    /\ UNCHANGED <<script, seen, delay, clock, records, made, result, unstarted>>

\* Mutant: the first of the nodes is not started again
Killed_Short == pc = "kill" /\ todo = <<>> /\ Loop("start", Tail(Others))

Killed == pc = "kill" /\ todo = <<>> /\ Loop("start", Others)

\* sleep(25)
SleepAfterKill ==
    /\ Killed
    /\ UNCHANGED <<script, seen, delay, ensemble, clock, records, made, result, steady,
                   unstarted, faults>>

start_node ==
    /\ pc = "start" /\ todo # <<>>
    /\ \/ /\ up' = up \cup {Head(todo)}
          /\ unstarted' = unstarted \ {Head(todo)}
          /\ UNCHANGED faults
       \/ /\ Fail
          /\ unstarted' = unstarted \cup ({Head(todo)} \ up)
          /\ UNCHANGED up
    /\ GoOn
    /\ UNCHANGED <<script, seen, delay, leader, logs, clock, records, made, result, steady>>

Started ==
    /\ pc = "start" /\ todo = <<>>
    /\ PollFor("designate")
    /\ UNCHANGED <<script, delay, ensemble, clock, records, made, result, steady,
                   unstarted, faults>>
-----------------------------------------------------------------------------
(* Workloads *)

\* The name of the output file.  comprehensive_exp names the leader it found.
FileName ==
    [kind |-> plan.kind, lat |-> Lat, run |-> run,
     leader |-> IF plan.kind = "comprehensive" THEN seen ELSE NodeId]

\* The first get_leader of run_once is not used.
Looked ==
    /\ pc = "look" /\ todo = <<>>
    /\ PollFor("poll")
    /\ UNCHANGED <<script, delay, ensemble, clock, records, made, result, steady,
                   unstarted, faults>>

StartTime ==
    /\ pc = "start time"
    /\ clock' = clock + 1
    /\ windows' = Append(windows, [from |-> clock', to |-> clock'])
    /\ PollFor("poll")
    /\ UNCHANGED <<script, delay, ensemble, copies, plot, made, result, steady, unstarted,
                   faults>>

\* What follows run_ycsb_workload_from_node
EndRun == Loop(IF plan.kind = "quorum" THEN "end time" ELSE "next", <<>>)

\* No leader: run_ycsb_workload_from_node returns, comprehensive_exp ends.
NoLeaderFound ==
    /\ pc = "poll" /\ todo = <<>> /\ seen = None
    /\ IF plan.kind = "comprehensive" THEN GoIdle ELSE EndRun
    /\ UNCHANGED <<script, seen, delay, ensemble, clock, records, made, result, steady,
                   unstarted, faults>>

\* The workload begins on the node that get_leader returned.
Ycsb ==
    /\ pc = "poll" /\ todo = <<>> /\ seen # None
    /\ Loop("ycsb", <<>>)
    /\ made' = [name |-> FileName, by |-> seen, delay |-> delay, down |-> ZkNode \ up,
                steady |-> steady, unstarted |-> unstarted]
    /\ UNCHANGED <<script, seen, delay, ensemble, clock, records, result, steady,
                   unstarted, faults>>

\* It ends, or fails with an exception that is not caught.
YcsbEnds ==
    /\ pc = "ycsb"
    /\ \/ Loop("get", <<>>) /\ UNCHANGED <<script, seen, clock, records, faults>>
       \/ Abort
    /\ UNCHANGED <<delay, ensemble, made, result, steady, unstarted>>

\* Only comprehensive_exp does not catch a failed download.
GetResult ==
    /\ pc = "get"
    /\ \/ /\ result' = made
          /\ EndRun
          /\ UNCHANGED <<script, seen, clock, records, faults>>
       \/ /\ plan.kind # "comprehensive"
          /\ Fail
          /\ EndRun
          /\ UNCHANGED <<script, seen, clock, records, result>>
       \/ plan.kind = "comprehensive" /\ Abort /\ UNCHANGED result
    /\ made' = None
    /\ UNCHANGED <<delay, ensemble, steady, unstarted>>

\* kill_running_zk: stop, and pkill in case it is still there
kill_running_zk ==
    /\ pc = "stop all" /\ todo # <<>>
    /\ \/ /\ ServerStops(Head(todo))
          /\ unstarted' = unstarted \cup {Head(todo)}
          /\ UNCHANGED <<logs, faults>>
       \/ Fail /\ UNCHANGED <<ensemble, steady, unstarted>>
    /\ GoOn
    /\ UNCHANGED <<script, seen, delay, clock, records, made, result>>

BootNode ==
    /\ pc = "boot" /\ todo # <<>>
    /\ \/ /\ up' = up \cup {Head(todo)}
          /\ unstarted' = unstarted \ {Head(todo)}
          /\ UNCHANGED faults
       \/ Fail /\ UNCHANGED <<up, unstarted>>
    /\ GoOn
    /\ UNCHANGED <<script, seen, delay, leader, logs, clock, records, made, result, steady>>

AllVisited ==
    /\ pc \in {"stop all", "boot"} /\ todo = <<>>
    /\ GoIdle
    /\ UNCHANGED <<script, seen, delay, ensemble, clock, records, made, result, steady,
                   unstarted, faults>>
-----------------------------------------------------------------------------
(* Quorum counts *)

\* Mutant: one end time for all runs of a leader
EndWindow_Shared == [i \in DOMAIN windows |-> [windows[i] EXCEPT !.to = clock']]

EndWindow == [windows EXCEPT ![Len(windows)].to = clock']

EndTime ==
    /\ pc = "end time"
    /\ clock' = clock + 1
    /\ windows' = EndWindow
    /\ Loop("next", <<>>)
    /\ UNCHANGED <<script, seen, delay, ensemble, copies, plot, made, result, steady,
                   unstarted, faults>>

\* The log comes from node_id, whoever leads now.  When the download fails the
\* copy of an earlier experiment is read.
download_zookeeper_log ==
    /\ pc = "download"
    /\ \/ copies' = [copies EXCEPT ![NodeId] = logs[NodeId]] /\ UNCHANGED faults
       \/ Fail /\ UNCHANGED copies
    /\ Loop("parse", windows)
    /\ UNCHANGED <<script, seen, delay, ensemble, clock, windows, plot, made, result,
                   steady, unstarted>>

parse_zookeeper_log(lines, w) == {l \in lines : w.from <= l.at /\ l.at <= w.to}

plot_quorum_counts ==
    /\ pc = "parse" /\ todo # <<>>
    /\ plot' = [title |-> Head(todo).from,
                lines |-> parse_zookeeper_log(copies[NodeId], Head(todo))]
    /\ GoOn
    /\ UNCHANGED <<script, seen, delay, ensemble, clock, windows, copies, made, result,
                   steady, unstarted, faults>>

Parsed ==
    /\ pc = "parse" /\ todo = <<>>
    /\ EndRound
    /\ UNCHANGED <<plan, seen, delay, ensemble, clock, copies, plot, made, result,
                   unstarted, faults>>

Next ==
    \/ \E n \in ZkNode : Elect(n)
    \/ StepDown
    \/ LogQuorum
    \/ \E kind \in Invoked : Begin(kind)
    \/ ClearLink \/ Cleared \/ SetLink \/ LinksSet
    \/ Poll \/ designate_leader \/ kill_node \/ SleepAfterKill \/ start_node \/ Started
    \/ Looked \/ NoLeaderFound \/ Ycsb \/ YcsbEnds \/ GetResult \/ NextRun
    \/ kill_running_zk \/ BootNode \/ AllVisited
    \/ StartTime \/ EndTime \/ download_zookeeper_log \/ plot_quorum_counts \/ Parsed

Spec == Init /\ [][Next]_vars
-----------------------------------------------------------------------------
(* Properties *)

(* The experiment, the ensemble, the switches and the files stay within
   their types; no sweep runs more often than its loops in
   zookeeper_setup.py say. *)
ZkTypeOK ==
    /\ plan \in {NoPlan} \cup UNION {PlansOf(kind) : kind \in Invoked}
    /\ round \in 1..Len(plan.leaders)
    /\ point \in 1..Len(plan.lats)
    /\ run \in {1} \cup 1..plan.runs
    /\ seen \in ZkNode \cup {None}
    /\ delay \in [Link -> Nat]
    /\ up \subseteq ZkNode
    /\ leader \in up \cup {None}

\* The output file of a run is named after the node that designate_leader made
\* the leader.  Unless the ensemble dropped that leader after designate_leader had
\* seen it lead, the workload ran on that node: the kill and restart loop never
\* ends with another leader, and get_leader never returns another node.
LabelIsLeader ==
    result # None /\ result.name.kind \in {"leader", "quorum", "threads", "readwrite"}
                  /\ result.steady
        => result.by = result.name.leader

\* The latency in the name of an output file is the one the links of the switches
\* had, whatever an earlier experiment that was aborted half way left on them:
\* setup_delay_fat_tree and clear_all_switch_weights catch no exception, so a
\* workload only runs when all links are as they should be.
DelayMatchesLabel ==
    result # None /\ result.name.kind \in {"leader", "quorum", "threads"}
        => \A l \in ToSet(SwitchLinks) : result.delay[l] = DelayFor(l, result.name.lat)

\* A workload runs with a server down only when a start command for this server
\* failed or run_once stopped it: designate_leader starts all it has killed.
DegradedOnlyByFailedStart == result # None => result.down \subseteq result.unstarted

\* A quorum plot counts no line that the workload of another run caused, though
\* all runs of a leader share one log that is downloaded after the last of them.
CountsAreOfTheRun ==
    \A l \in plot.lines : l.of \in {0, plot.title}
=============================================================================
