------------------------------- MODULE Tasks --------------------------------
(***************************************************************************)
(* The experiment tasks of scripts/tasks.py: a workstation starts servers  *)
(* and clients on remote hosts over SSH, waits, stops them, has each host  *)
(* summarise its log, downloads the summaries, merges and archives them.   *)
(*                                                                         *)
(* A task is a sequence of steps; most steps are a loop over the hosts.    *)
(* One iteration of a loop is one action.  An iteration may fail: the      *)
(* connection is refused or lost, or the remote script exits with an       *)
(* error.  In a loop body with "try" the next host follows, elsewhere the  *)
(* exception ends the whole invocation.  Everything a failed or aborted    *)
(* invocation leaves behind, on the hosts and on the workstation, is there *)
(* when the next one runs.  A file is known by the run whose processes     *)
(* produced its contents.                                                  *)
(***************************************************************************)
EXTENDS Integers, Sequences, FiniteSets, SequencesExt

CONSTANTS
    N,            \* number of nodes
    Invoked,      \* the tasks the user may invoke
    Times,        \* experiments in a batch
    MaxRuns,      \* bound: experiments begun in a behaviour
    MaxFaults     \* bound: iterations that fail

VARIABLES
    todo,         \* the steps that are left of the task being run
    at,           \* the host whose iteration is next
    run,          \* experiments begun so far: the number of the present one
    remote,       \* processes and files on each host
    pending,      \* kill commands sent asynchronously and not yet executed
    local,        \* files in the working directory of the workstation
    totals,       \* the values parsed from downloaded files in this task
    archive,      \* the last archive folder that was filled
    downloaded,   \* <<host, run>>: server logs in downloaded_logs
    failed,       \* hosts with a failed iteration since the experiment began
    faults        \* failed iterations so far

vars == <<todo, at, run, remote, pending, local, totals, archive, downloaded, failed,
          faults>>

Host == 1..N

\* The contents of a file: the run it stems from, or
Missing == 0
Empty == -1

Tag == {Missing, Empty} \cup 1..MaxRuns

NoFiles == [h \in Host |-> Missing]
-----------------------------------------------------------------------------
(* The tasks *)

\* A loop over all hosts
Step(op) == <<[op |-> op, try |-> TRUE, hosts |-> N]>>

\* A loop over all hosts whose exceptions are not caught
Bare(op) == <<[op |-> op, try |-> FALSE, hosts |-> N]>>

\* A step on one host, the first for definiteness, whose exception ends the task
Once(op) == <<[op |-> op, try |-> FALSE, hosts |-> 1]>>

Repeat(program) == FlattenSeq([i \in 1..Times |-> program])

\* Mutant: the loop that stops what runs on the hosts ignores its failures
start_remote_default_Ignores ==
    Step("begin") \o Step("put config") \o Step("clear") \o Step("start server")

start_remote_default ==
    Step("begin") \o Step("put config") \o Bare("clear") \o Step("start server")

\* The argument leaderId reaches the task as a string, and indexing a list with
\* it raises an exception: no client is started.
start_remote_default_with_client ==
    Step("begin") \o Step("put config") \o Bare("kill servers, clear logs")
        \o Step("start server")

start_remote ==
    Step("begin") \o Bare("kill servers") \o Step("start server with suffix")

start_clients_remote ==
    Step("begin") \o Step("start client") \o Step("wait") \o Step("kill client")
        \o Step("analyse and get") \o Step("archive client logs")

\* The same steps as the end of start_clients_remote, without the archive
get_results == Step("analyse and get")

\* Mutant: the summaries are downloaded before they are made
start_clients_remote_collect_EarlyGet ==
    Step("begin") \o Step("start client") \o Step("wait") \o Step("kill client")
        \o Step("get summary") \o Step("summarise") \o Step("merge")
        \o Step("archive summaries")

start_clients_remote_collect ==
    Step("begin") \o Step("start client") \o Step("wait") \o Step("kill client")
        \o Step("summarise") \o Step("get summary") \o Step("merge")
        \o Step("archive summaries")

batch_experiments_motivation ==
    Repeat(start_remote_default \o start_clients_remote_collect)

sum_remote_timeouts ==
    start_remote_default \o Step("wait") \o Step("count timeouts")
        \o Step("get timeouts") \o Step("sum timeouts")

sum_remote_detect ==
    Step("measure") \o Step("detect stats") \o Step("get stats")
        \o Step("weigh stats")

batch_sum_remote_detect ==
    start_remote_default \o Step("wait") \o sum_remote_detect

batch_sum_remote_timeouts == Repeat(sum_remote_timeouts \o sum_remote_detect)

test_petition ==
    Once("set delay") \o start_remote_default
        \o Step("begin") \o Step("start client") \o Step("wait")
        \o Once("set delay") \o Step("wait")
        \o Step("kill client and server") \o Step("summarise")
        \o Step("get summary") \o Step("merge") \o Step("archive summaries")

start_client_remote ==
    Step("begin") \o Once("start client") \o Step("wait") \o Once("kill one client")

count_leader == Bare("count leader")

killall_remote == Step("killall servers")

download_logs_default == Step("download default log")

run_multiple_experiments ==
    Repeat(start_remote \o Step("wait") \o killall_remote)

automate_exp == run_multiple_experiments \o download_logs_default

\* download_logs goes through nodes[0:1].
download_multi_logs == Once("download logs")

analyze_logs_false_pos == Step("analyse failures")

Program ==
    [start_remote_default |-> start_remote_default,
     start_remote_default_with_client |-> start_remote_default_with_client,
     start_clients_remote |-> start_clients_remote,
     get_results |-> get_results,
     start_clients_remote_collect |-> start_clients_remote_collect,
     batch_experiments_motivation |-> batch_experiments_motivation,
     sum_remote_timeouts |-> sum_remote_timeouts,
     sum_remote_detect |-> sum_remote_detect,
     batch_sum_remote_detect |-> batch_sum_remote_detect,
     batch_sum_remote_timeouts |-> batch_sum_remote_timeouts,
     test_petition |-> test_petition,
     start_client_remote |-> start_client_remote,
     count_leader |-> count_leader,
     killall_remote |-> killall_remote,
     run_multiple_experiments |-> run_multiple_experiments,
     automate_exp |-> automate_exp,
     download_multi_logs |-> download_multi_logs,
     analyze_logs_false_pos |-> analyze_logs_false_pos]
-----------------------------------------------------------------------------
(* How a task proceeds *)

Current == Head(todo)

At(op) == todo # <<>> /\ Current.op = op

Finish == todo' = <<>> /\ at' = 1

NextStep == todo' = Tail(todo) /\ at' = 1

NextHost ==
    \/ at = Current.hosts /\ NextStep
    \/ at < Current.hosts /\ at' = at + 1 /\ UNCHANGED todo

Succeed == NextHost /\ UNCHANGED <<failed, faults>>

\* An exception in an iteration.  One that has to come (the file it needs is
\* missing) is not counted as a fault.
Fail(possible) ==
    /\ possible => faults < MaxFaults
    /\ faults' = IF possible THEN faults + 1 ELSE faults
    /\ failed' = failed \cup {at}
    /\ IF Current.try THEN NextHost ELSE Finish

\* An iteration that runs commands on its host: good is the state they leave,
\* bad the states in which an exception can leave the host.
RunCommand(op, possible, good, bad) ==
    /\ At(op)
    /\ \/ /\ possible
          /\ remote' = [remote EXCEPT ![at] = good]
          /\ Succeed
       \/ /\ Fail(possible)
          /\ \E left \in bad : remote' = [remote EXCEPT ![at] = left]
    /\ UNCHANGED <<run, pending, local, totals, archive, downloaded>>

\* An iteration that downloads a file with these contents.  A transfer that
\* fails leaves the old local file, or an empty one.
Get(op, name, contents) ==
    /\ At(op)
    /\ \/ /\ contents # Missing
          /\ local' = [local EXCEPT ![name][at] = contents]
          /\ totals' = [h \in Host |-> IF h = at THEN contents
                                       ELSE IF at = 1 THEN Missing ELSE totals[h]]
          /\ Succeed
       \/ /\ Fail(contents # Missing)
          /\ \E left \in {local[name][at], Empty} :
                 local' = [local EXCEPT ![name][at] = left]
          /\ totals' = IF at = 1 THEN NoFiles ELSE totals
    /\ UNCHANGED <<run, remote, pending, archive, downloaded>>
-----------------------------------------------------------------------------
NoLocalFiles ==
    [client_log |-> NoFiles, thp |-> NoFiles, timeout |-> NoFiles,
     detect |-> NoFiles, plot |-> NoFiles, combined |-> NoFiles]

NoArchive ==
    [files |-> NoFiles, logs |-> NoFiles, merged |-> NoFiles,
     expected |-> NoFiles, failed |-> {}]

Init ==
    /\ todo = <<>> /\ at = 1
    /\ run = 0
    /\ remote = [h \in Host |->
           [server |-> {}, client |-> {}, config |-> Missing,
            node_log |-> Missing, suffix_logs |-> {}, client_log |-> Missing,
            thp_summary |-> Missing, timeout_count |-> Missing,
            detect_stats |-> Missing, plot |-> Missing]]
    /\ pending = [h \in Host |-> {}]
    /\ local = NoLocalFiles
    /\ totals = NoFiles
    /\ archive = NoArchive
    /\ downloaded = {}
    /\ failed = {}
    /\ faults = 0

\* invoke <task>
Invoke(t) ==
    /\ todo = <<>>
    /\ todo' = Program[t]
    /\ UNCHANGED <<at, run, remote, pending, local, totals, archive,
                   downloaded, failed, faults>>
-----------------------------------------------------------------------------
(* Starting and stopping processes *)

\* A new experiment begins.
Begin ==
    /\ At("begin")
    /\ run < MaxRuns
    /\ run' = run + 1
    /\ failed' = {}
    /\ NextStep
    /\ UNCHANGED <<remote, pending, local, totals, archive, downloaded, faults>>

\* sum_remote_detect measures what the hosts hold, without starting anything.
Measure ==
    /\ At("measure")
    /\ failed' = {}
    /\ NextStep
    /\ UNCHANGED <<run, remote, pending, local, totals, archive, downloaded, faults>>

PutConfig ==
    RunCommand("put config", TRUE, [remote[at] EXCEPT !.config = run], {remote[at]})

\* The commands of one iteration run one after the other: an exception can
\* come after any of them.
Clear ==
    LET killed  == [remote[at] EXCEPT !.server = {}]
        stopped == [killed EXCEPT !.client = {}]
    IN  RunCommand("clear", TRUE, [stopped EXCEPT !.node_log = Missing],
                 {remote[at], killed, stopped})

ClearKeepingClients ==
    LET killed == [remote[at] EXCEPT !.server = {}]
    IN  RunCommand("kill servers, clear logs", TRUE,
                 [killed EXCEPT !.node_log = Missing], {remote[at], killed})

KillServers ==
    LET killed == [remote[at] EXCEPT !.server = {}]
    IN  RunCommand("kill servers", TRUE, killed, {remote[at], killed})

\* killall exits with an error when there is no such process.
KillallServers ==
    RunCommand("killall servers", remote[at].server # {},
             [remote[at] EXCEPT !.server = {}], {remote[at]})

StartServer ==
    RunCommand("start server", TRUE,
             [remote[at] EXCEPT !.node_log = run,
                  !.server = @ \cup {[run |-> run, config |-> remote[at].config]}],
             {remote[at]})

StartServerWithSuffix ==
    RunCommand("start server with suffix", TRUE,
             [remote[at] EXCEPT !.suffix_logs = @ \cup {run},
                  !.server = @ \cup {[run |-> run, config |-> remote[at].config]}],
             {remote[at]})

StartClient ==
    LET killed == [remote[at] EXCEPT !.client = {}]
    IN  RunCommand("start client", TRUE,
                 [killed EXCEPT !.client = {run}, !.client_log = run],
                 {remote[at], killed})

\* The end of start_client_remote
KillOneClient ==
    LET killed == [remote[at] EXCEPT !.client = {}]
    IN  RunCommand("kill one client", TRUE, killed, {remote[at], killed})

\* The tc commands of test_petition change the delay of a link, nothing else.
SetDelay == RunCommand("set delay", TRUE, remote[at], {remote[at]})

\* sleep: long enough for every command sent before to be executed
Wait ==
    /\ At("wait")
    /\ \A h \in Host : pending[h] = {}
    /\ NextStep
    /\ UNCHANGED <<run, remote, pending, local, totals, archive, downloaded,
                   failed, faults>>

\* killall with asynchronous=True: the task does not wait for its result.
SendKill(op, processes) ==
    /\ At(op)
    /\ \/ pending' = [pending EXCEPT ![at] = @ \cup processes] /\ Succeed
       \/ Fail(TRUE) /\ UNCHANGED pending
    /\ UNCHANGED <<run, remote, local, totals, archive, downloaded>>

\* Mutant: the servers are killed
KillClient_Server == SendKill("kill client", {"server"})

KillClient == SendKill("kill client", {"client"})

KillClientAndServer == SendKill("kill client and server", {"client", "server"})

\* A host executes a kill command that was sent to it.
ExecuteKill(h) ==
    /\ pending[h] # {}
    /\ pending' = [pending EXCEPT ![h] = {}]
    /\ remote' = [remote EXCEPT ![h].client = IF "client" \in pending[h] THEN {} ELSE @,
                                ![h].server = IF "server" \in pending[h] THEN {} ELSE @]
    /\ UNCHANGED <<todo, at, run, local, totals, archive, downloaded,
                   failed, faults>>
-----------------------------------------------------------------------------
(* Results *)

Summarise ==
    RunCommand("summarise", remote[at].client_log # Missing,
             [remote[at] EXCEPT !.thp_summary = remote[at].client_log],
             {remote[at]})

GetSummary == Get("get summary", "thp", remote[at].thp_summary)

\* analyze_resp_time.py and the download of its output are one iteration: the
\* output is fetched only when the analysis of the present log has succeeded.
AnalyseAndGet == Get("analyse and get", "client_log", remote[at].client_log)

CountTimeouts ==
    RunCommand("count timeouts", remote[at].node_log # Missing,
             [remote[at] EXCEPT !.timeout_count = remote[at].node_log],
             {remote[at]})

GetTimeouts == Get("get timeouts", "timeout", remote[at].timeout_count)

DetectStats ==
    RunCommand("detect stats", remote[at].node_log # Missing,
             [remote[at] EXCEPT !.detect_stats = remote[at].node_log],
             {remote[at]})

GetStats == Get("get stats", "detect", remote[at].detect_stats)

\* A step on the workstation that files an archive and leaves these local files
File(op, entry, left) ==
    /\ At(op)
    /\ archive' = [entry EXCEPT !.failed = failed]
    /\ local' = left
    /\ NextStep
    /\ UNCHANGED <<run, remote, pending, totals, downloaded, failed, faults>>

OfThisRun == [h \in Host |-> run]

\* merge_thp_summaries.py: two files at least, and some data in them
Merge ==
    LET files == {h \in Host : local.thp[h] # Missing}
        data  == {h \in Host : local.thp[h] > 0}
    IN  /\ At("merge")
        /\ local' = IF Cardinality(files) >= 2 /\ data # {}
                    THEN [local EXCEPT !.combined = local.thp] ELSE local
        /\ NextStep
        /\ UNCHANGED <<run, remote, pending, totals, archive, downloaded,
                       failed, faults>>

\* Mutant: the combined files stay in the working directory
ArchiveSummaries_LeavesCombined ==
    File("archive summaries",
         [NoArchive EXCEPT !.files = local.thp, !.logs = local.client_log,
                           !.merged = local.combined, !.expected = OfThisRun],
         [local EXCEPT !.thp = NoFiles, !.client_log = NoFiles])

ArchiveSummaries ==
    File("archive summaries",
         [NoArchive EXCEPT !.files = local.thp, !.logs = local.client_log,
                           !.merged = local.combined, !.expected = OfThisRun],
         [local EXCEPT !.thp = NoFiles, !.client_log = NoFiles,
                       !.combined = NoFiles])

\* sum_all_clients.py, which stops at the first missing file, and the archive
ArchiveClientLogs ==
    File("archive client logs",
         [NoArchive EXCEPT !.files = local.client_log, !.logs = local.client_log,
              !.merged = IF \A h \in Host : local.client_log[h] # Missing
                         THEN local.client_log ELSE NoFiles,
              !.expected = OfThisRun],
         [local EXCEPT !.client_log = NoFiles])

SumTimeouts ==
    File("sum timeouts",
         [NoArchive EXCEPT !.files = local.timeout, !.merged = totals,
                           !.expected = OfThisRun],
         [local EXCEPT !.timeout = NoFiles])

\* Without samples on any node the task returns before it archives anything.
WeighStats ==
    \/ /\ totals # NoFiles
       /\ File("weigh stats",
               [NoArchive EXCEPT !.files = local.detect, !.merged = totals,
                    !.expected = [h \in Host |-> remote[h].node_log]],
               [local EXCEPT !.detect = NoFiles])
    \/ /\ At("weigh stats")
       /\ NextStep
       /\ UNCHANGED <<run, remote, pending, local, totals, archive, downloaded,
                      failed, faults>>
-----------------------------------------------------------------------------
(* Server logs *)

Download(host, runs) == downloaded' = downloaded \cup ({host} \X runs)

DownloadDefaultLog ==
    /\ At("download default log")
    /\ \/ /\ remote[at].node_log # Missing
          /\ Download(at, {remote[at].node_log})
          /\ Succeed
       \/ Fail(remote[at].node_log # Missing) /\ UNCHANGED downloaded
    /\ UNCHANGED <<run, remote, pending, local, totals, archive>>

\* The suffixes that were never used raise an exception for their file only.
DownloadLogs ==
    /\ At("download logs")
    /\ \/ Download(at, remote[at].suffix_logs) /\ Succeed
       \/ Fail(TRUE) /\ \E got \in SUBSET remote[at].suffix_logs : Download(at, got)
    /\ UNCHANGED <<run, remote, pending, local, totals, archive>>

\* count_leader.py only reads the log, if there is one.
CountLeader ==
    RunCommand("count leader", remote[at].node_log # Missing, remote[at], {remote[at]})

\* extract_failure.py writes a plot with a time stamp in its name; the file the
\* task then downloads has none, does not exist, and raises an exception.
AnalyseFailures ==
    RunCommand("analyse failures", FALSE, remote[at],
             {[remote[at] EXCEPT !.plot = remote[at].node_log]})
-----------------------------------------------------------------------------
\* A step of the task being run
Proceed ==
    \/ Begin \/ Measure \/ PutConfig \/ Clear \/ ClearKeepingClients
    \/ KillServers \/ KillallServers \/ StartServer \/ StartServerWithSuffix
    \/ StartClient \/ KillOneClient \/ SetDelay \/ Wait \/ KillClient \/ KillClientAndServer
    \/ Summarise \/ GetSummary \/ AnalyseAndGet \/ CountTimeouts \/ GetTimeouts
    \/ DetectStats \/ GetStats \/ Merge \/ ArchiveSummaries
    \/ ArchiveClientLogs \/ SumTimeouts \/ WeighStats
    \/ DownloadDefaultLog \/ DownloadLogs \/ CountLeader \/ AnalyseFailures

Next ==
    \/ \E t \in Invoked : Invoke(t)
    \/ Proceed
    \/ \E h \in Host : ExecuteKill(h)

Spec == Init /\ [][Next]_vars

\* The task goes on, and a host executes the commands it has received.
FairSpec == Spec /\ WF_vars(Proceed) /\ \A h \in Host : WF_vars(ExecuteKill(h))
-----------------------------------------------------------------------------
(* Properties *)

Process == [run : 1..MaxRuns, config : Tag]

(* The state of the tasks, of the hosts and of their files stays within its
   types; in particular a loop over the hosts (for node in nodes) never runs
   past the last one. *)
TasksTypeOK ==
    /\ at \in Host /\ (todo # <<>> => at <= Current.hosts)
    /\ run \in 0..MaxRuns /\ faults \in 0..MaxFaults
    /\ failed \subseteq Host
    /\ \A h \in Host :
           /\ remote[h].server \subseteq Process
           /\ {remote[h].client, remote[h].suffix_logs} \subseteq SUBSET (1..MaxRuns)
           /\ {remote[h].config, remote[h].node_log, remote[h].client_log,
               remote[h].thp_summary, remote[h].timeout_count,
               remote[h].detect_stats} \subseteq Tag \ {Empty}

\* Whatever failed or was aborted before, the servers running on all hosts are
\* of one experiment: start_remote and start_remote_default stop the old ones on
\* every host before they start a new one on any.
ServersOfOneRun ==
    \A g, h \in Host : \A p \in remote[g].server, q \in remote[h].server :
        p.run = q.run

\* No host ever runs two clients that write into the same client_remote.log.
OneClientPerHost == \A h \in Host : Cardinality(remote[h].client) <= 1

\* A failure on one host never reaches the results of another one, and what
\* earlier invocations left behind never replaces a result: every host without
\* a failed iteration has in the archive exactly the result of this experiment.
\* Without any failure all of them are in the merged result.
FaultsStayLocal ==
    /\ \A h \in Host \ archive.failed : archive.files[h] = archive.expected[h]
    /\ archive.failed = {} => archive.merged = archive.expected

\* What was merged or summed up is what the archive holds: no result of an
\* earlier experiment is filed with the files of this one.
SummedIsArchived ==
    \A h \in Host : archive.merged[h] > 0 => archive.merged[h] = archive.files[h]

\* The client of an experiment is killed in the end, unless something failed on
\* its host: the loops that start and kill clients catch their exceptions, so that
\* one host's failure does not keep the clients of others running.
ClientsStop ==
    \A h \in Host :
        remote[h].client = {run} ~> (remote[h].client # {run} \/ h \in failed)
=============================================================================
