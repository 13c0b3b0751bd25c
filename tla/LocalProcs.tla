----------------------------- MODULE LocalProcs -----------------------------
(***************************************************************************)
(* The local tasks of scripts/tasks.py: start, stop, restart, status,      *)
(* start_client, start_clients and overhead_exp.  The processes they start *)
(* are known only through the dictionary "processes" of the Python process *)
(* that runs the tasks of one invoke command.  The started processes       *)
(* survive that Python process, the dictionary does not.                   *)
(***************************************************************************)
EXTENDS Naturals, FiniteSets

CONSTANTS
    Replicas,     \* n_replicas
    NClients,     \* clients started by start_clients
    MaxProcs,     \* bound: processes started
    Disciplined   \* does the user stop all servers before starting new ones?

VARIABLES
    session,      \* does a Python process run?
    processes,    \* its dictionary: the number of the process under each key
    starting,     \* the replica that start starts next (0: start is not running)
    live,         \* the processes that run
    started       \* number of processes started so far

vars == <<session, processes, starting, live, started>>

ServerKeys == {<<"server", i>> : i \in 1..Replicas}

\* start_client uses the key "client", start_clients "client_1", "client_2", ...
ClientKeys == {<<"client", i>> : i \in 0..NClients}

Keys == ServerKeys \cup ClientKeys

NoProcess == 0

Untracked == [k \in Keys |-> NoProcess]

Servers(procs) == {p \in procs : p.key \in ServerKeys}

Init ==
    /\ session = FALSE
    /\ processes = Untracked
    /\ starting = 0
    /\ live = {}
    /\ started = 0
-----------------------------------------------------------------------------
\* invoke begins, or ends after its last task.
OpenSession ==
    /\ ~session
    /\ Disciplined => Servers(live) = {}
    /\ session' = TRUE
    /\ UNCHANGED <<processes, starting, live, started>>

EndSession ==
    /\ session' = FALSE
    /\ processes' = Untracked
    /\ starting' = 0

CloseSession ==
    /\ session /\ starting = 0
    /\ EndSession
    /\ UNCHANGED <<live, started>>

\* The task start until its loop; restart is stop and start.
Start ==
    /\ session /\ starting = 0
    /\ Disciplined => \A k \in ServerKeys : processes[k] = NoProcess
    /\ starting' = 1
    /\ UNCHANGED <<session, processes, live, started>>

\* subprocess.Popen
Popen(keys, known) ==
    /\ started + Cardinality(keys) <= MaxProcs
    /\ \E id \in [keys -> started + 1 .. started + Cardinality(keys)] :
           /\ \A j, k \in keys : id[j] = id[k] => j = k
           /\ live' = live \cup {[id |-> id[k], key |-> k] : k \in keys}
           /\ processes' = [k \in Keys |-> IF k \in keys THEN id[k] ELSE known[k]]
    /\ started' = started + Cardinality(keys)

StartReplica ==
    /\ starting > 0
    /\ Popen({<<"server", starting>>}, processes)
    /\ starting' = IF starting = Replicas THEN 0 ELSE starting + 1
    /\ UNCHANGED session

\* An exception of Popen is not caught: it ends the Python process.
StartFails ==
    /\ starting > 0
    /\ EndSession
    /\ UNCHANGED <<live, started>>

\* A process started before under the same key is no longer known.
StartClient ==
    /\ session /\ starting = 0
    /\ Popen({<<"client", 0>>}, processes)
    /\ UNCHANGED <<session, starting>>

\* The exceptions of the loop are caught: any of the clients may be missing.
StartClients ==
    /\ session /\ starting = 0
    /\ \E keys \in SUBSET {<<"client", i>> : i \in 1..NClients} : Popen(keys, processes)
    /\ UNCHANGED <<session, starting>>

\* The process groups of the known processes are sent SIGTERM.
Tracked == {p \in live : processes[p.key] = p.id}

\* Mutant: the last replica is neither terminated nor forgotten
StopAll_SkipsLast ==
    /\ live' = {p \in live : processes[p.key] # p.id \/ p.key[2] = Replicas}
    /\ processes' = [k \in Keys |-> IF k[2] = Replicas THEN processes[k] ELSE NoProcess]

StopAll ==
    /\ live' = live \ Tracked
    /\ processes' = Untracked

Stop ==
    /\ session /\ starting = 0
    /\ StopAll
    /\ UNCHANGED <<session, starting, started>>

Restart ==
    /\ session /\ starting = 0
    /\ StopAll
    /\ starting' = 1
    /\ UNCHANGED <<session, started>>

\* A process ends by itself.
Exit(p) ==
    /\ live' = live \ {p}
    /\ UNCHANGED <<session, processes, starting, started>>

\* The user's "killall leader*"
Killall ==
    /\ live' = live \ Servers(live)
    /\ UNCHANGED <<session, processes, starting, started>>

Next ==
    \/ OpenSession \/ CloseSession
    \/ Start \/ StartReplica \/ StartFails \/ Stop \/ Restart
    \/ StartClient \/ StartClients
    \/ \E p \in live : Exit(p)
    \/ Killall

Spec == Init /\ [][Next]_vars
-----------------------------------------------------------------------------
(* Properties *)

(* The dictionary of processes and the processes themselves stay within
   their types; the loop of start never runs past the last replica. *)
LocalTypeOK ==
    /\ session \in BOOLEAN
    /\ processes \in [Keys -> 0..MaxProcs]
    /\ starting \in 0..Replicas
    /\ live \subseteq [id : 1..MaxProcs, key : Keys]
    /\ started \in 0..MaxProcs

\* The keys under which status reports a running process
Running == {k \in Keys : \E p \in live : p.key = k /\ p.id = processes[k]}

\* For a user who lets no server run when a new session begins, and calls start
\* only once before stop or restart: while the session lasts, status reports
\* every server there is, and no replica has two servers.
StatusIsComplete ==
    session => \A p \in Servers(live) : p.key \in Running /\ processes[p.key] = p.id

\* stop: "Stops all running leader_election processes."
StopStopsAll == [][Stop \/ Restart => Servers(live') = {}]_vars
=============================================================================
