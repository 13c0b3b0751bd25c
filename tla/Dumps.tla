-------------------------------- MODULE Dumps -------------------------------
(***************************************************************************)
(* The log dumps of an experiment and the script that compares them:       *)
(* shutdown_cb and dumpRaftLogToFile of src/node.cpp, which write a node's *)
(* log when its shutdown timer fires, and scripts/verify_consistency.py.   *)
(* The nodes of an experiment replicate the log of one leader, as Node     *)
(* specifies in detail; each stops at a time of its own, or is killed and  *)
(* leaves the file of an earlier experiment, or none.                      *)
(***************************************************************************)
EXTENDS Integers, Sequences, FiniteSets

CONSTANTS
    Node,          \* the nodes whose files are compared (127.0.0.2 to .6)
    Leader,        \* the one that appends the requests
    Commands,
    MaxLog,        \* bound: entries of a log
    MaxRuns        \* bound: experiments

ASSUME DumpsAssumption ==
    /\ IsFiniteSet(Node) /\ Cardinality(Node) % 2 = 1
    /\ Leader \in Node
    /\ MaxLog \in Nat /\ MaxRuns \in Nat \ {0}

VARIABLES
    run,           \* the present experiment
    log,           \* its leader's log
    last,          \* last[n]: n's getLastLogIndex
    up,            \* nodes that have not stopped
    dumps,         \* dumps[n]: n's file: the experiment that wrote it and the entries
    committed,     \* history: entries that a majority had
    clean          \* history: nodes of this experiment that wrote their file

vars == <<run, log, last, up, dumps, committed, clean>>

QUORUM == Cardinality(Node) \div 2 + 1

NoFile == [run |-> 0, entries |-> <<>>]

Missing == "<MISSING>"

Init ==
    /\ run = 1 /\ log = <<>> /\ last = [n \in Node |-> 0]
    /\ up = Node /\ dumps = [n \in Node |-> NoFile]
    /\ committed = 0 /\ clean = {}
-----------------------------------------------------------------------------
(* The experiment *)

Majority(l) == {i \in 1..Len(log) : Cardinality({n \in Node : l[n] >= i}) >= QUORUM}

Advance(l) ==
    committed' = IF \E i \in Majority(l) : i > committed
                 THEN CHOOSE i \in Majority(l) : \A j \in Majority(l) : j <= i
                 ELSE committed

AppendRequest(c) ==
    /\ Leader \in up /\ Len(log) < MaxLog
    /\ log' = Append(log, c)
    /\ last' = [last EXCEPT ![Leader] = Len(log) + 1]
    /\ UNCHANGED <<run, up, dumps, committed, clean>>

\* An AppendEntries may bring several entries.
Replicate(n, i) ==
    /\ n \in up /\ i > last[n] /\ i <= Len(log)
    /\ last' = [last EXCEPT ![n] = i]
    /\ Advance(last')
    /\ UNCHANGED <<run, log, up, dumps, clean>>

\* Mutant: the loop stops before the last index
dumpRaftLogToFile_Short(n) ==
    dumps' = [dumps EXCEPT ![n] =
                [run |-> run, entries |-> SubSeq(log, 1, last[n] - 1)]]

dumpRaftLogToFile(n) ==
    dumps' = [dumps EXCEPT ![n] = [run |-> run, entries |-> SubSeq(log, 1, last[n])]]

Shutdown(n) ==
    /\ n \in up
    /\ up' = up \ {n} /\ clean' = clean \cup {n}
    /\ dumpRaftLogToFile(n)
    /\ UNCHANGED <<run, log, last, committed>>

\* The process is killed before its timer fires, or the file cannot be opened.
NoDump(n) ==
    /\ n \in up
    /\ up' = up \ {n}
    /\ UNCHANGED <<run, log, last, dumps, committed, clean>>

\* A node starts with an empty log; the files stay where they are.
NextExperiment ==
    /\ up = {} /\ run < MaxRuns
    /\ run' = run + 1 /\ log' = <<>> /\ last' = [n \in Node |-> 0]
    /\ up' = Node /\ committed' = 0 /\ clean' = {}
    /\ UNCHANGED dumps

Next ==
    \/ \E c \in Commands : AppendRequest(c)
    \/ \E n \in Node, i \in 1..MaxLog : Replicate(n, i)
    \/ \E n \in Node : Shutdown(n) \/ NoDump(n)
    \/ NextExperiment

Spec == Init /\ [][Next]_vars
-----------------------------------------------------------------------------
(* verify_consistency.py *)

\* What a file says of an index; a file that is not there says nothing of any.
Opinion(d, n, i) ==
    IF i \in 1..Len(d[n].entries) THEN d[n].entries[i] ELSE Missing

all_indices(d) == UNION {1..Len(d[n].entries) : n \in Node}

Votes(d, i, v) == {n \in Node : Opinion(d, n, i) = v}

\* Mutant: more than a quorum is asked for
Agreed_Strict(d, i, v) == Cardinality(Votes(d, i, v)) > QUORUM

Agreed(d, i, v) == Cardinality(Votes(d, i, v)) >= QUORUM

majority_consistent(d) ==
    \A i \in all_indices(d) : \E v \in {Opinion(d, n, i) : n \in Node} : Agreed(d, i, v)
-----------------------------------------------------------------------------
(* Properties *)

(* The log, what each node holds of it and the dump files stay within their
   types; in particular no node starts an experiment with entries of an
   earlier one. *)
DumpsTypeOK ==
    /\ run \in 1..MaxRuns
    /\ log \in Seq(Commands) /\ Len(log) <= MaxLog
    /\ last \in [Node -> 0..Len(log)]
    /\ up \subseteq Node /\ clean \subseteq Node \ up
    /\ committed \in 0..Len(log)
    /\ dumps \in [Node -> [run : 0..run, entries : Seq(Commands)]]

OfThisRun(n) == dumps[n] = NoFile \/ dumps[n].run = run

\* The script never reports an inconsistency of an experiment in which nothing went
\* wrong: whenever each node stopped, and also when some left no file, the files of
\* one experiment agree at every index, on the entry or on its absence.
CleanRunsPass == (\A n \in Node : OfThisRun(n)) => majority_consistent(dumps)

\* When every node wrote its file, the script sees what was committed: at each index
\* a majority had, the agreed opinion is the leader's entry and not its absence.
CommittedIsAgreed ==
    clean = Node => \A i \in 1..committed : Agreed(dumps, i, log[i])
=============================================================================
