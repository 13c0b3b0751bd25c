------------------------------ MODULE TermLogs ------------------------------
(***************************************************************************)
(* The scripts that read the logs of all servers for who led and for how   *)
(* long: scripts/election_analysis.py, scripts/rank_analysis.py and        *)
(* scripts/length_analysis.py.  A behaviour is the cluster writing its     *)
(* logs, with the lines of send_heartbeat, handle_append_entries and       *)
(* start_election_timeout in src/node.cpp, while each term has one leader  *)
(* (OneWinnerUntilLed of module Node says when that holds); what the       *)
(* scripts compute is a function of the files as they are.                 *)
(***************************************************************************)
EXTENDS Integers, Sequences, FiniteSets, SequencesExt, FiniteSetsExt

CONSTANTS
    Node,
    Mapped,        \* the nodes whose address is in node_ip_list
    Terms,
    LeaderOf,      \* the leader of each term
    Ranked,        \* the nodes whose rank is logged
    WarmUp,        \* lines that are skipped in each file (1800)
    MaxBeats,      \* bound: heartbeats of a term
    MaxLines       \* bound: lines of a log

VARIABLES
    logs,          \* logs[n]: the lines of node_n.log
    term,          \* term[n]: n's current_term
    sent,          \* sent[t]: heartbeats of term t (heartbeat_count of its leader)
    seen           \* heartbeats that arrived: <<node, term, id>>

vars == <<logs, term, sent, seen>>

Init ==
    /\ logs = [n \in Node |-> <<>>]
    /\ term = [n \in Node |-> 0]
    /\ sent = [t \in Terms |-> 0]
    /\ seen = {}
-----------------------------------------------------------------------------
(* The cluster *)

Write(n, lines) ==
    /\ Len(logs[n]) + Len(lines) <= MaxLines
    /\ logs' = [logs EXCEPT ![n] = @ \o lines]

\* "[LEADER] Sent heartbeat {id} for term {term}"; the first has id 1.
SendHeartbeat(t) ==
    LET n == LeaderOf[t]
    IN  /\ term[n] <= t /\ sent[t] < MaxBeats
        /\ Write(n, << [kind |-> "sent", id |-> sent[t] + 1, term |-> t] >>)
        /\ sent' = [sent EXCEPT ![t] = @ + 1]
        /\ term' = [term EXCEPT ![n] = t]
        /\ UNCHANGED seen

Arrived(n, t, id) ==
    << [kind |-> "append", from |-> LeaderOf[t], id |-> id, term |-> t] >>

\* "Received AppendEntries from {leader} for term {term} with id {id}", also when
\* the term is over; a heartbeat may be lost and may overtake another.
ReceiveHeartbeat(n, t, id) ==
    /\ n # LeaderOf[t] /\ id <= sent[t] /\ <<n, t, id>> \notin seen
    /\ seen' = seen \cup {<<n, t, id>>}
    /\ term' = [term EXCEPT ![n] = Max({@, t})]
    /\ Write(n, Arrived(n, t, id) \o
                (IF t < term[n] THEN << [kind |-> "stale"] >> ELSE <<>>))
    /\ UNCHANGED sent

\* "The rank of {node} is: {rank} ..."
LogRank(n, m, r) ==
    /\ Write(n, << [kind |-> "rank", of |-> m, rank |-> r] >>)
    /\ UNCHANGED <<term, sent, seen>>

Next ==
    \/ \E t \in Terms : SendHeartbeat(t)
    \/ \E n \in Node, t \in Terms, id \in 1..MaxBeats : ReceiveHeartbeat(n, t, id)
    \/ \E n \in Node, m \in Ranked, r \in 0..1 : LogRank(n, m, r)

Spec == Init /\ [][Next]_vars
-----------------------------------------------------------------------------
(* election_analysis.py and rank_analysis.py *)

\* A file with fewer lines than the warm-up is skipped.
AfterWarmUp(n) == SubSeq(logs[n], WarmUp + 1, Len(logs[n]))

\* ip_to_node.get(ip, ip)
NodeName(n) == IF n \in Mapped THEN <<"node", n>> ELSE <<"ip", n>>

NodeNames == {NodeName(n) : n \in Node}

NoName == <<"none">>

IsRank0(l) == l.kind = "rank" /\ l.rank = 0

\* Mutant: the number of the heartbeat is taken for the term
ReadLine_Id(m, l) ==
    CASE IsRank0(l) -> [m EXCEPT !.rank0[NodeName(l.of)] = @ + 1]
      [] l.kind = "append" /\ m.leaders[l.id] = NoName
             -> [m EXCEPT !.leaders[l.id] = NodeName(l.from)]
      [] OTHER -> m

\* One line of election_analysis.py: the first file that names a term's leader wins.
ReadLine(m, l) ==
    CASE IsRank0(l) -> [m EXCEPT !.rank0[NodeName(l.of)] = @ + 1]
      [] l.kind = "append" /\ m.leaders[l.term] = NoName
             -> [m EXCEPT !.leaders[l.term] = NodeName(l.from)]
      [] OTHER -> m

\* The files in the order os.listdir gives.
election_analysis(files) ==
    FoldLeft(ReadLine,
             [rank0 |-> [m \in NodeNames |-> 0], leaders |-> [t \in Terms |-> NoName]],
             FlattenSeq([i \in 1..Len(files) |-> AfterWarmUp(files[i])]))

rank_analysis ==
    [m \in NodeNames |->
        MapThenSumSet(LAMBDA n : Len(SelectSeq(AfterWarmUp(n),
                                     LAMBDA l : IsRank0(l) /\ NodeName(l.of) = m)), Node)]
-----------------------------------------------------------------------------
(* length_analysis.py *)

Self == "self"

\* Mutant: the leader's heartbeats are counted from zero
CountHeartbeat_FromZero(c, l) ==
    CASE l.kind = "append" -> [c EXCEPT ![l.term][l.from] = @ + 1]
      [] l.kind = "sent" -> [c EXCEPT ![l.term][Self] = Max({@, l.id - 1})]
      [] OTHER -> c

CountHeartbeat(c, l) ==
    CASE l.kind = "append" -> [c EXCEPT ![l.term][l.from] = @ + 1]
      [] l.kind = "sent" -> [c EXCEPT ![l.term][Self] = Max({@, l.id})]
      [] OTHER -> c

heartbeat_counts(n) ==
    FoldLeft(CountHeartbeat, [t \in Terms |-> [w \in Node \cup {Self} |-> 0]], logs[n])

\* The terms of a file, with the name that has most heartbeats and their number.
plot_heartbeat_lengths(n) ==
    LET c == heartbeat_counts(n)
        named == {t \in Terms : \E w \in Node \cup {Self} : c[t][w] > 0}
    IN  [t \in named |->
            LET w == CHOOSE w \in Node \cup {Self} :
                         \A v \in Node \cup {Self} : c[t][w] >= c[t][v]
            IN  [leader |-> w, length |-> c[t][w]]]
-----------------------------------------------------------------------------
(* Properties *)

(* The logs and what the scripts read from them stay within their types: a
   leader writes one line per heartbeat it sends. *)
TermLogsTypeOK ==
    /\ \A n \in Node : Len(logs[n]) <= MaxLines
    /\ term \in [Node -> {0} \cup Terms]
    /\ sent \in [Terms -> 0..MaxBeats]
    /\ \A s \in seen : s[3] <= sent[s[2]] /\ s[1] # LeaderOf[s[2]]

Orders == {o \in [1..Cardinality(Node) -> Node] : IsInjective(o)}

\* In whatever order the directory lists the files, election_analysis.py gives each
\* term its leader, and only to terms that some file mentions after its warm-up:
\* "first writer wins" is harmless because a term has one leader.
TermLeaderIsLeader ==
    \A o \in Orders : \A t \in Terms :
        election_analysis(o).leaders[t] =
            IF \E n \in Node : \E i \in DOMAIN AfterWarmUp(n) :
                   AfterWarmUp(n)[i].kind = "append" /\ AfterWarmUp(n)[i].term = t
            THEN NodeName(LeaderOf[t]) ELSE NoName

\* The two scripts that count how often a node ranked first agree, in every order of
\* the files.
RanksAgree == \A o \in Orders : election_analysis(o).rank0 = rank_analysis

\* length_analysis.py names the right leader of every term in every file, and no
\* follower's file makes a term longer than its leader's file does.
LengthsAreBounded ==
    \A n \in Node : LET p == plot_heartbeat_lengths(n) IN
        \A t \in DOMAIN p :
            /\ p[t].leader = IF n = LeaderOf[t] THEN Self ELSE LeaderOf[t]
            /\ LET own == plot_heartbeat_lengths(LeaderOf[t])
               IN  t \in DOMAIN own /\ p[t].length <= own[t].length
=============================================================================
