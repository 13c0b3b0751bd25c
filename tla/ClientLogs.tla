----------------------------- MODULE ClientLogs -----------------------------
(***************************************************************************)
(* The scripts that turn the clients' logs into numbers.  On each host     *)
(* scripts/remote_thp_summary.py counts the commits per second, without    *)
(* the beginning and the end of the log, and scripts/merge_thp_summaries.py*)
(* adds the counts of all hosts; scripts/analyze_resp_time.py splits the   *)
(* log by leader, and scripts/sum_all_clients.py combines the results of   *)
(* all hosts.  Logs grow line by line; analyze_resp_time.py is a reader    *)
(* that takes every line as it comes, the others are functions of a log.   *)
(***************************************************************************)
EXTENDS Integers, Sequences, FiniteSets, SequencesExt, FiniteSetsExt

CONSTANTS
    Hosts,        \* the hosts that run a client, 1..n
    Leader,       \* addresses of servers
    NoLeader,
    Latencies,    \* latencies that occur
    Kinds,        \* kinds of lines that occur
    Elapsed,      \* time that may pass between two lines, in ticks
    Tick,         \* ticks per second
    Trim,         \* seconds dropped at either end of a log
    MaxLines      \* bound: lines of all logs

\* "Begin of Leadership under", "End of Leadership under" and "Received
\* ClientResponse" with success=1 or success=0; "other" lines have a time stamp only.
LineBody ==
    {b \in [kind : {"begin"}, leader : Leader]
               \cup [kind : {"end", "failure", "other"}]
               \cup [kind : {"success"}, from : Leader, latency : Latencies] :
        b.kind \in Kinds}

VARIABLES
    now,          \* time of the last line of any log
    log,          \* the log of each host
    resp          \* analyze_resp_time.py, reading the log of each host

vars == <<now, log, resp>>

Reader ==
    [begin |-> -1, end |-> -1, active |-> NoLeader, start |-> 0, commits |-> 0,
     sections |-> [l \in Leader |-> [commits |-> 0, duration |-> 0]],
     latencies |-> <<>>, perLeader |-> [l \in Leader |-> <<>>]]

Init ==
    /\ now = 0
    /\ log = [h \in Hosts |-> <<>>]
    /\ resp = [h \in Hosts |-> Reader]
-----------------------------------------------------------------------------
(* analyze_resp_time.py *)

\* Mutant: the commits of a section that ends with the next "Begin" are lost
CloseSection_Drops(r, at) ==
    [r EXCEPT !.sections[r.active].duration = @ + (at - r.start)]

CloseSection(r, at) ==
    [r EXCEPT !.sections[r.active].commits = @ + r.commits,
              !.sections[r.active].duration = @ + (at - r.start)]

Closed(r, at) == IF r.active = NoLeader THEN r ELSE CloseSection(r, at)

BeginSection(r, l) ==
    [Closed(r, l.at) EXCEPT !.active = l.leader, !.start = l.at, !.commits = 0]

EndSection(r, l) == [Closed(r, l.at) EXCEPT !.active = NoLeader, !.commits = 0]

Respond(r, l) ==
    [r EXCEPT !.latencies = Append(@, l.latency),
              !.perLeader[l.from] = Append(@, l.latency),
              !.commits = IF r.active = NoLeader THEN @ ELSE @ + 1]

ReadLine(reader, l) ==
    LET r == [reader EXCEPT !.begin = IF @ = -1 THEN l.at ELSE @, !.end = l.at]
    IN  CASE l.kind = "begin" -> BeginSection(r, l)
          [] l.kind = "end" -> EndSection(r, l)
          [] l.kind = "success" -> Respond(r, l)
          [] OTHER -> r

\* At the end of the log an open section is closed.
PerLeader(r) == Closed(r, r.end).sections

SumSeq(s) == FoldSeq(LAMBDA x, acc : x + acc, 0, s)

\* "Overall Throughput" as a fraction; printed only when it is defined
Runtime(r) == r.end - r.begin

HasOverall(r) == r.latencies # <<>> /\ Runtime(r) > 0
-----------------------------------------------------------------------------
(* sum_all_clients.py *)

Parsed(rs) == {h \in Hosts : HasOverall(rs[h])}

\* All fractions over the common denominator
Common(rs) == MapThenFoldSet(LAMBDA x, y : x * y, 1, LAMBDA h : Runtime(rs[h]),
                             LAMBDA T : CHOOSE h \in T : TRUE, Parsed(rs))

Throughput(rs, h) == Len(rs[h].latencies) * (Common(rs) \div Runtime(rs[h]))

total_tp(rs) == MapThenSumSet(LAMBDA h : Throughput(rs, h), Parsed(rs))

\* Average latency times throughput of a host: the lengths cancel.
weighted_lat_sum(rs) ==
    MapThenSumSet(LAMBDA h : SumSeq(rs[h].latencies) * (Common(rs) \div Runtime(rs[h])),
                  Parsed(rs))
-----------------------------------------------------------------------------
(* remote_thp_summary.py and merge_thp_summaries.py *)

parse_success_timestamps(lines) ==
    LET successes == SelectSeq(lines, LAMBDA l : l.kind = "success")
    IN  [i \in DOMAIN successes |-> successes[i].at]

Trimmed(ts) ==
    SelectSeq(ts, LAMBDA t : Head(ts) + Trim * Tick <= t /\ t <= Last(ts) - Trim * Tick)

NoSeconds == [s \in {} |-> 0]

Plus(f, s, n) ==
    [x \in DOMAIN f \cup {s} |->
        (IF x \in DOMAIN f THEN f[x] ELSE 0) + (IF x = s THEN n ELSE 0)]

\* The CSV file: for each second with a commit, their number
thp_summary(lines) ==
    FoldSeq(LAMBDA t, f : Plus(f, t \div Tick, 1), NoSeconds,
            Trimmed(parse_success_timestamps(lines)))

AddSummary(f, g) ==
    [s \in DOMAIN f \cup DOMAIN g |->
        (IF s \in DOMAIN f THEN f[s] ELSE 0) + (IF s \in DOMAIN g THEN g[s] ELSE 0)]

\* Mutant: a second that an earlier file has is overwritten
merge_thp_summaries_Overwrites(ls) ==
    FoldSeq(LAMBDA h, f : thp_summary(ls[h]) @@ f, NoSeconds, [h \in Hosts |-> h])

merge_thp_summaries(ls) ==
    FoldSeq(LAMBDA h, f : AddSummary(f, thp_summary(ls[h])), NoSeconds, [h \in Hosts |-> h])
-----------------------------------------------------------------------------
Lines == SumSeq([h \in Hosts |-> Len(log[h])])

WriteLine(h, body, d) ==
    LET l == [at |-> now + d] @@ body
    IN  /\ now' = now + d
        /\ log' = [log EXCEPT ![h] = Append(@, l)]
        /\ resp' = [resp EXCEPT ![h] = ReadLine(@, l)]

Next ==
    /\ Lines < MaxLines
    /\ \E h \in Hosts, body \in LineBody, d \in Elapsed : WriteLine(h, body, d)

Spec == Init /\ [][Next]_vars
-----------------------------------------------------------------------------
(* Properties *)

(* The log and what the reader of analyze_resp_time.py has collected stay
   within their types: no section has more answers than the log. *)
ClientLogsTypeOK ==
    /\ now \in Nat
    /\ \A h \in Hosts : /\ resp[h].active \in Leader \cup {NoLeader}
                        /\ resp[h].latencies \in Seq(Latencies)
                        /\ resp[h].commits \in 0..Len(log[h])

\* Line i of a log stands in a leadership section of l: the last marker before it
\* is the beginning of one.
InSection(lines, i, l) ==
    \E b \in 1..(i - 1) :
        /\ lines[b].kind = "begin" /\ lines[b].leader = l
        /\ \A k \in (b + 1)..(i - 1) : lines[k].kind \notin {"begin", "end"}

\* analyze_resp_time.py attributes every commit to the section it was logged in, and
\* every moment between two lines to the section they lie in, whether sections end
\* with a marker, with the next section or with the log.
SectionsAreExact ==
    \A h \in Hosts, l \in Leader :
        PerLeader(resp[h])[l] =
            [commits |-> Cardinality({i \in DOMAIN log[h] :
                                log[h][i].kind = "success" /\ InSection(log[h], i, l)}),
             duration |-> SumSeq([i \in DOMAIN log[h] |->
                                IF InSection(log[h], i, l)
                                THEN log[h][i].at - log[h][i - 1].at ELSE 0])]

\* The samples per leader are together those of the whole log: only successful
\* responses, each once.
LatenciesAreSplit ==
    \A h \in Hosts :
        /\ Len(resp[h].latencies) =
               Cardinality({i \in DOMAIN log[h] : log[h][i].kind = "success"})
        /\ SumSeq(resp[h].latencies) =
               MapThenSumSet(LAMBDA l : SumSeq(resp[h].perLeader[l]), Leader)

\* The weighted average latency of sum_all_clients.py lies between the smallest and
\* the largest latency of the hosts it could parse.
WeightedIsBetween ==
    Parsed(resp) # {} =>
        LET all == UNION {ToSet(resp[h].latencies) : h \in Parsed(resp)}
        IN  /\ Min(all) * total_tp(resp) <= weighted_lat_sum(resp)
            /\ weighted_lat_sum(resp) <= Max(all) * total_tp(resp)

Successes(h) == {i \in DOMAIN log[h] : log[h][i].kind = "success"}

\* The host's window: what is at least Trim seconds from its first and last commit
InWindow(h, at) ==
    /\ Successes(h) # {}
    /\ log[h][Min(Successes(h))].at + Trim * Tick <= at
    /\ at <= log[h][Max(Successes(h))].at - Trim * Tick

\* The combined throughput of a second is the number of commits that all clients
\* logged in this second and in their window; seconds without any are left out.
ThroughputIsExact ==
    LET counted(s) == {<<h, i>> \in {<<h, i>> \in Hosts \X (1..MaxLines) : i \in Successes(h)} :
                          log[h][i].at \div Tick = s /\ InWindow(h, log[h][i].at)}
    IN  merge_thp_summaries(log) =
            [s \in {x \in 0..now : counted(x) # {}} |-> Cardinality(counted(s))]
=============================================================================
