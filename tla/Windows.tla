------------------------------- MODULE Windows ------------------------------
(***************************************************************************)
(* Scripts that read one server's log: scripts/remote_count_timeouts.py    *)
(* and scripts/remote_detect_stats.py, which cut a window out of it, and   *)
(* the parser of scripts/time_cdf.ipynb.  A behaviour is the log being     *)
(* written by src/node.cpp, whose LOG(INFO) and LOG(WARNING) begin a line  *)
(* with I or W; each script is a function of the log.                      *)
(***************************************************************************)
EXTENDS Integers, Sequences, FiniteSets, SequencesExt, FiniteSetsExt, TLC

CONSTANTS
    Values,        \* timeouts and terms that are logged
    Elapsed,       \* time that may pass between two lines
    SkipFirst, SkipLast,   \* --skip-first, --skip-last
    MaxLines       \* bound: lines of a log

\* What node.cpp logs, as far as some pattern looks for it: an election timeout is a
\* warning, all else is information.  A line may also lack the prefix ("bare").
LineBody ==
    [kind : {"timeout"}, sev : {"W"}]
        \cup [kind : {"stopped", "other"}, sev : {"I"}]
        \cup [kind : {"raft"}, sev : {"I"}, ms : Values]
        \cup [kind : {"became"}, sev : {"I"}, term : Values]
        \cup [kind : {"other"}, sev : {"none"}]

VARIABLE log

Init == log = <<>>

Now == IF log = <<>> THEN 0 ELSE Last(log).at

WriteLine(body, d) ==
    /\ Len(log) < MaxLines
    /\ log' = Append(log, [at |-> Now + d] @@ body)

Next == \E body \in LineBody, d \in Elapsed : WriteLine(body, d)

Spec == Init /\ [][Next]_log
-----------------------------------------------------------------------------
(* remote_count_timeouts.py and remote_detect_stats.py *)

\* parse_ts: "^I..." is the only prefix that has a time
parse_ts(l) == l.sev = "I"

Stamps == {log[i].at : i \in {j \in DOMAIN log : parse_ts(log[j])}}

first_ts == Min(Stamps)

last_ts == Max(Stamps)

NotSkipped(l) ==
    /\ parse_ts(l)
    /\ ~(l.at - first_ts < SkipFirst)
    /\ ~(last_ts - l.at < SkipLast)

Inside(l) ==
    /\ parse_ts(l)
    /\ first_ts + SkipFirst <= l.at /\ l.at <= last_ts - SkipLast

\* The detection times: PAT_LINE is "Using Raft estimation for election timeout".
samples ==
    LET in == SelectSeq(log, LAMBDA l : Inside(l) /\ l.kind = "raft")
    IN  [i \in DOMAIN in |-> in[i].ms]
-----------------------------------------------------------------------------
(* time_cdf.ipynb *)

NoMatch == 0

Failure(r) ==
    IF r.match = NoMatch THEN [r EXCEPT !.crashed = TRUE]
    ELSE [r EXCEPT !.failures = Append(@, r.match)]

\* Mutant: the match of the last election is kept
ReadEvent_Keeps(r, l) ==
    CASE r.crashed -> r
      [] ~r.crashed /\ l.kind = "stopped" -> Failure(r)
      [] OTHER -> [r EXCEPT !.match = IF l.kind = "became" THEN l.term ELSE @]

\* A failure takes its term from election_match, the match of the last line that was
\* no failure; if that line is no election there is no match, and an exception.
ReadEvent(r, l) ==
    CASE r.crashed -> r
      [] ~r.crashed /\ l.kind = "stopped" -> Failure(r)
      [] OTHER -> [r EXCEPT !.match = IF l.kind = "became" THEN l.term ELSE NoMatch]

parse_log_file ==
    FoldLeft(ReadEvent, [crashed |-> FALSE, match |-> NoMatch, failures |-> <<>>], log)
-----------------------------------------------------------------------------
(* Properties *)

\* The two scripts that run on the servers cut the same window out of a log, one by
\* differences and one by limits, so that the detection times are those between the
\* skipped ends, in the order of the log.
SamplesAreWindow ==
    LET in == SelectSeq(log, LAMBDA l : NotSkipped(l) /\ l.kind = "raft")
    IN  samples = [i \in DOMAIN in |-> in[i].ms]

\* What the notebook's parser leaves behind: unless it has raised an exception, it has
\* found every failure, and each carries the term of the election that is right before
\* it, with at most other failures in between (election_match outlives its line).
FailuresFollowElections ==
    LET stopped == SelectSeq([i \in DOMAIN log |-> i], LAMBDA i : log[i].kind = "stopped")
        LineBefore(i) == Max({0} \cup {j \in 1..i : log[j].kind # "stopped"})
    IN  ~parse_log_file.crashed =>
            /\ Len(parse_log_file.failures) = Len(stopped)
            /\ \A k \in DOMAIN stopped :
                   LET j == LineBefore(stopped[k])
                   IN  /\ j > 0 /\ log[j].kind = "became"
                       /\ parse_log_file.failures[k] = log[j].term
=============================================================================
