-------------------------------- MODULE Views -------------------------------
(***************************************************************************)
(* The scripts that cut the log of one server into views, the times it     *)
(* followed or led: scripts/parse_plot_log.py, scripts/extract_failure.py  *)
(* and scripts/analysis.py.  A behaviour is a log being written; each      *)
(* script's loop takes every line as it comes, so that its variables are   *)
(* those it would have at the end of a log that ends there.                *)
(***************************************************************************)
EXTENDS Integers, Sequences, FiniteSets, SequencesExt, FiniteSetsExt

CONSTANTS
    Terms, Ids,   \* the terms and heartbeat numbers that occur in a log
    Elapsed,      \* time that may pass between two lines
    Cutoff,       \* the first seconds of the log that are ignored (30)
    MaxLines      \* bound: lines of a log

\* What the patterns of the three scripts tell apart.  A line of another kind has
\* a time stamp ("other") or none they know ("untimed", also of a warning).
LineBody ==
    [kind : {"append", "other", "untimed"}]
        \cup [kind : {"sent"}, id : Ids, term : Terms]
        \cup [kind : {"received"}, term : Terms]
        \cup [kind : {"failures"}, count : Ids]

VARIABLES
    log,          \* the lines so far, each with its time
    plotted,      \* parse_log_file of parse_plot_log.py
    extracted,    \* plot_view_durations of extract_failure.py
    failures,     \* its other two functions
    analysed      \* parse_log_file of analysis.py

vars == <<log, plotted, extracted, failures, analysed>>

Timed(l) == l.kind # "untimed"

NoView == [role |-> "none", start |-> 0]

\* initial: the first time stamp, -1 before there is one
Reader == [initial |-> -1, view |-> NoView, beats |-> 0, views |-> <<>>, last |-> 0]

NoFailures == [initial |-> -1, last |-> -1, counts |-> <<>>]

NoTermView == [role |-> "none", term |-> -1, count |-> 0]

Init ==
    /\ log = <<>>
    /\ plotted = Reader /\ extracted = Reader /\ failures = NoFailures
    /\ analysed = [view |-> NoTermView, views |-> <<>>]
-----------------------------------------------------------------------------
(* Views by role *)

RoleOf(l) ==
    CASE l.kind = "append" -> "follower"
      [] l.kind = "sent" -> "leader"
      [] OTHER -> "none"

IsHeartbeat(l) == l.kind \in {"sent", "received"}

Ended(r, end) ==
    [role |-> r.view.role, start |-> r.view.start, end |-> end,
     duration |-> end - r.view.start, beats |-> r.beats]

\* Mutant: the number of heartbeats is not reset
SaveView_NoReset(r, l) == [r EXCEPT !.views = Append(@, Ended(r, l.at))]

SaveView(r, l) == [r EXCEPT !.views = Append(@, Ended(r, l.at)), !.beats = 0]

\* A line of another role than the present view's ends the view and begins one.
ChangeView(r, l) ==
    IF RoleOf(l) = "none" \/ RoleOf(l) = r.view.role THEN r
    ELSE [(IF r.view = NoView THEN r ELSE SaveView(r, l))
             EXCEPT !.view = [role |-> RoleOf(l), start |-> l.at]]

CountBeat(r, l) ==
    IF r.view # NoView /\ IsHeartbeat(l) THEN [r EXCEPT !.beats = @ + 1] ELSE r

\* parse_plot_log.py: the first line with a time stamp is skipped.
parse_log_file(r, l) ==
    IF ~Timed(l) THEN r
    ELSE LET timed == [r EXCEPT !.last = l.at]
         IN  IF r.initial = -1 THEN [timed EXCEPT !.initial = l.at]
             ELSE IF l.at < r.initial + Cutoff THEN timed
             ELSE CountBeat(ChangeView(timed, l), l)

\* extract_failure.py: main reads the log once for the first time stamp, and the
\* functions skip what comes before the cutoff.
FirstTime(r, l) == IF r.initial = -1 THEN l.at ELSE r.initial

plot_view_durations(r, l) ==
    IF ~Timed(l) THEN r
    ELSE LET timed == [r EXCEPT !.last = l.at, !.initial = FirstTime(r, l)]
         IN  IF l.at < timed.initial + Cutoff THEN timed
             ELSE CountBeat(ChangeView(timed, l), l)

\* The last view ends with the last time stamp.
AllViews(r) == IF r.view = NoView THEN r.views ELSE Append(r.views, Ended(r, r.last))

extract_last_heartbeat_failure(f, l) ==
    IF ~Timed(l) THEN f
    ELSE LET timed == [f EXCEPT !.initial = FirstTime(f, l)]
         IN  IF l.kind = "failures" /\ l.at >= timed.initial + Cutoff
             THEN [timed EXCEPT !.last = l.count]
             ELSE timed

plot_failure_occurrences(f, l) ==
    IF l.kind = "failures" /\ l.at >= f.initial + Cutoff
    THEN [f EXCEPT !.counts = Append(@, l.count)]
    ELSE f
-----------------------------------------------------------------------------
(* Views by term and role *)

TermRole(l) == IF l.kind = "sent" THEN "leader" ELSE "follower"

NewTermView(a, l) == a.view.term # l.term \/ a.view.role # TermRole(l)

StartTermView(a, l) ==
    IF ~NewTermView(a, l) THEN a
    ELSE [view |-> [role |-> TermRole(l), term |-> l.term, count |-> 0],
          views |-> IF a.view = NoTermView THEN a.views ELSE Append(a.views, a.view)]

\* analysis.py: the count of a leader is its highest heartbeat number, that of a
\* follower the number of heartbeats.
analyse(a, l) ==
    IF ~IsHeartbeat(l) THEN a
    ELSE LET s == StartTermView(a, l)
         IN  [s EXCEPT !.view.count = IF l.kind = "sent" THEN Max({@, l.id}) ELSE @ + 1]

AllTermViews(a) == IF a.view = NoTermView THEN a.views ELSE Append(a.views, a.view)
-----------------------------------------------------------------------------
Now == IF log = <<>> THEN 0 ELSE Last(log).at

WriteLine(body, d) ==
    LET l == [at |-> Now + d] @@ body
    IN  /\ log' = Append(log, l)
        /\ plotted' = parse_log_file(plotted, l)
        /\ extracted' = plot_view_durations(extracted, l)
        /\ failures' = plot_failure_occurrences(extract_last_heartbeat_failure(failures, l), l)
        /\ analysed' = analyse(analysed, l)

Next ==
    /\ Len(log) < MaxLines
    /\ \E body \in LineBody, d \in Elapsed : WriteLine(body, d)

Spec == Init /\ [][Next]_vars
-----------------------------------------------------------------------------
(* Properties *)

TimedLines == {i \in DOMAIN log : Timed(log[i])}

\* The lines after the cutoff
Considered ==
    {i \in TimedLines : log[i].at >= log[Min(TimedLines)].at + Cutoff}

RoleLines == {i \in Considered : RoleOf(log[i]) # "none"}

(* The log, the open view and its count of heartbeats (parse_log_file) stay
   within their types: no view has more heartbeats than the log. *)
ViewsTypeOK ==
    /\ \A i \in DOMAIN log : log[i].at \in Nat
    /\ plotted.view.role \in {"none", "follower", "leader"}
    /\ plotted.beats \in 0..Cardinality({i \in DOMAIN log : IsHeartbeat(log[i])})
    /\ analysed.view.count \in Nat

\* The views of parse_plot_log.py leave no gap: roles alternate, each view begins
\* when the one before ends, and together they last from the first line that shows
\* a role to the end of the log.
ViewsCoverLog ==
    LET views == AllViews(plotted)
    IN  /\ (views = <<>>) = (RoleLines = {})
        /\ \A i \in 1..(Len(views) - 1) : /\ views[i].end = views[i + 1].start
                                          /\ views[i].role # views[i + 1].role
        /\ views # <<>> =>
             FoldSeq(LAMBDA v, s : v.duration + s, 0, views)
                 = log[Max(TimedLines)].at - log[Min(RoleLines)].at

\* No heartbeat is lost or counted twice at a change of view: the views of
\* parse_plot_log.py together have the heartbeats logged since the first view began.
HeartbeatsConserved ==
    FoldSeq(LAMBDA v, s : v.beats + s, 0, AllViews(plotted))
        = Cardinality({i \in Considered :
                          IsHeartbeat(log[i]) /\ \E j \in RoleLines : j <= i})

\* plot_view_durations, which reads the log twice, and parse_plot_log.py, which
\* reads it once, find the same views.
SameViews == AllViews(extracted) = AllViews(plotted)

\* The number of failures that extract_failure.py prints is the last it plots.
PrintedIsPlotted ==
    failures.last = IF failures.counts = <<>> THEN -1 ELSE Last(failures.counts)

HeartbeatLines == {i \in DOMAIN log : IsHeartbeat(log[i])}

\* Heartbeat line i begins a view: the heartbeat line before is of another term or role
BeginsView(i) ==
    \A j \in HeartbeatLines :
        j < i /\ (\A k \in HeartbeatLines : ~ (j < k /\ k < i))
            => log[j].term # log[i].term \/ log[j].kind # log[i].kind

\* The heartbeat lines of the view that begins with line i
ViewFrom(i) ==
    {j \in HeartbeatLines :
        i <= j /\ ~ \E k \in HeartbeatLines : i < k /\ k <= j /\ BeginsView(k)}

\* analysis.py: the views are the longest runs of heartbeats of one term and role,
\* in order, and count what the run holds.
TermViewsAreRuns ==
    LET starts == SetToSortSeq({i \in HeartbeatLines : BeginsView(i)}, <)
    IN  AllTermViews(analysed) =
            [n \in DOMAIN starts |->
                [role |-> TermRole(log[starts[n]]), term |-> log[starts[n]].term,
                 count |-> IF log[starts[n]].kind = "sent"
                           THEN Max({log[j].id : j \in ViewFrom(starts[n])})
                           ELSE Cardinality(ViewFrom(starts[n]))]]
=============================================================================
