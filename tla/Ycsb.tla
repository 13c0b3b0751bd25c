-------------------------------- MODULE Ycsb --------------------------------
(***************************************************************************)
(* The scripts that compare the results of the ZooKeeper experiments:      *)
(* scripts/ycsb_compare.py, scripts/ycsb_compare_both.py,                  *)
(* scripts/ycsb_thread_analysis.py, scripts/ycsb_analysis.py and           *)
(* scripts/ycsb_analysis_auto.py.  A behaviour is the directory being      *)
(* filled by run_ycsb_workload_from_node (module ZooKeeper), whose runs    *)
(* may end in the middle of a line; each script is a function of the       *)
(* files and of the order in which glob lists them.                        *)
(***************************************************************************)
EXTENDS Integers, Sequences, FiniteSets, SequencesExt, FiniteSetsExt, TLC

CONSTANTS
    Names,         \* the file names that may be written
    Values,        \* throughputs and latencies
    Outputs,       \* what a file may hold: sequences of Line
    MaxFiles       \* bound: files in the directory

\* The value of a line that was cut off.
Cut == 0

NoValue == -1

\* "[OVERALL], Throughput(ops/sec), v", "[READ], AverageLatency(us), v", and so on.
Line == [section : {"OVERALL", "READ", "UPDATE"}, value : Values \cup {Cut}]

VARIABLE files     \* the directory: a function from names to what the files hold

Init == files = <<>>

WriteFile(n, out) ==
    /\ Cardinality(DOMAIN files \cup {n}) <= MaxFiles
    /\ files' = (n :> out) @@ files

Next == \E n \in Names, out \in Outputs : WriteFile(n, out)

Spec == Init /\ [][Next]_files
-----------------------------------------------------------------------------
(* Reading a file *)

\* float() of the last part of a line; of one that is cut off it raises ValueError.
ReadValue(old, l) == IF l.value = Cut THEN old ELSE l.value

ParseLine(r, l) ==
    CASE l.section = "OVERALL" -> [r EXCEPT !.throughput = ReadValue(@, l)]
      [] l.section = "UPDATE" -> [r EXCEPT !.update_avg = ReadValue(@, l)]
      [] OTHER -> r

parse_ycsb_file(n) ==
    FoldLeft(ParseLine, [throughput |-> NoValue, update_avg |-> NoValue], files[n])

ExpLine(r, l) ==
    IF l.value = Cut THEN r        \* fewer than three parts
    ELSE CASE l.section = "OVERALL" -> [r EXCEPT !.throughput = l.value]
           [] l.section = "READ" -> [r EXCEPT !.read_avg = l.value]
           [] l.section = "UPDATE" -> [r EXCEPT !.update_avg = l.value]

\* What plot_combined_ycsb_profiles keeps of a file.
exp_data(n) ==
    FoldLeft(ExpLine, [throughput |-> NoValue, read_avg |-> NoValue, update_avg |-> NoValue], files[n])

\* plot_combined_ycsb_profiles: one bar for each file, empty where a value is NoValue.
plot_combined_ycsb_profiles(fs) == [i \in DOMAIN fs |-> exp_data(fs[i])]

\* ycsb_analysis_auto.py: the files of one setting, by leader.
automated_plot_experiments(fs) ==
    LET matched == {n \in Range(fs) : n.kind = "pareto"}
        keys == {[mean |-> n.mean, read |-> n.read] : n \in matched}
        Of(k) == {n \in matched : n.mean = k.mean /\ n.read = k.read}
    IN  [k \in keys |-> plot_combined_ycsb_profiles(
                            SetToSortSeq(Of(k), LAMBDA m, n : m.node < n.node))]

Parsed(n) == parse_ycsb_file(n).throughput # NoValue /\ parse_ycsb_file(n).update_avg # NoValue
-----------------------------------------------------------------------------
(* Groups *)

\* groups.setdefault(key, []).append(...)
AddTo(g, k, v) == IF k \in DOMAIN g THEN [g EXCEPT ![k] = Append(@, v)] ELSE (k :> <<v>>) @@ g

CompareKey(n) == [node |-> n.node, lat |-> n.lat, thd |-> n.thd]

BothKey(n) == [node |-> n.node, lat |-> n.lat, thd |-> n.thd, type |-> n.kind]

\* ycsb_compare.py
group_experiment_results(fs) ==
    FoldLeft(LAMBDA g, n : IF n.kind = "regular" /\ Parsed(n)
                           THEN AddTo(g, CompareKey(n), parse_ycsb_file(n)) ELSE g,
             <<>>, fs)

\* ycsb_compare_both.py
group_both(fs) ==
    FoldLeft(LAMBDA g, n : IF n.kind \in {"regular", "triple"} /\ Parsed(n)
                           THEN AddTo(g, BothKey(n), parse_ycsb_file(n)) ELSE g,
             <<>>, fs)

\* main of ycsb_thread_analysis.py
group_threads(fs) ==
    FoldLeft(LAMBDA g, n : IF n.kind = "threads" /\ Parsed(n)
                           THEN AddTo(g, [node |-> n.node, lat |-> n.lat],
                                      [thd |-> n.thd] @@ parse_ycsb_file(n))
                           ELSE g,
             <<>>, fs)

\* sorted_keys of ycsb_compare.py: by latency, node and thread count
KeyBefore(j, k) ==
    \/ j.lat < k.lat
    \/ j.lat = k.lat /\ j.node < k.node
    \/ j.lat = k.lat /\ j.node = k.node /\ j.thd < k.thd

sorted_keys(g) == SetToSortSeq(DOMAIN g, KeyBefore)

SumOf(s, F(_)) == FoldLeft(LAMBDA x, v : x + F(v), 0, s)

\* The bars of plot_bar_charts; sums and counts stand for the means.
plot_bar_charts(g) ==
    [i \in 1..Cardinality(DOMAIN g) |->
        LET k == sorted_keys(g)[i]
        IN  [key |-> k, runs |-> Len(g[k]),
             throughput |-> SumOf(g[k], LAMBDA r : r.throughput),
             update |-> SumOf(g[k], LAMBDA r : r.update_avg)]]

\* Mutant: both gaps are taken to the smallest value
plot_gap_for_34_threads_Min(g, thd) ==
    LET with == {k \in DOMAIN g : \E i \in DOMAIN g[k] : g[k][i].thd = thd}
        Picked(k) == g[k][CHOOSE i \in DOMAIN g[k] : g[k][i].thd = thd]
        Least(f) == Min({Picked(k)[f] : k \in with})
    IN  [k \in with |-> [throughput_gap |-> Least("throughput") - Picked(k).throughput,
                         latency_gap |-> Picked(k).update_avg - Least("update_avg")]]

\* plot_gap_for_34_threads, for thd threads: the first entry of each group.
plot_gap_for_34_threads(g, thd) ==
    LET with == {k \in DOMAIN g : \E i \in DOMAIN g[k] : g[k][i].thd = thd}
        Picked(k) == g[k][CHOOSE i \in DOMAIN g[k] :
                              /\ g[k][i].thd = thd
                              /\ \A j \in 1..(i - 1) : g[k][j].thd # thd]
        max_thr == Max({Picked(k).throughput : k \in with})
        min_lat == Min({Picked(k).update_avg : k \in with})
    IN  [k \in with |-> [throughput_gap |-> max_thr - Picked(k).throughput,
                         latency_gap |-> Picked(k).update_avg - min_lat]]
-----------------------------------------------------------------------------
(* Properties *)

\* The orders in which glob may list the directory.
Listings ==
    {o \in [1..Cardinality(DOMAIN files) -> DOMAIN files] : IsInjective(o)}

\* The two ways of reading a file give the same throughput and the same update
\* latency, also of a run that was cut off or that wrote a line twice.
ParsersAgree ==
    \A o \in Listings : \A i \in DOMAIN o :
        LET e == plot_combined_ycsb_profiles(o)[i]
        IN  parse_ycsb_file(o[i]) =
                [throughput |-> e.throughput, update_avg |-> e.update_avg]

\* The bars that ycsb_compare.py draws are the regular bars of ycsb_compare_both.py:
\* each counts the same runs and has the same mean, in every order of the files.
RegularBarsAgree ==
    \A o, p \in Listings :
        LET b == group_both(p)
            regular == {k \in DOMAIN b : k.type = "regular"}
            bars == plot_bar_charts([k \in {CompareKey(j) : j \in regular} |->
                                        b[k @@ [type |-> "regular"]]])
        IN  plot_bar_charts(group_experiment_results(o)) = bars

\* The gaps at a thread count do not depend on the order of the files, none is
\* negative, and some setting has none to the best throughput.
GapsAreDetermined ==
    \A o, p \in Listings : \A thd \in {n.thd : n \in {m \in Names : m.kind = "threads"}} :
        LET g == plot_gap_for_34_threads(group_threads(o), thd)
        IN  /\ g = plot_gap_for_34_threads(group_threads(p), thd)
            /\ \A k \in DOMAIN g : g[k].throughput_gap >= 0 /\ g[k].latency_gap >= 0
            /\ DOMAIN g # {} => \E k \in DOMAIN g : g[k].throughput_gap = 0

\* A setting in the plot of ycsb_analysis_auto.py has each of its files once.
ProfilesAreComplete ==
    \A o \in Listings :
        LET a == automated_plot_experiments(o)
        IN  MapThenSumSet(LAMBDA k : Len(a[k]), DOMAIN a) =
                Cardinality({n \in DOMAIN files : n.kind = "pareto"})
=============================================================================
