------------------------------- MODULE RaftLog -------------------------------
(***************************************************************************)
(* The replicated log of a node (src/raftLog.cpp) and the loop with which  *)
(* Node::handle_append_entries merges received entries into it.            *)
(*                                                                         *)
(* A log is a sequence of entries; an entry has a field "term".  Indices   *)
(* start at 1, as in the code ("index starts at 1").                       *)
(***************************************************************************)
EXTENDS Integers, Sequences

\* RaftLog::getLastLogIndex
LastLogIndex(log) == Len(log)

\* RaftLog::getLastLogTerm
LastLogTerm(log) == IF log = <<>> THEN 0 ELSE log[Len(log)].term

\* The prev_term a leader puts in a message: the term of entry k, 0 when
\* RaftLog::getEntry finds no such entry.
EntryTerm(log, k) == IF k \in DOMAIN log THEN log[k].term ELSE 0

\* RaftLog::containsEntry
ContainsEntry(log, k, term) ==
    \/ k = 0
    \/ /\ k \in DOMAIN log
       /\ log[k].term = term

\* The positions of entries whose place in the log, counted from prev, is
\* empty or taken by an entry of another term.
Conflicts(log, prev, entries) ==
    {n \in DOMAIN entries : ~ /\ prev + n \in DOMAIN log
                              /\ log[prev + n].term = entries[n].term}

\* Mutant: what is already there is appended again
MergeEntries_Appends(log, prev, entries) == log \o entries

\* The whole merge loop of handle_append_entries: entries that are already
\* there are skipped, and from the first one that is not the log is cut and
\* the rest of the message appended.
MergeEntries(log, prev, entries) ==
    LET C == Conflicts(log, prev, entries)
        first == CHOOSE n \in C : \A m \in C : n <= m
    IN  IF C = {} THEN log
        ELSE SubSeq(log, 1, prev + first - 1)
                \o SubSeq(entries, first, Len(entries))
=============================================================================
