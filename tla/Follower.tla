------------------------------ MODULE Follower ------------------------------
(***************************************************************************)
(* What a node promises for the AppendEntries it receives: each of them is *)
(* handled as one step, as module Node has it.  Terms, log and commit      *)
(* index of one node and the responses it has sent.  Module Workers takes  *)
(* the handler apart.                                                      *)
(***************************************************************************)
EXTENDS RaftLog

CONSTANT Messages   \* the AppendEntries that may be received, again and again

VARIABLES current_term, log, commitIndex, responses

vars == <<current_term, log, commitIndex, responses>>

(* A response; match_index is 0 in every failed one.                       *)
Response(term, success, match) ==
    [term |-> term, success |-> success, match |-> match]

(* The commit index after a message with this leader_commit.               *)
Committed(commit, leader_commit, last) ==
    IF leader_commit <= commit THEN commit
    ELSE IF leader_commit <= last THEN leader_commit ELSE last

Init ==
    /\ current_term = 0 /\ log = << >> /\ commitIndex = 0
    /\ responses = {}

Reject(m) ==
    /\ m.term < current_term
    /\ responses' = responses \union {Response(current_term, FALSE, 0)}
    /\ UNCHANGED <<current_term, log, commitIndex>>

Mismatch(m) ==
    /\ m.term >= current_term
    /\ current_term' = m.term
    /\ ~ContainsEntry(log, m.prev_index, m.prev_term)
    /\ responses' = responses \union {Response(m.term, FALSE, 0)}
    /\ UNCHANGED <<log, commitIndex>>

Accept(m) ==
    /\ m.term >= current_term
    /\ current_term' = m.term
    /\ ContainsEntry(log, m.prev_index, m.prev_term)
    /\ log' = MergeEntries(log, m.prev_index, m.entries)
    /\ commitIndex' = Committed(commitIndex, m.commit, Len(log'))
    /\ responses' = responses \union
           {Response(m.term, TRUE, m.prev_index + Len(m.entries))}

HandleAppendEntries(m) == Reject(m) \/ Mismatch(m) \/ Accept(m)

(* election_timeout_cb() raises the term.                                  *)
ElectionTimeout ==
    /\ current_term' = current_term + 1
    /\ UNCHANGED <<log, commitIndex, responses>>

Next == (\E m \in Messages : HandleAppendEntries(m)) \/ ElectionTimeout

Spec == Init /\ [][Next]_vars
=============================================================================
