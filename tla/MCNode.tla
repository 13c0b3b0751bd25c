------------------------------- MODULE MCNode -------------------------------
(* Instances of Node for TLC.                                               *)
EXTENDS Node, TLC

CONSTANTS n1, n2, n3

\* n1 and n2 may stand, n3 only votes.
CandidateSymmetry == Permutations({n1, n2})

\* n1 is the only node that may stand.
FollowerSymmetry == Permutations({n2, n3})

\* n1 never proposes entries to n2, as send_proposals_to_followers leaves out
\* the follower with a fixed address.
OneSkipped == {<<n1, n2>>}

\* What the properties of replication look at: the histories of the election
\* influence nothing and are left out of the comparison of states.
ReplicationView ==
    <<stateVars, loopVars, logVars, indexVars, msgs, dups, requests, leaders,
      acked>>

\* The part of f that is read by the nodes with role r before it is reset
ReadBy(r, f) == [i \in {j \in Server : role[j] = r} |-> f[i]]

\* What the logs and the roles depend on.  The election timer of a node that
\* may not stand, and the leader a node would name to a client, do not matter;
\* only candidates count votes, and become_leader resets the indexes.
LogView ==
    <<role, current_term, voted_for, ReadBy("CANDIDATE", votes_received),
      [i \in EligibleLeaders |-> election_timer[i]], election_async_tasks,
      draining, log, commitIndex, ReadBy("LEADER", next_index),
      ReadBy("LEADER", match_index), inflight, msgs, requests, leaders>>

\* Bound: a second task is not queued while one is waiting.  (The runs about the
\* election have no such bound.)
OneTaskQueued == \A i \in Server : Len(election_async_tasks[i]) <= 1

\* Bound: a behaviour has a message received twice or a second election, not both.
DuplicateOrReelection == dups = 0 \/ \A i \in Server : current_term[i] <= 1

\* What petitions and roles depend on when no entries are replicated
PetitionView ==
    <<stateVars, election_timer, heartbeat_timer, failure_timer,
      heartbeat_count, election_async_tasks, draining, msgs, petitioned>>
=============================================================================
