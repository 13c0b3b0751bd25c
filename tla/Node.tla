-------------------------------- MODULE Node --------------------------------
(***************************************************************************)
(* A cluster of nodes (src/node.cpp): leader election, log replication and *)
(* leader petitions over UDP.                                              *)
(*                                                                         *)
(* Every message handler, timer callback and queued task of a node is one  *)
(* action.  A node's worker threads and its event loop thread interleave   *)
(* at that grain.  Messages travel in a set: any of them may overtake any  *)
(* other, be lost (never be received) or, MaxDup times in a behaviour, be  *)
(* received again.                                                         *)
(***************************************************************************)
EXTENDS RaftLog, FiniteSets

CONSTANTS
    Server,                \* peerIPs
    None,                  \* the empty string in voted_for, current_leader_ip
    EligibleLeaders,       \* eligibleLeaders ({}: every node is eligible)
    InitialEligibleLeaders,\* initialEligibleLeaders
    Skipped,               \* pairs <<leader, follower>> left out of proposals
    FailureLeader,         \* failureLeader: the leader simulates a failure ...
    MaxHeartbeats,         \* maxHeartbeats: ... after this many heartbeats
    MtuEntries,            \* number of log entries that fit in one datagram
    MaxTerm,               \* bound: no election beyond this term
    MaxRequests,           \* bound: client requests in a behaviour
    MaxPetitions,          \* bound: nodes and terms with a petition
    MaxDup,                \* bound: messages received twice
    MaxInFlight,           \* bound: messages in flight
    Lossy                  \* does the network lose messages?

ASSUME ConstantsAssumption ==
    /\ IsFiniteSet(Server)
    /\ None \notin Server
    /\ EligibleLeaders \subseteq Server
    /\ InitialEligibleLeaders \subseteq Server
    /\ Skipped \subseteq Server \X Server
    /\ FailureLeader \in BOOLEAN
    /\ MtuEntries \in Nat \ {0}
    /\ {MaxHeartbeats, MaxTerm, MaxRequests, MaxPetitions, MaxDup,
        MaxInFlight} \subseteq Nat
    /\ Lossy \in BOOLEAN

VARIABLES
    role,                  \* FOLLOWER, CANDIDATE or LEADER
    current_term,
    voted_for,
    votes_received,
    current_leader,        \* current_leader_ip, current_leader_port
    latency_to_leader,     \* the senders of the petitions received
    election_timer,        \* is the timer active?
    heartbeat_timer,
    failure_timer,
    heartbeat_count,       \* saturates at MaxHeartbeats
    election_async_tasks,  \* tasks queued for the event loop thread
    draining,              \* the event loop thread is inside the task loop
    log,
    commitIndex,
    next_index,
    match_index,
    inflight,
    client_id_to_addr,     \* has this leader seen a request of the client?
    msgs,                  \* datagrams in flight
    dups,                  \* duplications so far
    requests,              \* client requests so far
    votes,                 \* history: votes granted
    heard,                 \* history: <<node, term>>, an AppendEntries of that
                           \* term was accepted
    leaders,               \* history: <<node, term>>, became leader in term
    acked,                 \* history: entries acknowledged to the client
    petitioned             \* history: <<node, term>>, the node sent a petition

stateVars   == <<role, current_term, voted_for, votes_received,
                 current_leader, latency_to_leader>>
loopVars    == <<election_timer, heartbeat_timer, failure_timer,
                 heartbeat_count, election_async_tasks, draining>>
logVars     == <<log, commitIndex>>
indexVars   == <<next_index, match_index, inflight, client_id_to_addr>>
historyVars == <<votes, heard, leaders, acked, petitioned>>
vars == <<stateVars, loopVars, logVars, indexVars, msgs, dups, requests,
          historyVars>>
-----------------------------------------------------------------------------
N == Cardinality(Server)

\* majority_count, the number of copies that commit an entry
majority_count == (N + 1) \div 2

\* Mutant: one vote too few
vote_quorum_Low == N \div 2

\* The number of votes that elect a leader
vote_quorum == N \div 2 + 1

Followers(i) == Server \ {i}

\* std::min and std::max
Lesser(a, b) == IF a < b THEN a ELSE b

Greater(a, b) == IF a > b THEN a ELSE b

\* Mutant: a message of the node's own term is stale
Stale_SameTerm(i, m) == m.term <= current_term[i]

\* Mutant: no message is stale
Stale_Never(i, m) == FALSE

\* The first test of handle_request_vote and handle_append_entries
Stale(i, m) == m.term < current_term[i]

\* A handler queues the task "reset" (restart the election timer) for the event
\* loop thread.  Nothing here depends on time: an active timer may fire at any
\* moment, so a restart that is only waiting for the thread is the same as a
\* restarted timer.  The task is kept in the queue only behind a "lead" (become
\* leader), which stops the timer; two resets in a row are one.
QueueReset(i) ==
    LET queue == election_async_tasks[i]
    IN  /\ election_timer' = [election_timer EXCEPT ![i] = @ \/ queue = <<>>]
        /\ election_async_tasks' = [election_async_tasks EXCEPT ![i] =
               IF queue = <<>> \/ queue[Len(queue)] = "reset"
               THEN queue ELSE Append(queue, "reset")]

\* The network loses some of the messages a step sends; the others are added
\* to the ones still in flight.
Transmit(inflight_msgs, out) ==
    \E lost \in SUBSET out :
        /\ Lossy \/ lost = {}
        /\ msgs' = inflight_msgs \cup (out \ lost)
        /\ Cardinality(msgs') <= MaxInFlight

\* A datagram is received: it leaves the network, unless the network delivers
\* a second copy later.  The handler sends the messages in out.
Deliver(m, out) ==
    \/ /\ Transmit(msgs \ {m}, out)
       /\ UNCHANGED dups
    \/ /\ dups < MaxDup
       /\ Transmit(msgs, out)
       /\ dups' = dups + 1

Send(out) == Transmit(msgs, out) /\ UNCHANGED dups
-----------------------------------------------------------------------------
Init ==
    /\ role = [i \in Server |-> "FOLLOWER"]
    /\ current_term = [i \in Server |-> 0]
    /\ voted_for = [i \in Server |-> None]
    /\ votes_received = [i \in Server |-> 0]
    /\ current_leader = [i \in Server |-> None]
    /\ latency_to_leader = [i \in Server |-> {}]
    /\ election_timer = [i \in Server |-> TRUE]
    /\ heartbeat_timer = [i \in Server |-> FALSE]
    /\ failure_timer = [i \in Server |-> FALSE]
    /\ heartbeat_count = [i \in Server |-> 0]
    /\ election_async_tasks = [i \in Server |-> <<>>]
    /\ draining = [i \in Server |-> FALSE]
    /\ log = [i \in Server |-> <<>>]
    /\ commitIndex = [i \in Server |-> 0]
    /\ next_index = [i \in Server |-> [j \in Server |-> 0]]
    /\ match_index = [i \in Server |-> [j \in Server |-> 0]]
    /\ inflight = [i \in Server |-> [j \in Server |-> FALSE]]
    /\ client_id_to_addr = [i \in Server |-> FALSE]
    /\ msgs = {} /\ dups = 0 /\ requests = 0
    /\ votes = {} /\ heard = {} /\ leaders = {} /\ acked = {}
    /\ petitioned = {}
-----------------------------------------------------------------------------
(* The event loop thread: timers and queued tasks *)

\* The early returns of election_timeout_cb
MayStand(i) ==
    /\ (current_term[i] = 0 /\ current_leader[i] = None)
           => i \in InitialEligibleLeaders
    /\ EligibleLeaders # {} => i \in EligibleLeaders

RequestVote(i, term, to, petition) ==
    [type |-> "RequestVote", from |-> i, to |-> to, term |-> term,
     last_log_index |-> LastLogIndex(log[i]),
     last_log_term |-> LastLogTerm(log[i]), is_petition |-> petition]

\* election_timeout_cb of a node that may not stand: the one-shot timer is
\* spent and nothing restarts it.
ElectionTimeoutIgnored(i) ==
    /\ election_timer[i] /\ ~draining[i]
    /\ ~MayStand(i)
    /\ election_timer' = [election_timer EXCEPT ![i] = FALSE]
    /\ UNCHANGED <<stateVars, heartbeat_timer, failure_timer, heartbeat_count,
                   election_async_tasks, draining, logVars, indexVars, msgs,
                   dups, requests, historyVars>>

\* election_timeout_cb: the node stands in the next term, whatever its role.
\* It votes for itself only when its own RequestVote comes back.
ElectionTimeout(i) ==
    /\ election_timer[i] /\ ~draining[i]
    /\ MayStand(i)
    /\ current_term[i] < MaxTerm
    /\ current_term' = [current_term EXCEPT ![i] = @ + 1]
    /\ role' = [role EXCEPT ![i] = "CANDIDATE"]
    /\ current_leader' = [current_leader EXCEPT ![i] = None]
    /\ voted_for' = [voted_for EXCEPT ![i] = i]
    /\ votes_received' = [votes_received EXCEPT ![i] = 0]
    /\ latency_to_leader' = [latency_to_leader EXCEPT ![i] = {}]
    /\ Send({RequestVote(i, current_term[i] + 1, j, FALSE) : j \in Server})
    /\ UNCHANGED <<loopVars, logVars, indexVars, requests, historyVars>>

\* next_index of every follower when node i becomes leader
InitialNextIndex(i) == LastLogIndex(log[i]) + 1

\* The task become_leader, run by process_election_async_task, and a reset
\* behind it.  It does not look at the role or the term again.  Timers do not
\* fire while more tasks are left.
BecomeLeader(i) ==
    LET rest  == Tail(election_async_tasks[i])
        reset == rest # <<>> /\ Head(rest) = "reset"
        left  == IF reset THEN Tail(rest) ELSE rest
    IN  /\ election_async_tasks[i] # <<>>
        /\ election_async_tasks' = [election_async_tasks EXCEPT ![i] = left]
        /\ draining' = [draining EXCEPT ![i] = left # <<>>]
        /\ role' = [role EXCEPT ![i] = "LEADER"]
        /\ current_leader' = [current_leader EXCEPT ![i] = i]
        /\ heartbeat_count' = [heartbeat_count EXCEPT ![i] = 0]
        /\ votes_received' = [votes_received EXCEPT ![i] = 0]
        /\ latency_to_leader' = [latency_to_leader EXCEPT ![i] = {}]
        /\ election_timer' = [election_timer EXCEPT ![i] = reset]
        /\ next_index' = [next_index EXCEPT ![i] =
               [j \in Server |-> IF j = i THEN @[j] ELSE InitialNextIndex(i)]]
        /\ match_index' = [match_index EXCEPT ![i] =
               [j \in Server |-> IF j = i THEN @[j] ELSE 0]]
        /\ heartbeat_timer' = [heartbeat_timer EXCEPT ![i] = TRUE]
        /\ leaders' = leaders \cup {<<i, current_term[i]>>}
        /\ UNCHANGED <<current_term, voted_for, failure_timer, logVars,
                       inflight, client_id_to_addr, msgs, dups, requests,
                       votes, heard, acked, petitioned>>

\* Mutant: prev_log_index is one too low
AppendEntries_LowPrev(i, j, l, start, count) ==
    [type |-> "AppendEntries", from |-> i, to |-> j, term |-> current_term[i],
     prev_log_index |-> start - 2, prev_log_term |-> EntryTerm(l, start - 2),
     entries |-> SubSeq(l, start, Lesser(start + count - 1, Len(l))),
     leader_commit |-> commitIndex[i]]

\* An AppendEntries of leader i for follower j with the entries of l from
\* index start on, at most count of them
AppendEntries(i, j, l, start, count) ==
    [type |-> "AppendEntries", from |-> i, to |-> j, term |-> current_term[i],
     prev_log_index |-> start - 1, prev_log_term |-> EntryTerm(l, start - 1),
     entries |-> SubSeq(l, start, Lesser(start + count - 1, Len(l))),
     leader_commit |-> commitIndex[i]]

\* heartbeat_cb and send_heartbeat.  The heartbeat a leader sends to itself is
\* left out: its handler changes nothing of what is modelled.
Heartbeat(i) ==
    /\ heartbeat_timer[i] /\ ~draining[i]
    /\ role[i] = "LEADER"
    /\ heartbeat_count' = [heartbeat_count EXCEPT ![i] =
           IF @ < MaxHeartbeats THEN @ + 1 ELSE @]
    /\ Send({AppendEntries(i, j, log[i], next_index[i][j], 0) : j \in Followers(i)})
    /\ failure_timer' = [failure_timer EXCEPT ![i] =
           @ \/ (FailureLeader /\ heartbeat_count'[i] >= MaxHeartbeats)]
    /\ UNCHANGED <<stateVars, election_timer, heartbeat_timer,
                   election_async_tasks, draining, logVars, indexVars,
                   requests, historyVars>>

\* failure_cb: also when the node is no longer leader
Failure(i) ==
    /\ failure_timer[i] /\ ~draining[i]
    /\ failure_timer' = [failure_timer EXCEPT ![i] = FALSE]
    /\ heartbeat_timer' = [heartbeat_timer EXCEPT ![i] = FALSE]
    /\ role' = [role EXCEPT ![i] = "FOLLOWER"]
    /\ current_leader' = [current_leader EXCEPT ![i] = None]
    /\ UNCHANGED <<current_term, voted_for, votes_received, latency_to_leader,
                   election_timer, heartbeat_count, election_async_tasks,
                   draining, logVars, indexVars, msgs, dups, requests,
                   historyVars>>
-----------------------------------------------------------------------------
(* handle_request_vote *)

VoteResponse(i, to, term, granted) ==
    [type |-> "VoteResponse", from |-> i, to |-> to, term |-> term,
     vote_granted |-> granted]

UpToDate(i, m) ==
    \/ m.last_log_term > LastLogTerm(log[i])
    \/ /\ m.last_log_term = LastLogTerm(log[i])
       /\ m.last_log_index >= LastLogIndex(log[i])

\* Mutant: voted_for is emptied by every request
VotedFor_Emptied(i, m) == None

\* voted_for after the term of m is adopted
VotedFor(i, m) == IF m.term > current_term[i] THEN None ELSE voted_for[i]

Grants(i, m) == VotedFor(i, m) \in {None, m.from} /\ UpToDate(i, m)

\* Mutant: the vote is not recorded
Ballot_Forgotten(i, m) == VotedFor(i, m)

\* voted_for after the whole handler
Ballot(i, m) == IF Grants(i, m) THEN m.from ELSE VotedFor(i, m)

RejectStaleRequestVote(i, m) ==
    /\ Stale(i, m)
    /\ Deliver(m, {VoteResponse(i, m.from, current_term[i], FALSE)})
    /\ UNCHANGED <<stateVars, loopVars, logVars, indexVars, requests, historyVars>>

\* Mutant: the leader stops its heartbeats and stays leader
HandlePetitionRequestVote_StaysLeader(i, m) ==
    /\ ~Stale(i, m) /\ m.is_petition
    /\ Deliver(m, {})
    /\ heartbeat_timer' = [heartbeat_timer EXCEPT ![i] = @ /\ role[i] # "LEADER"]
    /\ UNCHANGED <<stateVars, election_timer, failure_timer, heartbeat_count,
                   election_async_tasks, draining, logVars, indexVars,
                   requests, historyVars>>

\* A petition makes a leader step down: no reply, and no timer is started.
HandlePetitionRequestVote(i, m) ==
    /\ ~Stale(i, m) /\ m.is_petition
    /\ Deliver(m, {})
    /\ IF role[i] = "LEADER"
       THEN /\ heartbeat_timer' = [heartbeat_timer EXCEPT ![i] = FALSE]
            /\ role' = [role EXCEPT ![i] = "FOLLOWER"]
            /\ current_leader' = [current_leader EXCEPT ![i] = None]
       ELSE UNCHANGED <<heartbeat_timer, role, current_leader>>
    /\ UNCHANGED <<current_term, voted_for, votes_received, latency_to_leader,
                   election_timer, failure_timer, heartbeat_count,
                   election_async_tasks, draining, logVars, indexVars,
                   requests, historyVars>>

Vote(i, m) ==
    LET newer   == m.term > current_term[i]
        granted == Grants(i, m)
    IN  /\ ~Stale(i, m) /\ ~m.is_petition
        /\ Deliver(m, {VoteResponse(i, m.from, m.term, granted)})
        /\ current_term' = [current_term EXCEPT ![i] = m.term]
        /\ heartbeat_timer' = [heartbeat_timer EXCEPT ![i] =
               @ /\ ~(newer /\ role[i] = "LEADER")]
        /\ latency_to_leader' = [latency_to_leader EXCEPT ![i] =
               IF newer THEN {} ELSE @]
        /\ role' = [role EXCEPT ![i] = IF newer THEN "FOLLOWER" ELSE @]
        /\ current_leader' = [current_leader EXCEPT ![i] = IF newer THEN None ELSE @]
        /\ voted_for' = [voted_for EXCEPT ![i] = Ballot(i, m)]
        /\ IF granted THEN QueueReset(i)
           ELSE UNCHANGED <<election_timer, election_async_tasks>>
        /\ votes' = IF granted
                    THEN votes \cup {[voter |-> i, term |-> m.term, candidate |-> m.from]}
                    ELSE votes
        /\ UNCHANGED <<votes_received, failure_timer, heartbeat_count,
                       draining, logVars, indexVars, requests, heard,
                       leaders, acked, petitioned>>

HandleRequestVote(i, m) ==
    /\ m.type = "RequestVote"
    /\ \/ RejectStaleRequestVote(i, m)
       \/ HandlePetitionRequestVote(i, m)
       \/ Vote(i, m)
-----------------------------------------------------------------------------
(* handle_vote_response *)

\* A response of a later term: the node becomes follower of nobody in it.
\* Its timers are left as they are.
AdoptTerm(i, m) ==
    /\ m.term > current_term[i]
    /\ Deliver(m, {})
    /\ current_term' = [current_term EXCEPT ![i] = m.term]
    /\ role' = [role EXCEPT ![i] = "FOLLOWER"]
    /\ voted_for' = [voted_for EXCEPT ![i] = None]
    /\ latency_to_leader' = [latency_to_leader EXCEPT ![i] = {}]
    /\ UNCHANGED <<votes_received, current_leader, loopVars, logVars,
                   indexVars, requests, historyVars>>

\* A granted vote is counted whatever its term and its sender, and every vote
\* from the quorum on queues become_leader.
CountVote(i, m) ==
    /\ m.term <= current_term[i]
    /\ Deliver(m, {})
    /\ votes_received' = [votes_received EXCEPT ![i] =
           IF m.vote_granted THEN @ + 1 ELSE @]
    /\ election_async_tasks' = [election_async_tasks EXCEPT ![i] =
           IF m.vote_granted /\ votes_received'[i] >= vote_quorum
           THEN Append(@, "lead") ELSE @]
    /\ UNCHANGED <<role, current_term, voted_for, current_leader,
                   latency_to_leader, election_timer, heartbeat_timer,
                   failure_timer, heartbeat_count, draining, logVars,
                   indexVars, requests, historyVars>>

HandleVoteResponse(i, m) ==
    /\ m.type = "VoteResponse" /\ role[i] = "CANDIDATE"
    /\ AdoptTerm(i, m) \/ CountVote(i, m)
-----------------------------------------------------------------------------
(* handle_append_entries *)

\* Mutant: match_index is one too high
AppendEntriesResponse_High(i, to, term, success, match) ==
    [type |-> "AppendEntriesResponse", from |-> i, to |-> to, term |-> term,
     success |-> success, match_index |-> match + 1]

AppendEntriesResponse(i, to, term, success, match) ==
    [type |-> "AppendEntriesResponse", from |-> i, to |-> to, term |-> term,
     success |-> success, match_index |-> match]

RejectStaleAppendEntries(i, m) ==
    /\ Stale(i, m)
    /\ Deliver(m, {AppendEntriesResponse(i, m.from, current_term[i], FALSE, 0)})
    /\ UNCHANGED <<stateVars, loopVars, logVars, indexVars, requests, historyVars>>

\* What every AppendEntries that is not stale does first: the sender is the
\* leader of its term, and voted_for is emptied even within the same term.
FollowLeader(i, m) ==
    LET newer == m.term > current_term[i]
    IN  /\ current_term' = [current_term EXCEPT ![i] = m.term]
        /\ heartbeat_timer' = [heartbeat_timer EXCEPT ![i] = @ /\ ~newer]
        /\ latency_to_leader' = [latency_to_leader EXCEPT ![i] =
               IF newer THEN {} ELSE @]
        /\ role' = [role EXCEPT ![i] = "FOLLOWER"]
        /\ current_leader' = [current_leader EXCEPT ![i] = m.from]
        /\ voted_for' = [voted_for EXCEPT ![i] = None]
        /\ QueueReset(i)
        /\ heard' = heard \cup {<<i, m.term>>}
        /\ UNCHANGED <<votes_received, failure_timer, heartbeat_count,
                       draining, indexVars, requests, votes, leaders, acked,
                       petitioned>>

\* commitIndex after the entries of m are in the log l
FollowerCommit(i, m, l) ==
    IF m.leader_commit > commitIndex[i]
    THEN Lesser(m.leader_commit, LastLogIndex(l))
    ELSE commitIndex[i]

RejectAppendEntries(i, m) ==
    /\ ~Stale(i, m)
    /\ ~ContainsEntry(log[i], m.prev_log_index, m.prev_log_term)
    /\ FollowLeader(i, m)
    /\ Deliver(m, {AppendEntriesResponse(i, m.from, m.term, FALSE, 0)})
    /\ UNCHANGED logVars

AcceptAppendEntries(i, m) ==
    LET l == MergeEntries(log[i], m.prev_log_index, m.entries)
    IN  /\ ~Stale(i, m)
        /\ ContainsEntry(log[i], m.prev_log_index, m.prev_log_term)
        /\ FollowLeader(i, m)
        /\ log' = [log EXCEPT ![i] = l]
        /\ commitIndex' = [commitIndex EXCEPT ![i] = FollowerCommit(i, m, l)]
        /\ Deliver(m, {AppendEntriesResponse(i, m.from, m.term, TRUE,
                           m.prev_log_index + Len(m.entries))})

HandleAppendEntries(i, m) ==
    /\ m.type = "AppendEntries"
    /\ \/ RejectStaleAppendEntries(i, m)
       \/ RejectAppendEntries(i, m)
       \/ AcceptAppendEntries(i, m)
-----------------------------------------------------------------------------
(* handle_append_entries_response and updated_commit_index *)

\* Mutant: the leader counts its own copy twice
Committable_CountsTwice(i, match, k) ==
    /\ Cardinality({j \in Server : match[j] >= k}) + 2 >= majority_count
    /\ log[i][k].term = current_term[i]

\* Entry k of leader i has majority_count copies, the leader's own included,
\* and was created in the leader's term.
Committable(i, match, k) ==
    /\ Cardinality({j \in Server : match[j] >= k}) + 1 >= majority_count
    /\ log[i][k].term = current_term[i]

\* updated_commit_index: k is the last committable entry, or the old index.
\* Every entry that becomes committed is acknowledged to its client, if this
\* leader has the client's address.
UpdatedCommitIndex(i, match) ==
    \E k \in {commitIndex[i]} \cup DOMAIN log[i] :
        /\ k = commitIndex[i] \/ (k > commitIndex[i] /\ Committable(i, match, k))
        /\ \A n \in DOMAIN log[i] : n > k /\ n > commitIndex[i] => ~Committable(i, match, n)
        /\ commitIndex' = [commitIndex EXCEPT ![i] = k]
        /\ acked' = IF client_id_to_addr[i]
                    THEN acked \cup {log[i][n] : n \in commitIndex[i] + 1 .. k}
                    ELSE acked

\* A response of this or an earlier term, counted in either case
AdvanceFollower(i, m) ==
    LET j == m.from
        match == Greater(match_index[i][j], m.match_index)
    IN  /\ m.term <= current_term[i] /\ m.success
        /\ Deliver(m, {})
        /\ inflight' = [inflight EXCEPT ![i][j] = FALSE]
        /\ match_index' = [match_index EXCEPT ![i][j] = match]
        /\ next_index' = [next_index EXCEPT ![i][j] = match + 1]
        /\ UpdatedCommitIndex(i, match_index'[i])
        /\ UNCHANGED <<stateVars, loopVars, log, client_id_to_addr, requests,
                       votes, heard, leaders, petitioned>>

BackOffFollower(i, m) ==
    LET j == m.from
    IN  /\ m.term <= current_term[i] /\ ~m.success
        /\ Deliver(m, {})
        /\ inflight' = [inflight EXCEPT ![i][j] = FALSE]
        /\ next_index' = [next_index EXCEPT ![i][j] = Greater(1, @ - 1)]
        /\ UNCHANGED <<stateVars, loopVars, logVars, match_index,
                       client_id_to_addr, requests, historyVars>>

HandleAppendEntriesResponse(i, m) ==
    /\ m.type = "AppendEntriesResponse" /\ role[i] = "LEADER"
    /\ AdoptTerm(i, m) \/ AdvanceFollower(i, m) \/ BackOffFollower(i, m)
-----------------------------------------------------------------------------
(* handle_client_request and send_proposals_to_followers *)

\* Mutant: the newest entry waits for the next request
ProposalTargets_NotLast(i, l) ==
    {j \in Followers(i) : /\ <<i, j>> \notin Skipped
                          /\ ~inflight[i][j]
                          /\ next_index[i][j] < LastLogIndex(l)}

\* The followers that get new entries of the log l, and the datagrams they get
ProposalTargets(i, l) ==
    {j \in Followers(i) : /\ <<i, j>> \notin Skipped
                          /\ ~inflight[i][j]
                          /\ next_index[i][j] <= LastLogIndex(l)}

Proposals(i, l) ==
    UNION {{AppendEntries(i, j, l, start, MtuEntries) :
                start \in {k \in next_index[i][j] .. LastLogIndex(l) :
                               (k - next_index[i][j]) % MtuEntries = 0}} :
           j \in ProposalTargets(i, l)}

\* A request at the leader.  Any other node only answers with the name of the
\* leader it knows.
HandleClientRequest(i) ==
    LET l == Append(log[i], [term |-> current_term[i], request |-> requests + 1])
    IN  /\ role[i] = "LEADER"
        /\ requests < MaxRequests
        /\ requests' = requests + 1
        /\ client_id_to_addr' = [client_id_to_addr EXCEPT ![i] = TRUE]
        /\ log' = [log EXCEPT ![i] = l]
        /\ Send(Proposals(i, l))
        /\ inflight' = [inflight EXCEPT ![i] =
               [j \in Server |-> @[j] \/ j \in ProposalTargets(i, l)]]
        /\ UNCHANGED <<stateVars, loopVars, commitIndex, next_index,
                       match_index, historyVars>>
-----------------------------------------------------------------------------
(* Petitions for another leader.  The measured latencies and the penalty    *)
(* scores computed from them are abstracted to a choice: which nodes find   *)
(* the leader too slow, whom they propose, and whether the proposed node is *)
(* close enough to all petitioners.                                         *)

\* compute_penalty_score and send_petition: node i proposes j.  Without a
\* leader there is no latency to compare.
SendPetition(i, j) ==
    /\ Cardinality(petitioned \cup {<<i, current_term[i]>>}) <= MaxPetitions
    /\ ~draining[i]
    /\ role[i] # "LEADER" /\ current_leader[i] # None
    /\ j \notin {i, current_leader[i]}
    /\ petitioned' = petitioned \cup {<<i, current_term[i]>>}
    /\ Send({[type |-> "Petition", from |-> i, to |-> j, term |-> current_term[i],
              current_leader |-> current_leader[i]]})
    /\ UNCHANGED <<stateVars, loopVars, logVars, indexVars, requests, votes,
                   heard, leaders, acked>>

\* Mutant: the term of the petition is not compared
PetitionIgnored_AnyTerm(i, m) ==
    \/ m.current_leader # current_leader[i]
    \/ m.from \in latency_to_leader[i]

\* The early returns of handle_petition: a term or leader other than the
\* node's own, or a sender already counted
PetitionIgnored(i, m) ==
    \/ m.term # current_term[i]
    \/ m.current_leader # current_leader[i]
    \/ m.from \in latency_to_leader[i]

\* handle_petition: with enough petitioners the node may ask the leader to
\* step down, by a RequestVote that only the leader gets.
HandlePetition(i, m) ==
    /\ m.type = "Petition"
    /\ \/ /\ PetitionIgnored(i, m)
          /\ Deliver(m, {})
          /\ UNCHANGED latency_to_leader
       \/ /\ ~PetitionIgnored(i, m)
          /\ latency_to_leader' = [latency_to_leader EXCEPT ![i] = @ \cup {m.from}]
          /\ \/ Deliver(m, {})
             \/ /\ Cardinality(latency_to_leader'[i]) >= majority_count - 1
                /\ Deliver(m, {RequestVote(i, current_term[i], current_leader[i], TRUE)})
    /\ UNCHANGED <<role, current_term, voted_for, votes_received,
                   current_leader, loopVars, logVars, indexVars, requests,
                   historyVars>>
-----------------------------------------------------------------------------
\* The first test of handle_vote_response and handle_append_entries_response
DropResponse(i, m) ==
    /\ \/ m.type = "VoteResponse" /\ role[i] # "CANDIDATE"
       \/ m.type = "AppendEntriesResponse" /\ role[i] # "LEADER"
    /\ Deliver(m, {})
    /\ UNCHANGED <<stateVars, loopVars, logVars, indexVars, requests, historyVars>>

\* handleReceived
Receive(m) ==
    \/ HandleRequestVote(m.to, m)
    \/ HandleVoteResponse(m.to, m)
    \/ HandleAppendEntries(m.to, m)
    \/ HandleAppendEntriesResponse(m.to, m)
    \/ HandlePetition(m.to, m)
    \/ DropResponse(m.to, m)

\* A step of the event loop thread
Loop(i) ==
    \/ ElectionTimeoutIgnored(i)
    \/ ElectionTimeout(i)
    \/ BecomeLeader(i)
    \/ Heartbeat(i)
    \/ Failure(i)

Next ==
    \/ \E i \in Server : Loop(i)
    \/ \E m \in msgs : Receive(m)
    \/ \E i \in Server : HandleClientRequest(i)
    \/ \E i, j \in Server : SendPetition(i, j)

Spec == Init /\ [][Next]_vars
-----------------------------------------------------------------------------
(* Types *)

Entry == [term : Nat, request : Nat]

Message ==
    [type : {"RequestVote"}, from : Server, to : Server, term : Nat,
     last_log_index : Nat, last_log_term : Nat, is_petition : BOOLEAN]
    \cup
    [type : {"VoteResponse"}, from : Server, to : Server, term : Nat,
     vote_granted : BOOLEAN]
    \cup
    [type : {"AppendEntries"}, from : Server, to : Server, term : Nat,
     prev_log_index : Nat, prev_log_term : Nat, entries : Seq(Entry),
     leader_commit : Nat]
    \cup
    [type : {"AppendEntriesResponse"}, from : Server, to : Server, term : Nat,
     success : BOOLEAN, match_index : Nat]
    \cup
    [type : {"Petition"}, from : Server, to : Server, term : Nat,
     current_leader : Server]

StateTypeOK ==
    /\ role \in [Server -> {"FOLLOWER", "CANDIDATE", "LEADER"}]
    /\ current_term \in [Server -> Nat]
    /\ voted_for \in [Server -> Server \cup {None}]
    /\ votes_received \in [Server -> Nat]
    /\ current_leader \in [Server -> Server \cup {None}]
    /\ latency_to_leader \in [Server -> SUBSET Server]

LoopTypeOK ==
    /\ election_timer \in [Server -> BOOLEAN]
    /\ heartbeat_timer \in [Server -> BOOLEAN]
    /\ failure_timer \in [Server -> BOOLEAN]
    /\ heartbeat_count \in [Server -> Nat]
    /\ election_async_tasks \in [Server -> Seq({"reset", "lead"})]
    /\ draining \in [Server -> BOOLEAN]

LogTypeOK ==
    /\ log \in [Server -> Seq(Entry)]
    /\ commitIndex \in [Server -> Nat]

IndexTypeOK ==
    /\ next_index \in [Server -> [Server -> Nat]]
    /\ match_index \in [Server -> [Server -> Nat]]
    /\ inflight \in [Server -> [Server -> BOOLEAN]]
    /\ client_id_to_addr \in [Server -> BOOLEAN]

HistoryTypeOK ==
    /\ votes \subseteq [voter : Server, term : Nat, candidate : Server]
    /\ heard \subseteq Server \X Nat
    /\ leaders \subseteq Server \X Nat
    /\ acked \subseteq Entry
    /\ petitioned \subseteq Server \X Nat

\* Every field of every node, and every message in flight, has the type the
\* class Node and the protocol buffers give it.
TypeOK ==
    /\ StateTypeOK /\ LoopTypeOK /\ LogTypeOK /\ IndexTypeOK /\ HistoryTypeOK
    /\ msgs \subseteq Message /\ dups \in Nat /\ requests \in Nat
-----------------------------------------------------------------------------
(* Properties of the election *)

\* The nodes that voted for candidate c in term t
Voters(c, t) == {v \in Server : [voter |-> v, term |-> t, candidate |-> c] \in votes}

\* handle_request_vote: a node gives its vote of a term to two candidates only
\* when it has accepted an AppendEntries of that term.  (It is the reset of
\* voted_for in handle_append_entries that makes the second vote possible.)
OneVoteUnlessHeard ==
    \A v, w \in votes :
        v.voter = w.voter /\ v.term = w.term /\ v.candidate # w.candidate
            => <<v.voter, v.term>> \in heard

\* Until a first node leads in a term, no two candidates hold a quorum of the
\* votes of that term: the votes of handle_request_vote alone elect one leader.
OneWinnerUntilLed ==
    \A t \in {v.term : v \in votes} :
        (\A i \in Server : <<i, t>> \notin leaders) =>
            \A c, d \in Server :
                ~ /\ c # d
                  /\ Cardinality(Voters(c, t)) >= vote_quorum
                  /\ Cardinality(Voters(d, t)) >= vote_quorum

\* A candidate has voted for itself, knows no leader, and its election timer is
\* running: whatever gets lost, election_timeout_cb lets it stand again.
CandidateCanRetry ==
    \A i \in Server : role[i] = "CANDIDATE" =>
        voted_for[i] = i /\ current_leader[i] = None /\ election_timer[i]

\* A leader's heartbeat timer is running, it names itself as the leader, and
\* send_heartbeat finds a next_index for every follower: no handler stops the
\* timer and leaves the role, and no task takes the role without the timer.
LeaderIsReady ==
    \A i \in Server : role[i] = "LEADER" =>
        /\ heartbeat_timer[i] /\ current_leader[i] = i
        /\ \A j \in Followers(i) : next_index[i][j] > 0

\* Whatever messages a node handles, in whatever order, its term never goes back.
TermNeverDecreases ==
    [][\A i \in Server : current_term'[i] >= current_term[i]]_vars

\* handle_petition: the senders a node has counted all petitioned in its
\* present term, and it counts none while it stands or leads.
PetitionersAreCurrent ==
    \A i \in Server :
        /\ \A j \in latency_to_leader[i] : <<j, current_term[i]>> \in petitioned
        /\ role[i] # "FOLLOWER" => latency_to_leader[i] = {}
-----------------------------------------------------------------------------
(* Properties of replication *)

\* No node but l has been leader so far.
OnlyLeader(l) == \A p \in leaders : p[1] = l

\* While one node only has led, in whatever terms, every log is a prefix of its
\* log: the merge loop of handle_append_entries neither loses nor reorders
\* entries when proposals overtake each other or arrive twice.
LogsArePrefixes ==
    \A l \in Server : OnlyLeader(l) =>
        \A j \in Server : /\ Len(log[j]) <= Len(log[l])
                          /\ log[j] = SubSeq(log[l], 1, Len(log[j]))

\* While one node only has led, match_index never claims an entry the follower
\* does not have, and no node commits more than that leader has committed.
MatchIndexIsSound ==
    \A l \in Server : OnlyLeader(l) =>
        \A j \in Followers(l) : /\ match_index[l][j] <= Len(log[j])
                                /\ commitIndex[j] <= commitIndex[l]

\* While one node only has led, updated_commit_index acknowledges an entry to
\* the client only when majority_count logs hold it.
AckedOnMajority ==
    \A l \in Server : OnlyLeader(l) =>
        \A e \in acked :
            Cardinality({j \in Server : \E k \in DOMAIN log[j] : log[j][k] = e})
                >= majority_count

\* The terms in a log never decrease and never exceed the node's term, whoever
\* led and whatever was overwritten.
LogTermsOrdered ==
    \A i \in Server :
        /\ \A k \in DOMAIN log[i] : log[i][k].term <= current_term[i]
        /\ \A k, n \in DOMAIN log[i] : k <= n => log[i][k].term <= log[i][n].term

\* As long as no term has had two leaders, two logs that have entries of the
\* same term at an index agree up to that index: containsEntry and the term
\* comparison of the merge loop are enough to compare logs.
LogsMatch ==
    (\A p, q \in leaders : p[2] = q[2] => p = q) =>
        \A i, j \in Server : \A k \in DOMAIN log[i] \cap DOMAIN log[j] :
            log[i][k].term = log[j][k].term
                => SubSeq(log[i], 1, k) = SubSeq(log[j], 1, k)
-----------------------------------------------------------------------------
(* Liveness, when the network loses nothing.  Timers fire when they are due, *)
(* the event loop thread runs its tasks, and the worker threads poll the     *)
(* receive queues, which are first-in first-out, in turn: a node that has    *)
(* messages of some kind to receive receives one of them in the end.         *)

\* The kind of a message, for fairness: an acknowledgement counts by what it
\* acknowledges, so that heartbeats do not keep others waiting.
Kind(m) ==
    CASE m.type = "AppendEntries" -> <<"entries", Len(m.entries)>>
      [] m.type = "AppendEntriesResponse" -> <<"match", m.match_index>>
      [] OTHER -> <<"election", 0>>

Kinds == {<<"election", 0>>} \cup ({"entries", "match"} \X (0..MaxRequests))

Fairness ==
    \A i \in Server :
        /\ WF_vars(ElectionTimeout(i))
        /\ WF_vars(BecomeLeader(i))
        /\ WF_vars(Heartbeat(i))
        /\ \A kind \in Kinds :
               WF_vars(\E m \in msgs : m.to = i /\ Kind(m) = kind /\ Receive(m))

FairSpec == Spec /\ Fairness

\* The nodes that election_timeout_cb lets stand, the only ones that can lead
Standing == IF EligibleLeaders = {} THEN Server ELSE EligibleLeaders

\* In the end one node leads and all others follow it.
OneLeaderAtLast ==
    \E l \in Standing :
        <>[](/\ role[l] = "LEADER"
             /\ \A j \in Followers(l) : role[j] = "FOLLOWER" /\ current_leader[j] = l)

\* An entry that a leader appends in handle_client_request is acknowledged to
\* the client, unless that leader is deposed first.
AppendedIsAcked ==
    \A i \in Standing, t \in 1..MaxTerm, r \in 1..MaxRequests :
        LET Leads == role[i] = "LEADER" /\ current_term[i] = t
            entry == [term |-> t, request |-> r]
        IN  (Leads /\ \E k \in DOMAIN log[i] : log[i][k] = entry)
                ~> (entry \in acked \/ ~Leads)
-----------------------------------------------------------------------------
(* What comments in the code say, and the code does not do *)

\* handle_request_vote: "ensure that a node only votes once per term."
OneVotePerTerm ==
    \A v, w \in votes :
        v.voter = w.voter /\ v.term = w.term => v.candidate = w.candidate

\* handle_vote_response: a node leads when its votes are "bigger than f+1 in a
\* 2f+1 setting", that is, a quorum voted for it in the term it leads.
ElectedByQuorum ==
    \A p \in leaders : Cardinality(Voters(p[1], p[2])) >= vote_quorum

\* handle_append_entries: "if leaderCommit > commitIndex, set commitIndex =
\* min(leaderCommit, index of last new entry)".
CommitsOnlyNewEntries ==
    [][\A m \in msgs :
           m.type = "AppendEntries" /\ AcceptAppendEntries(m.to, m) =>
               \/ commitIndex'[m.to] = commitIndex[m.to]
               \/ commitIndex'[m.to] <= m.prev_log_index + Len(m.entries)]_vars

\* node.h: majority_count is the "number of nodes required for majority": an
\* acknowledged entry is in more than half of the logs.
AckedOnStrictMajority ==
    \A l \in Server : OnlyLeader(l) =>
        \A e \in acked :
            2 * Cardinality({j \in Server : \E k \in DOMAIN log[j] : log[j][k] = e}) > N
=============================================================================
