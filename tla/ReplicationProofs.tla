------------------------- MODULE ReplicationProofs --------------------------
(***************************************************************************)
(* What replication guarantees while one node only has led, in whatever    *)
(* terms and for any number of nodes: every log is a prefix of the         *)
(* leader's, match_index claims no entry a follower does not have, and an  *)
(* acknowledged entry is in majority_count logs.  At the end, the other    *)
(* theorem that counts nodes: two candidates do not both get a quorum.     *)
(***************************************************************************)
EXTENDS LogProofs, FiniteSetTheorems

USE DEF stateVars, loopVars, logVars, indexVars, historyVars
-----------------------------------------------------------------------------
\* The log of l has every link, and l has committed whatever another node has
\* committed or is told to commit.
LeaderHasAll(l) ==
    /\ \A x : IsLink(x) => x \in LogLinks(log[l])
    /\ \A j \in Server : commitIndex[j] <= commitIndex[l]
    /\ \A m \in Proposed : m.leader_commit <= commitIndex[l]

\* A follower has what its responses and the leader's match_index say.  The
\* leader never counts itself there.
FollowersHave(l) ==
    /\ match_index[l][l] = 0
    /\ \A j \in Followers(l) : match_index[l][j] <= Len(log[j])
    /\ \A r \in msgs : r.type = "AppendEntriesResponse" =>
           r.from # r.to /\ (r.success => r.match_index <= Len(log[r.from]))

SingleInv == \A l \in Server : OnlyLeader(l) => LeaderHasAll(l) /\ FollowersHave(l)

\* r answers m, with success only when the entries of m are merged.
Reports(r, m) ==
    /\ r.from = m.to /\ r.to = m.from
    /\ r.success => /\ AcceptAppendEntries(m.to, m)
                    /\ r.match_index = m.prev_log_index + Len(m.entries)

\* AppendEntriesResponses are only sent by handle_append_entries.
LEMMA ResponseSent ==
    ASSUME TypeInv, [Next]_vars, NEW n \in msgs', n.type = "AppendEntriesResponse",
           n \notin msgs
    PROVE  \E m \in Proposed : Reports(n, m)
<1>1. ASSUME NEW i \in Server, Loop(i)
      PROVE  FALSE
  <2>1. CASE ElectionTimeoutIgnored(i) \/ BecomeLeader(i) \/ Failure(i)
    BY Zenon, <2>1 DEF ElectionTimeoutIgnored, BecomeLeader, Failure
  <2>2. CASE ElectionTimeout(i)
    <3>1. n \in {RequestVote(i, current_term[i] + 1, j, FALSE) : j \in Server}
      BY Zenon, <2>2, SendAdds DEF ElectionTimeout
    <3>2. n.type = "RequestVote"
      BY Zenon, <3>1, RequestVoteKind
    <3> QED
      BY <3>2
  <2>3. CASE Heartbeat(i)
    <3>1. n.type = "AppendEntries"
      BY Zenon, <2>3, SendAdds, HeartbeatKind DEF Heartbeat
    <3> QED
      BY <3>1
  <2> QED
    BY SMTT(30), <1>1, <2>1, <2>2, <2>3 DEF Loop
<1>2. ASSUME NEW m \in msgs, Receive(m)
      PROVE  \E out : /\ Deliver(m, out)
                      /\ \A r \in out : r.type = "AppendEntriesResponse" =>
                             m.type = "AppendEntries" /\ Reports(r, m)
  <2> DEFINE i == m.to
             Good(out) == \A r \in out : r.type = "AppendEntriesResponse" =>
                              m.type = "AppendEntries" /\ Reports(r, m)
  <2>1. Good({})
    OBVIOUS
  <2>2. \A j, t, g : Good({VoteResponse(i, j, t, g)})
    <3>1. \A j, t, g : VoteResponse(i, j, t, g).type # "AppendEntriesResponse"
      BY DEF VoteResponse
    <3> QED
      BY Zenon, <3>1
  <2>3. \A t, j, p : Good({RequestVote(i, t, j, p)})
    <3>1. \A t, j, p : RequestVote(i, t, j, p).type # "AppendEntriesResponse"
      BY DEF RequestVote
    <3> QED
      BY Zenon, <3>1
  <2>4. m.type = "AppendEntries" =>
            \A t : Good({AppendEntriesResponse(i, m.from, t, FALSE, 0)})
    BY DEF AppendEntriesResponse, Reports
  <2>5. m.type = "AppendEntries" /\ AcceptAppendEntries(m.to, m) =>
            \A t : Good({AppendEntriesResponse(i, m.from, t, TRUE,
                             m.prev_log_index + Len(m.entries))})
    <3> SUFFICES ASSUME m.type = "AppendEntries", AcceptAppendEntries(m.to, m), NEW t, NEW r,
                        r = AppendEntriesResponse(m.to, m.from, t, TRUE,
                                m.prev_log_index + Len(m.entries))
                 PROVE  Reports(r, m)
      BY Zenon
    <3>1. /\ r.from = m.to /\ r.to = m.from
          /\ r.match_index = m.prev_log_index + Len(m.entries)
      BY DEF AppendEntriesResponse
    <3> QED
      BY Zenon, <3>1 DEF Reports
  <2> HIDE DEF Good
  <2> SUFFICES \E out : Deliver(m, out) /\ Good(out)
    BY Zenon DEF Good
  <2>6. CASE HandleRequestVote(i, m)
    BY Zenon, <2>1, <2>2, <2>6 DEF HandleRequestVote, RejectStaleRequestVote,
       HandlePetitionRequestVote, Vote
  <2>7. CASE HandleVoteResponse(i, m) \/ HandleAppendEntriesResponse(i, m)
             \/ DropResponse(i, m)
    BY Zenon, <2>1, <2>7 DEF HandleVoteResponse, AdoptTerm, CountVote, DropResponse,
       HandleAppendEntriesResponse, AdvanceFollower, BackOffFollower
  <2>8. CASE HandleAppendEntries(i, m)
    <3>1. m.type = "AppendEntries"
      BY Zenon, <2>8 DEF HandleAppendEntries
    <3>2. CASE RejectStaleAppendEntries(i, m) \/ RejectAppendEntries(i, m)
      BY Zenon, <2>4, <3>1, <3>2 DEF RejectStaleAppendEntries, RejectAppendEntries
    <3>3. CASE AcceptAppendEntries(i, m)
      BY Zenon, <2>5, <3>1, <3>3 DEF AcceptAppendEntries
    <3> QED
      BY Zenon, <2>8, <3>2, <3>3 DEF HandleAppendEntries
  <2>9. CASE HandlePetition(i, m)
    BY Zenon, <2>1, <2>3, <2>9 DEF HandlePetition
  <2> QED
    BY Zenon, <1>2, <2>6, <2>7, <2>8, <2>9 DEF Receive
<1>3. ASSUME NEW i \in Server, HandleClientRequest(i)
      PROVE  FALSE
  <2>1. PICK l : Send(Proposals(i, l))
    BY Zenon, <1>3 DEF HandleClientRequest
  <2>2. n.type = "AppendEntries"
    BY ZenonT(30), <2>1, SendAdds, ProposalKind
  <2> QED
    BY <2>2
<1>4. ASSUME NEW i \in Server, NEW j \in Server, SendPetition(i, j)
      PROVE  FALSE
  <2>1. \E k, t, l : Send({[type |-> "Petition", from |-> i, to |-> k, term |-> t,
                           current_leader |-> l]})
    BY Zenon, <1>4 DEF SendPetition
  <2> QED
    BY <2>1, SendAdds
<1>5. CASE UNCHANGED vars
  BY Zenon, <1>5 DEF vars
<1>6. dups \in Nat
  BY DEF TypeInv, TypeOK
<1>7. ASSUME NEW m \in msgs, Receive(m)
      PROVE  \E k \in Proposed : Reports(n, k)
  <2>1. PICK out : /\ Deliver(m, out)
                   /\ \A r \in out : r.type = "AppendEntriesResponse" =>
                          m.type = "AppendEntries" /\ Reports(r, m)
    BY Zenon, <1>2, <1>7
  <2>2. n \in out
    BY Zenon, <1>6, <2>1, DeliverAdds
  <2> QED
    BY Zenon, <2>1, <2>2 DEF Proposed
<1> QED
  BY Zenon, <1>1, <1>3, <1>4, <1>5, <1>7 DEF Next

\* The only leader accepts no AppendEntries.
LEMMA OnlyLeaderAcceptsNone ==
    ASSUME TypeInv, LedInv, LogInv, NEW l \in Server, OnlyLeader(l),
           NEW m \in Proposed, m.to = l
    PROVE  FALSE
<1>1. <<m.from, m.term>> \in leaders
  BY Zenon DEF LedInv, Proposed
<1>2. <<m.from, m.term>>[1] = l
  BY Zenon, <1>1 DEF OnlyLeader
<1>3. m.to # m.from
  BY Zenon DEF LogInv
<1> QED
  BY SMTT(30), <1>2, <1>3

\* Two links of one log at the same index are of the same entry.
LEMMA SameEntry ==
    ASSUME NEW l, Len(l) \in Nat, NEW x \in LogLinks(l), NEW y \in LogLinks(l), x[1] = y[1]
    PROVE  x[2] = y[2]
<1>1. x[2] = l[x[1]]
  BY Zenon, LinkAt DEF LogLinks
<1>2. y[2] = l[y[1]]
  BY Zenon, LinkAt DEF LogLinks
<1> QED
  BY Zenon, <1>1, <1>2

\* handle_append_entries drops no entry of a log.
LEMMA AcceptKeeps ==
    ASSUME TypeInv, NEW l \in Server, LeaderHasAll(l),
           NEW m \in Proposed, AcceptAppendEntries(m.to, m)
    PROVE  /\ Len(log'[m.to]) >= Len(log[m.to])
           /\ Len(log'[m.to]) >= m.prev_log_index + Len(m.entries)
           /\ \A n \in 1 .. Len(log[m.to]) : log'[m.to][n] = log[m.to][n]
<1> DEFINE j == m.to
           prev == m.prev_log_index
<1>1. /\ j \in Server /\ prev \in Nat /\ m.prev_log_term \in Nat
      /\ m.entries \in Seq(Entry) /\ Len(m.entries) \in Nat
  BY SMTT(30), MessageFields, LenProperties DEF Proposed, TypeInv, TypeOK
<1>2. /\ log \in [Server -> Seq(Entry)] /\ log[j] \in Seq(Entry) /\ Len(log[j]) \in Nat
      /\ log[l] \in Seq(Entry) /\ Len(log[l]) \in Nat
  BY SMTT(30), <1>1, LenProperties DEF TypeInv, TypeOK, LogTypeOK
<1>3. /\ ContainsEntry(log[j], prev, m.prev_log_term)
      /\ log' = [log EXCEPT ![j] = MergeEntries(log[j], prev, m.entries)]
  BY Zenon DEF AcceptAppendEntries
<1>4. log'[j] = MergeEntries(log[j], prev, m.entries)
  BY Zenon, <1>1, <1>2, <1>3
<1> HIDE DEF j, prev
<1>5. /\ log'[j] \in Seq(Entry) /\ prev + Len(m.entries) <= Len(log'[j])
      /\ \E cut \in prev .. Len(log[j]) : CutAt(cut, log[j], prev, m.entries, log'[j])
  BY Zenon, <1>1, <1>2, <1>3, <1>4, MergeEntriesCuts
<1>6. PICK cut \in prev .. Len(log[j]) : CutAt(cut, log[j], prev, m.entries, log'[j])
  BY Zenon, <1>5
<1>7. Len(log'[j]) \in Nat
  BY SMTT(30), <1>5, LenProperties
<1>8. cut = Len(log[j])
  <2> SUFFICES ASSUME cut # Len(log[j]) PROVE FALSE
    OBVIOUS
  <2> DEFINE n == cut + 1 - prev
             k == cut + 1
             x == <<k, log[j][k], IF k = 1 THEN 0 ELSE log[j][k - 1].term>>
             y == <<k, m.entries[n],
                    IF n = 1 THEN m.prev_log_term ELSE m.entries[n - 1].term>>
  <2>1. k \in 1 .. Len(log[j]) /\ k = 0 + k /\ cut < Len(log[j])
    BY SMTT(30), <1>1, <1>2
  <2>2. n \in 1 .. Len(m.entries) /\ log[j][k].term # m.entries[n].term
    BY SMTT(30), <1>6, <2>1 DEF CutAt
  <2>3. k = prev + n
    BY SMTT(30), <1>1, <1>2
  <2> HIDE DEF n, k
  <2>4. x \in LogLinks(log[j])
    BY Zenon, <2>1, LinkOf DEF LogLinks
  <2>5. y \in MessageLinks(m)
    BY Zenon, <2>2, <2>3, LinkOf DEF MessageLinks, prev
  <2>6. x[1] = y[1] /\ x[2] = log[j][k] /\ y[2] = m.entries[n]
    OBVIOUS
  <2> HIDE DEF x, y
  <2>7. x \in LogLinks(log[l]) /\ y \in LogLinks(log[l])
    BY Zenon, <1>1, <2>4, <2>5 DEF LeaderHasAll, IsLink
  <2>8. x[2] = y[2]
    BY Zenon, <1>2, <2>6, <2>7, SameEntry
  <2> QED
    BY Zenon, <2>2, <2>6, <2>8
<1>9. /\ Len(log[j]) <= Len(log'[j])
      /\ \A n \in 1 .. Len(log[j]) : log'[j][n] = log[j][n]
  BY Zenon, <1>6, <1>8 DEF CutAt
<1> QED
  BY SMTT(30), <1>1, <1>2, <1>5, <1>7, <1>9 DEF j, prev

\* No log loses an entry.
LEMMA LogsKept ==
    ASSUME TypeInv, LedInv, LogInv, NEW l \in Server, OnlyLeader(l), LeaderHasAll(l),
           [Next]_vars, NEW j \in Server
    PROVE  /\ Len(log'[j]) >= Len(log[j])
           /\ \A n \in 1 .. Len(log[j]) : log'[j][n] = log[j][n]
           /\ LogLinks(log[l]) \subseteq LogLinks(log'[l])
<1>1. Len(log[j]) \in Nat
  BY SMTT(30), LenProperties DEF TypeInv, TypeOK, LogTypeOK
<1>2. LogLinks(log[l]) \subseteq LogLinks(log'[l])
  <2>1. CASE HandleClientRequest(l)
    BY ZenonT(30), <2>1, ClientLinks
  <2>2. CASE log'[l] = log[l]
    BY Zenon, <2>2
  <2> QED
    BY ZenonT(30), <2>1, <2>2, LogChanges, OnlyLeaderAcceptsNone
<1>3. CASE log'[j] = log[j]
  BY SMTT(30), <1>1, <1>2, <1>3
<1>4. CASE HandleClientRequest(j)
  <2>1. /\ Len(log'[j]) = Len(log[j]) + 1
        /\ \A n \in 1 .. Len(log[j]) : log'[j][n] = log[j][n]
    BY Zenon, <1>4, ClientLinks
  <2>2. Len(log'[j]) >= Len(log[j])
    BY SMTT(30), <1>1, <2>1
  <2> QED
    BY Zenon, <1>2, <2>1, <2>2
<1>5. ASSUME NEW m \in Proposed, m.to = j, AcceptAppendEntries(j, m)
      PROVE  /\ Len(log'[j]) >= Len(log[j])
             /\ \A n \in 1 .. Len(log[j]) : log'[j][n] = log[j][n]
  BY Zenon, <1>5, AcceptKeeps
<1> QED
  BY Zenon, <1>2, <1>3, <1>4, <1>5, LogChanges
-----------------------------------------------------------------------------
(* The invariant is kept *)

\* Whoever handles responses or requests is the only leader.
LEMMA LeaderIsOnly ==
    ASSUME LedInv, NEW l \in Server, OnlyLeader(l), NEW i \in Server, role[i] = "LEADER"
    PROVE  i = l
<1>1. <<i, current_term[i]>> \in leaders
  BY Zenon DEF LedInv
<1>2. <<i, current_term[i]>>[1] = l
  BY Zenon, <1>1 DEF OnlyLeader
<1> QED
  BY SMTT(30), <1>2

\* The leader's commit index only grows, and a follower's stays behind it.
LEMMA CommitSteps ==
    ASSUME TypeInv, LedInv, LogInv, NEW l \in Server, OnlyLeader(l), LeaderHasAll(l),
           [Next]_vars, NEW j \in Server
    PROVE  /\ commitIndex[l] <= commitIndex'[l]
           /\ commitIndex'[j] <= commitIndex'[l]
<1>1. commitIndex \in [Server -> Nat]
  BY DEF TypeInv, TypeOK, LogTypeOK
<1>2. commitIndex[j] <= commitIndex[l]
  BY Zenon DEF LeaderHasAll
<1>3. CASE commitIndex' = commitIndex
  BY SMTT(30), <1>1, <1>2, <1>3
<1>4. ASSUME NEW i \in Server, BecomeLeader(i) \/ HandleClientRequest(i)
      PROVE  commitIndex' = commitIndex
  BY Zenon, <1>4 DEF BecomeLeader, HandleClientRequest
<1>5. ASSUME NEW m \in Proposed, m.to \in Server, AcceptAppendEntries(m.to, m)
      PROVE  /\ commitIndex[l] <= commitIndex'[l]
             /\ commitIndex'[j] <= commitIndex'[l]
  <2>1. m.to # l
    BY Zenon, <1>5, OnlyLeaderAcceptsNone
  <2>2. PICK r : commitIndex' = [commitIndex EXCEPT ![m.to] = FollowerCommit(m.to, m, r)]
                 /\ r = MergeEntries(log[m.to], m.prev_log_index, m.entries)
    BY Zenon, <1>5 DEF AcceptAppendEntries
  <2>3. m.leader_commit \in Nat /\ m.leader_commit <= commitIndex[l]
    BY SMTT(30), MessageFields DEF LeaderHasAll, Proposed, TypeInv, TypeOK
  <2>4. LastLogIndex(r) \in Nat
    <3>1. m.prev_log_index \in Nat /\ m.entries \in Seq(Entry) /\ log[m.to] \in Seq(Entry)
      BY SMTT(30), <1>5, MessageFields DEF Proposed, TypeInv, TypeOK, LogTypeOK
    <3>2. ContainsEntry(log[m.to], m.prev_log_index, m.prev_log_term)
      BY Zenon, <1>5 DEF AcceptAppendEntries
    <3>3. r \in Seq(Entry)
      BY Zenon, <2>2, <3>1, <3>2, MergeEntriesCuts
    <3> QED
      BY SMTT(30), <3>3, LenProperties DEF LastLogIndex
  <2>5. commitIndex[m.to] <= commitIndex[l]
    BY Zenon, <1>5 DEF LeaderHasAll
  <2>6. FollowerCommit(m.to, m, r) <= commitIndex[l]
    BY SMTT(30), <1>1, <1>5, <2>3, <2>4, <2>5 DEF FollowerCommit, Lesser
  <2> QED
    BY SMTT(30), <1>1, <1>2, <1>5, <2>1, <2>2, <2>6
<1>6. ASSUME NEW m \in msgs, m.to \in Server, role[m.to] = "LEADER",
             AdvanceFollower(m.to, m)
      PROVE  /\ commitIndex[l] <= commitIndex'[l]
             /\ commitIndex'[j] <= commitIndex'[l]
  <2>1. m.to = l
    BY Zenon, <1>6, LeaderIsOnly
  <2>2. UpdatedCommitIndex(l, match_index'[l])
    BY Zenon, <1>6, <2>1 DEF AdvanceFollower
  <2>3. PICK k \in {commitIndex[l]} \cup DOMAIN log[l] :
            /\ k = commitIndex[l] \/ k > commitIndex[l]
            /\ commitIndex' = [commitIndex EXCEPT ![l] = k]
    BY Zenon, <2>2 DEF UpdatedCommitIndex
  <2>4. DOMAIN log[l] \subseteq Nat
    BY SMTT(30), LenProperties DEF TypeInv, TypeOK, LogTypeOK
  <2>5. k \in Nat
    BY SMTT(30), <1>1, <2>3, <2>4
  <2> QED
    BY SMTT(30), <1>1, <1>2, <2>3, <2>5
<1> QED
  BY Zenon, <1>3, <1>4, <1>5, <1>6, LogSteps DEF LogStep, Proposed

\* Every step keeps true that the only leader has every link and has committed
\* whatever others have.
LEMMA NextLeaderHasAll ==
    ASSUME TypeInv, LedInv, LogInv, NEW l \in Server, OnlyLeader(l), LeaderHasAll(l),
           [Next]_vars
    PROVE  LeaderHasAll(l)'
<1>1. ASSUME NEW x, IsLink(x)' PROVE x \in LogLinks(log'[l])
  <2>1. CASE IsLink(x)
    BY Zenon, <2>1, LogsKept DEF LeaderHasAll
  <2>2. ASSUME NEW i \in Server, HandleClientRequest(i), x = NewLink(i)
        PROVE  x \in LogLinks(log'[l])
    <3>1. role[i] = "LEADER"
      BY Zenon, <2>2 DEF HandleClientRequest
    <3>2. i = l
      BY Zenon, <3>1, LeaderIsOnly
    <3> QED
      BY Zenon, <2>2, <3>2, ClientLinks
  <2> QED
    BY Zenon, <1>1, <2>1, <2>2, LinkSteps
<1>2. ASSUME NEW n \in msgs', n.type = "AppendEntries"
      PROVE  n.leader_commit <= commitIndex'[l]
  <2>1. CASE n \in msgs
    <3>1. n.leader_commit <= commitIndex[l] /\ commitIndex[l] <= commitIndex'[l]
      BY Zenon, <1>2, <2>1, CommitSteps DEF LeaderHasAll, Proposed
    <3>2. n.leader_commit \in Nat
      BY SMTT(30), <1>2, <2>1, MessageFields DEF TypeInv, TypeOK
    <3>3. commitIndex[l] \in Nat /\ commitIndex'[l] \in Nat
      BY SMTT(30), NextTypeInv DEF TypeInv, TypeOK, LogTypeOK
    <3> QED
      BY SMTT(30), <3>1, <3>2, <3>3
  <2>2. CASE n \notin msgs
    BY Zenon, <1>2, <2>2, SentLinks DEF LeaderHasAll
  <2> QED
    BY Zenon, <2>1, <2>2
<1> QED
  BY Zenon, <1>1, <1>2, CommitSteps DEF LeaderHasAll, Proposed

\* Every step keeps true that a follower has what its responses and match_index
\* say.
LEMMA NextFollowersHave ==
    ASSUME TypeInv, LedInv, LogInv, NEW l \in Server, OnlyLeader(l), LeaderHasAll(l),
           FollowersHave(l), [Next]_vars
    PROVE  FollowersHave(l)'
<1>1. match_index \in [Server -> [Server -> Nat]]
  BY SMTT(30) DEF TypeInv, TypeOK, IndexTypeOK
<1>2. \A j \in Server : /\ Len(log[j]) \in Nat /\ Len(log'[j]) \in Nat
                        /\ Len(log'[j]) >= Len(log[j])
  BY SMTT(30), LogsKept, NextTypeInv, LenProperties DEF TypeInv, TypeOK, LogTypeOK
<1> DEFINE Matched(match) == /\ match[l][l] = 0
                             /\ \A j \in Followers(l) : match[l][j] <= Len(log'[j])
<1>3. Matched(match_index')
  <2>1. Matched(match_index)
    BY SMTT(30), <1>1, <1>2 DEF FollowersHave, Followers
  <2>2. ASSUME NEW i \in Server, BecomeLeader(i) PROVE Matched(match_index')
    <3>1. match_index' = [match_index EXCEPT ![i] =
                              [j \in Server |-> IF j = i THEN @[j] ELSE 0]]
      BY Zenon, <2>2 DEF BecomeLeader
    <3> QED
      BY SMTT(30), <1>1, <1>2, <2>1, <3>1 DEF Followers
  <2>3. ASSUME NEW m \in msgs, m.type = "AppendEntriesResponse", m.to \in Server,
               role[m.to] = "LEADER", AdvanceFollower(m.to, m)
        PROVE  Matched(match_index')
    <3>1. m.to = l
      BY Zenon, <2>3, LeaderIsOnly
    <3>2. /\ match_index' = [match_index EXCEPT ![l][m.from] =
                                 Greater(match_index[l][m.from], m.match_index)]
          /\ m.success
      BY Zenon, <2>3, <3>1 DEF AdvanceFollower
    <3>3. m.from # l /\ m.match_index <= Len(log[m.from])
      BY Zenon, <2>3, <3>1, <3>2 DEF FollowersHave
    <3>4. m.from \in Server /\ m.match_index \in Nat
      BY SMTT(30), <2>3, MessageFields DEF TypeInv, TypeOK
    <3>5. Greater(match_index[l][m.from], m.match_index) <= Len(log'[m.from])
      BY SMTT(30), <1>1, <1>2, <2>1, <3>3, <3>4 DEF Greater, Followers
    <3> QED
      BY SMTT(30), <1>1, <2>1, <3>2, <3>3, <3>4, <3>5 DEF Followers
  <2>4. ASSUME NEW i \in Server, HandleClientRequest(i) PROVE match_index' = match_index
    BY Zenon, <2>4 DEF HandleClientRequest
  <2>5. ASSUME NEW m, AcceptAppendEntries(m.to, m) PROVE match_index' = match_index
    BY Zenon, <2>5 DEF AcceptAppendEntries, FollowLeader
  <2> HIDE DEF Matched
  <2> QED
    BY Zenon, <2>1, <2>2, <2>3, <2>4, <2>5, LogSteps DEF LogStep
<1>4. ASSUME NEW n \in msgs', n.type = "AppendEntriesResponse"
      PROVE  n.from # n.to /\ (n.success => n.match_index <= Len(log'[n.from]))
  <2>1. CASE n \in msgs
    <3>1. n.from \in Server /\ n.match_index \in Nat
      BY <1>4, <2>1, MessageFields DEF TypeInv, TypeOK
    <3>2. n.from # n.to /\ (n.success => n.match_index <= Len(log[n.from]))
      BY Zenon, <1>4, <2>1 DEF FollowersHave
    <3> QED
      BY <1>2, <3>1, <3>2
  <2>2. CASE n \notin msgs
    <3>1. PICK m \in Proposed : Reports(n, m)
      BY Zenon, <1>4, <2>2, ResponseSent
    <3>2. m.to # m.from /\ n.from = m.to /\ n.to = m.from
      BY Zenon, <3>1 DEF LogInv, Reports
    <3>3. ASSUME n.success PROVE n.match_index <= Len(log'[n.from])
      <4>1. AcceptAppendEntries(m.to, m) /\ n.match_index = m.prev_log_index + Len(m.entries)
        BY Zenon, <3>1, <3>3 DEF Reports
      <4>2. Len(log'[m.to]) >= m.prev_log_index + Len(m.entries)
        BY Zenon, <4>1, AcceptKeeps
      <4>3. /\ m.prev_log_index \in Nat /\ Len(m.entries) \in Nat /\ m.to \in Server
        BY SMTT(30), MessageFields, LenProperties DEF Proposed, TypeInv, TypeOK
      <4> QED
        BY SMTT(30), <1>2, <3>2, <4>1, <4>2, <4>3
    <3> QED
      BY Zenon, <3>2, <3>3
  <2> QED
    BY Zenon, <2>1, <2>2
<1> QED
  BY Zenon, <1>3, <1>4 DEF FollowersHave

\* Every step keeps the two together.
LEMMA NextSingleInv ==
    ASSUME TypeInv, LedInv, LogInv, SingleInv, [Next]_vars
    PROVE  SingleInv'
<1> SUFFICES ASSUME NEW l \in Server, OnlyLeader(l)'
             PROVE  LeaderHasAll(l)' /\ FollowersHave(l)'
  BY Zenon DEF SingleInv
<1>1. OnlyLeader(l)
  BY Zenon, LeadersGrow DEF OnlyLeader
<1> QED
  BY Zenon, <1>1, NextLeaderHasAll, NextFollowersHave DEF SingleInv
-----------------------------------------------------------------------------
(* The theorems *)

\* What an entry of another log is in the log of the only leader
LEMMA SamePlace ==
    ASSUME TypeInv, NEW l \in Server, LeaderHasAll(l), NEW j \in Server,
           NEW n \in 1 .. Len(log[j])
    PROVE  n \in 1 .. Len(log[l]) /\ log[j][n] = log[l][n]
<1>1. Len(log[j]) \in Nat /\ Len(log[l]) \in Nat
  BY SMTT(30), LenProperties DEF TypeInv, TypeOK, LogTypeOK
<1>2. PICK x \in LogLinks(log[j]) : x[1] = n /\ x[2] = log[j][n]
  BY Zenon, <1>1, EntryLink
<1>3. x \in LogLinks(log[l])
  BY Zenon DEF LeaderHasAll, IsLink
<1>4. x[1] \in 1 .. Len(log[l]) /\ x[2] = log[l][x[1]]
  BY Zenon, <1>1, <1>3, LinkAt DEF LogLinks
<1> QED
  BY Zenon, <1>2, <1>4

\* Logs whose links are all in the log of l are prefixes of it.
LEMMA SinglePrefixes == TypeInv /\ SingleInv => LogsArePrefixes
<1> SUFFICES ASSUME TypeInv, NEW l \in Server, LeaderHasAll(l), NEW j \in Server
             PROVE  /\ Len(log[j]) <= Len(log[l])
                    /\ log[j] = SubSeq(log[l], 1, Len(log[j]))
  BY Zenon DEF SingleInv, LogsArePrefixes
<1>1. /\ log[j] \in Seq(Entry) /\ Len(log[j]) \in Nat
      /\ log[l] \in Seq(Entry) /\ Len(log[l]) \in Nat
  BY SMTT(30), LenProperties DEF TypeInv, TypeOK, LogTypeOK
<1>2. \A n \in 1 .. Len(log[j]) : n \in 1 .. Len(log[l]) /\ log[j][n] = log[l][n]
  BY Zenon, SamePlace
<1>3. Len(log[j]) <= Len(log[l])
  BY SMTT(30), <1>1, <1>2
<1>4. /\ SubSeq(log[l], 1, Len(log[j])) \in Seq(Entry)
      /\ Len(SubSeq(log[l], 1, Len(log[j]))) = Len(log[j])
      /\ \A n \in 1 .. Len(log[j]) : SubSeq(log[l], 1, Len(log[j]))[n] = log[l][n]
  BY SMTT(30), <1>1, <1>3
<1> QED
  BY SMTT(30), <1>1, <1>2, <1>3, <1>4, SeqEqual

Holders(e) == {j \in Server : \E k \in DOMAIN log[j] : log[j][k] = e}

\* An index that becomes committed is one of the log.
LEMMA NewlyCommitted ==
    ASSUME NEW c \in Nat, NEW len \in Nat, NEW k \in {c} \cup (1 .. len), NEW n \in c + 1 .. k
    PROVE  k # c /\ k \in 1 .. len /\ n \in 1 .. k /\ n \in 1 .. len
OBVIOUS

\* A log at least as long as match_index has the indices up to it.
LEMMA HeldUpTo ==
    ASSUME NEW last \in Nat, NEW k \in 1 .. last, NEW n \in 1 .. k,
           NEW match \in Nat, match >= k, NEW len \in Nat, match <= len
    PROVE  n \in 1 .. len
OBVIOUS

\* updated_commit_index acknowledges an entry that majority_count logs hold.
LEMMA AckedIsHeld ==
    ASSUME TypeInv, LedInv, LogInv, NEW l \in Server, OnlyLeader(l), LeaderHasAll(l),
           FollowersHave(l), [Next]_vars, NEW e \in acked', e \notin acked
    PROVE  Cardinality(Holders(e)') >= majority_count
<1>1. PICK m \in msgs : m.to \in Server /\ role[m.to] = "LEADER" /\ AdvanceFollower(m.to, m)
  <2>1. ASSUME NEW i \in Server, BecomeLeader(i) \/ HandleClientRequest(i)
        PROVE  FALSE
    BY Zenon, <2>1 DEF BecomeLeader, HandleClientRequest
  <2>2. ASSUME NEW m, AcceptAppendEntries(m.to, m) PROVE FALSE
    BY Zenon, <2>2 DEF AcceptAppendEntries, FollowLeader
  <2> QED
    BY Zenon, <2>1, <2>2, LogSteps DEF LogStep
<1>2. m.to = l
  BY Zenon, <1>1, LeaderIsOnly
<1> DEFINE match == match_index'[l]
<1>3. UpdatedCommitIndex(l, match) /\ log' = log
  BY Zenon, <1>1, <1>2 DEF AdvanceFollower
<1>4. /\ match \in [Server -> Nat] /\ match[l] = 0
      /\ \A j \in Server : j # l => match[j] <= Len(log'[j])
  BY ZenonT(30), NextTypeInv, NextFollowersHave
     DEF FollowersHave, Followers, TypeInv, TypeOK, IndexTypeOK
<1> HIDE DEF match
<1>5. PICK k \in {commitIndex[l]} \cup DOMAIN log[l] :
          /\ k = commitIndex[l] \/ (k > commitIndex[l] /\ Committable(l, match, k))
          /\ acked' = IF client_id_to_addr[l]
                      THEN acked \cup {log[l][n] : n \in commitIndex[l] + 1 .. k}
                      ELSE acked
  BY Zenon, <1>3 DEF UpdatedCommitIndex
<1>6. PICK n \in commitIndex[l] + 1 .. k : e = log[l][n]
  BY Zenon, <1>5
<1>7. \A j \in Server : Len(log[j]) \in Nat /\ DOMAIN log[j] = 1 .. Len(log[j])
  BY SMTT(30), LenProperties DEF TypeInv, TypeOK, LogTypeOK
<1>8. commitIndex[l] \in Nat
  BY SMTT(30) DEF TypeInv, TypeOK, LogTypeOK
<1>9. /\ k \in 1 .. Len(log[l]) /\ n \in 1 .. k /\ n \in 1 .. Len(log[l])
      /\ Committable(l, match, k)
  <2>1. k \in {commitIndex[l]} \cup (1 .. Len(log[l])) /\ Len(log[l]) \in Nat
    BY ZenonT(30), <1>7
  <2>2. k # commitIndex[l] /\ k \in 1 .. Len(log[l]) /\ n \in 1 .. k /\ n \in 1 .. Len(log[l])
    BY ZenonT(30), <1>8, <2>1, NewlyCommitted
  <2> QED
    BY ZenonT(30), <1>5, <2>2
<1> DEFINE copies == {j \in Server : match[j] >= k}
<1>10. l \notin copies
  BY SMTT(30), <1>4, <1>9
<1>11. ASSUME NEW j \in copies PROVE j \in Holders(e)'
  <2>1. j # l /\ j \in Server
    BY ZenonT(30), <1>10
  <2>2. n \in 1 .. Len(log[j])
    <3>1. match[j] \in Nat /\ match[j] >= k /\ match[j] <= Len(log[j]) /\ Len(log[j]) \in Nat
      BY ZenonT(30), <1>3, <1>4, <1>7, <2>1
    <3>2. Len(log[l]) \in Nat /\ k \in 1 .. Len(log[l]) /\ n \in 1 .. k
      BY ZenonT(30), <1>7, <1>9
    <3> QED
      BY ZenonT(30), <3>1, <3>2, HeldUpTo
  <2>3. log[j][n] = log[l][n]
    BY Zenon, <2>1, <2>2, SamePlace
  <2> QED
    BY Zenon, <1>3, <1>6, <1>7, <2>1, <2>2, <2>3 DEF Holders
<1>12. l \in Holders(e)'
  BY Zenon, <1>3, <1>6, <1>7, <1>9 DEF Holders
<1>13. copies \subseteq Server /\ Holders(e)' \subseteq Server
  BY Zenon DEF Holders
<1>14. Cardinality(copies) + 1 >= majority_count
  BY Zenon, <1>9 DEF Committable
<1> HIDE DEF copies
<1>15. copies \cup {l} \subseteq Holders(e)'
  BY Zenon, <1>11, <1>12
<1>16. IsFiniteSet(copies) /\ IsFiniteSet(Holders(e)')
  BY Zenon, <1>13, ConstantsAssumption, FS_Subset
<1>17. /\ IsFiniteSet(copies \cup {l})
       /\ Cardinality(copies \cup {l}) = Cardinality(copies) + 1
  BY Zenon, <1>10, <1>16, FS_AddElement
<1>18. Cardinality(copies \cup {l}) <= Cardinality(Holders(e)')
  BY Zenon, <1>15, <1>16, FS_Subset
<1>19. /\ Cardinality(copies) \in Nat /\ Cardinality(Holders(e)') \in Nat
       /\ Cardinality(Server) \in Nat
  BY Zenon, <1>16, ConstantsAssumption, FS_CardinalityType
<1>20. majority_count \in Int
  BY SMTT(30), <1>19 DEF majority_count, N
<1> QED
  BY SMTT(30), <1>14, <1>17, <1>18, <1>19, <1>20

\* Every step keeps an acknowledged entry in majority_count logs.
LEMMA NextAcked ==
    ASSUME TypeInv, LedInv, LogInv, SingleInv, AckedOnMajority, [Next]_vars
    PROVE  AckedOnMajority'
<1> SUFFICES ASSUME NEW l \in Server, OnlyLeader(l)', NEW e \in acked'
             PROVE  Cardinality(Holders(e)') >= majority_count
  BY Zenon DEF AckedOnMajority, Holders, majority_count, N
<1>1. OnlyLeader(l)
  BY Zenon, LeadersGrow DEF OnlyLeader
<1>2. LeaderHasAll(l) /\ FollowersHave(l)
  BY Zenon, <1>1 DEF SingleInv
<1>3. CASE e \in acked
  <2>1. Cardinality(Holders(e)) >= majority_count
    BY Zenon, <1>1, <1>3 DEF AckedOnMajority, Holders
  <2>2. ASSUME NEW j \in Holders(e) PROVE j \in Holders(e)'
    <3>1. j \in Server
      BY ZenonT(30) DEF Holders
    <3>2. /\ DOMAIN log[j] = 1 .. Len(log[j]) /\ Len(log[j]) \in Nat
          /\ DOMAIN log'[j] = 1 .. Len(log'[j]) /\ Len(log'[j]) \in Nat
      BY SMTT(30), <3>1, NextTypeInv, LenProperties DEF TypeInv, TypeOK, LogTypeOK
    <3>3. PICK k \in 1 .. Len(log[j]) : log[j][k] = e
      BY Zenon, <3>2 DEF Holders
    <3>4. Len(log'[j]) >= Len(log[j]) /\ log'[j][k] = log[j][k]
      BY Zenon, <1>1, <1>2, <3>1, LogsKept
    <3>5. k \in 1 .. Len(log'[j])
      BY SMTT(30), <3>2, <3>4
    <3> QED
      BY Zenon, <3>1, <3>2, <3>3, <3>4, <3>5 DEF Holders
  <2>3. Holders(e) \subseteq Holders(e)' /\ Holders(e)' \subseteq Server
    BY Zenon, <2>2 DEF Holders
  <2>4. IsFiniteSet(Holders(e)')
    BY Zenon, <2>3, ConstantsAssumption, FS_Subset
  <2>5. IsFiniteSet(Holders(e)) /\ Cardinality(Holders(e)) <= Cardinality(Holders(e)')
    BY Zenon, <2>3, <2>4, FS_Subset
  <2>6. /\ Cardinality(Holders(e)) \in Nat /\ Cardinality(Holders(e)') \in Nat
        /\ Cardinality(Server) \in Nat
    BY Zenon, <2>4, <2>5, ConstantsAssumption, FS_CardinalityType
  <2>7. majority_count \in Int
    BY SMTT(30), <2>6 DEF majority_count, N
  <2> QED
    BY SMTT(30), <2>1, <2>5, <2>6, <2>7
<1>4. CASE e \notin acked
  BY Zenon, <1>1, <1>2, <1>4, AckedIsHeld
<1> QED
  BY Zenon, <1>3, <1>4

\* At the start no log has an entry.
LEMMA InitSingleInv == Init => SingleInv /\ AckedOnMajority
<1> SUFFICES ASSUME Init PROVE SingleInv /\ AckedOnMajority
  BY SMTT(30)
<1>1. \A i \in Server : log[i] = <<>>
  BY DEF Init
<1>2. \A x : x \notin LogLinks(<<>>)
  BY SMTT(30) DEF LogLinks, Links
<1>3. msgs = {} /\ acked = {}
  BY DEF Init
<1>4. \A x : ~ IsLink(x)
  BY Zenon, <1>1, <1>2, <1>3 DEF IsLink, Proposed
<1>5. /\ \A i, j \in Server : commitIndex[i] <= commitIndex[j]
      /\ \A i, j \in Server : match_index[i][j] = 0
  BY DEF Init
<1>6. \A i, j \in Server : match_index[i][j] <= Len(log[j])
  BY SMTT(30), <1>1, <1>5
<1> QED
  BY Zenon, <1>3, <1>4, <1>5, <1>6
     DEF SingleInv, LeaderHasAll, FollowersHave, Followers, Proposed, AckedOnMajority

\* The invariants of this module hold in every reachable state.
LEMMA SingleInvariant ==
    Spec => [](TypeInv /\ LedInv /\ LogInv /\ SingleInv /\ AckedOnMajority)
<1>1. Init => LedInv
  BY DEF Init, LedInv
<1>2. TypeInv /\ LedInv /\ LogInv /\ [Next]_vars => LogInv'
  BY Zenon, NextLogInv
<1>3. TypeInv /\ LedInv /\ LogInv /\ SingleInv /\ [Next]_vars => SingleInv'
  BY Zenon, NextSingleInv
<1>4. TypeInv /\ LedInv /\ LogInv /\ SingleInv /\ AckedOnMajority /\ [Next]_vars
          => AckedOnMajority'
  BY Zenon, NextAcked
<1> QED
  BY <1>1, <1>2, <1>3, <1>4, InitTypeInv, InitLogInv, InitSingleInv, NextTypeInv,
     NextLedInv, PTL DEF Spec

\* While one node only has led, every log is a prefix of its log, whatever the
\* network loses, duplicates or reorders: the merge loop of handle_append_entries
\* neither loses nor reorders entries.
THEOREM FollowersArePrefixes == Spec => []LogsArePrefixes
BY SingleInvariant, SinglePrefixes, PTL

\* While one node only has led, handle_append_entries_response never raises
\* match_index beyond the follower's log, and no node commits more than the leader.
THEOREM MatchIndexNeverOvertakes == Spec => []MatchIndexIsSound
<1>1. SingleInv => MatchIndexIsSound
  BY Zenon DEF SingleInv, LeaderHasAll, FollowersHave, MatchIndexIsSound, Followers
<1> QED
  BY <1>1, SingleInvariant, PTL

\* While one node only has led, updated_commit_index acknowledges an entry only
\* when majority_count logs hold it, and they hold it ever after.
THEOREM AcknowledgedIsReplicated == Spec => []AckedOnMajority
BY SingleInvariant, PTL
-----------------------------------------------------------------------------
(* Votes *)

\* Two quorums of votes share a voter, which has voted twice in the term; it
\* has accepted an AppendEntries of the term; so a node has led in the term.
\* Hence, until a first node leads, at most one candidate can win a term.
THEOREM VotesElectOne == Spec => []OneWinnerUntilLed
<1>1. Init => VoteInv /\ LedInv
  BY DEF Init, VoteInv, LedInv, OneVoteUnlessHeard
<1>2. Spec => [](TypeInv /\ VoteInv /\ LedInv)
  BY <1>1, InitTypeInv, NextTypeInv, NextVoteInv, NextLedInv, PTL DEF Spec
<1>3. TypeInv /\ VoteInv /\ LedInv => OneWinnerUntilLed
  <2> SUFFICES ASSUME TypeInv, VoteInv, LedInv, NEW t,
                      \A i \in Server : <<i, t>> \notin leaders,
                      NEW c \in Server, NEW d \in Server, c # d,
                      Cardinality(Voters(c, t)) >= vote_quorum,
                      Cardinality(Voters(d, t)) >= vote_quorum
               PROVE  FALSE
    BY DEF OneWinnerUntilLed
  <2>1. Voters(c, t) \subseteq Server /\ Voters(d, t) \subseteq Server
    BY SMTT(30) DEF Voters
  <2>2. /\ Cardinality(Server) \in Nat
        /\ Cardinality(Voters(c, t)) \in Nat /\ Cardinality(Voters(d, t)) \in Nat
    BY SMTT(30), <2>1, ConstantsAssumption, FS_CardinalityType, FS_Subset
  <2>3. Cardinality(Voters(c, t)) + Cardinality(Voters(d, t)) > Cardinality(Server)
    BY SMTT(30), <2>2 DEF vote_quorum, N
  <2>4. PICK v \in Server : v \in Voters(c, t) /\ v \in Voters(d, t)
    BY SMTT(30), <2>1, <2>3, ConstantsAssumption, FS_MajoritiesIntersect
  <2> DEFINE x == [voter |-> v, term |-> t, candidate |-> c]
             y == [voter |-> v, term |-> t, candidate |-> d]
  <2>5. x \in votes /\ y \in votes
    BY SMTT(30), <2>4 DEF Voters
  <2>6. <<v, t>> \in heard
    BY <2>5 DEF VoteInv, OneVoteUnlessHeard
  <2> QED
    BY ZenonT(30), <2>6 DEF LedInv
<1> QED
  BY <1>2, <1>3, PTL
=============================================================================
