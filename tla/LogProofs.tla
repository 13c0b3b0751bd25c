----------------------------- MODULE LogProofs ------------------------------
(***************************************************************************)
(* What the logs guarantee whoever leads, for any number of nodes and any  *)
(* number of leaders: the terms of a log never decrease, and as long as no *)
(* term has two leaders, logs that have an entry of the same term at an    *)
(* index agree up to it.                                                   *)
(***************************************************************************)
EXTENDS ElectionProofs

USE DEF stateVars, loopVars, logVars, indexVars, historyVars
-----------------------------------------------------------------------------
(* Links: the entries of the logs and of the messages, each with its index   *)
(* and the term of the entry before it                                       *)

LogLinks(l) == Links(0, 0, l)

MessageLinks(m) == Links(m.prev_log_index, m.prev_log_term, m.entries)

Proposed == {m \in msgs : m.type = "AppendEntries"}

\* Is x a link of a log or of a message in flight?
IsLink(x) == \/ \E i \in Server : x \in LogLinks(log[i])
             \/ \E m \in Proposed : x \in MessageLinks(m)

\* The link of the entry that a request at leader i creates
NewLink(i) ==
    <<Len(log[i]) + 1, [term |-> current_term[i], request |-> requests + 1],
      LastLogTerm(log[i])>>

\* The parts of a link have their types.
LEMMA LinkTypes ==
    ASSUME NEW l \in Seq(Entry), NEW prev \in Nat, NEW term \in Nat,
           NEW x \in Links(prev, term, l)
    PROVE  x = <<x[1], x[2], x[3]>> /\ x[1] \in Nat /\ x[2].term \in Nat /\ x[3] \in Nat
<1>1. PICK n \in 1 .. Len(l) :
          x = <<prev + n, l[n], IF n = 1 THEN term ELSE l[n - 1].term>>
  BY Zenon DEF Links
<1>2. Len(l) \in Nat /\ \A k \in 1 .. Len(l) : l[k].term \in Nat
  <2>1. \A k \in 1 .. Len(l) : l[k] \in Entry
    BY ElementOfSeq
  <2> QED
    BY <2>1, LenProperties DEF Entry
<1> DEFINE before == IF n = 1 THEN term ELSE l[n - 1].term
<1>3. before \in Nat
  BY <1>2
<1>4. x = <<prev + n, l[n], before>>
  BY Zenon, <1>1
<1> HIDE DEF before
<1>5. x[1] = prev + n /\ x[2] = l[n] /\ x[3] = before
  BY Zenon, <1>4
<1> QED
  BY <1>2, <1>3, <1>4, <1>5

\* The same for a link of a log or of a message in flight
LEMMA IsLinkTypes ==
    ASSUME TypeInv, NEW x, IsLink(x)
    PROVE  x = <<x[1], x[2], x[3]>> /\ x[1] \in Nat /\ x[2].term \in Nat /\ x[3] \in Nat
<1>1. CASE \E i \in Server : x \in LogLinks(log[i])
  <2>1. PICK i \in Server : x \in Links(0, 0, log[i])
    BY Zenon, <1>1 DEF LogLinks
  <2>2. log[i] \in Seq(Entry) /\ 0 \in Nat
    BY DEF TypeInv, TypeOK, LogTypeOK
  <2> QED
    BY Zenon, <2>1, <2>2, LinkTypes
<1>2. CASE \E m \in Proposed : x \in MessageLinks(m)
  <2>1. PICK m \in Proposed : x \in Links(m.prev_log_index, m.prev_log_term, m.entries)
    BY Zenon, <1>2 DEF MessageLinks
  <2>2. m.prev_log_index \in Nat /\ m.prev_log_term \in Nat /\ m.entries \in Seq(Entry)
    BY MessageFields DEF Proposed, TypeInv, TypeOK
  <2> QED
    BY Zenon, <2>1, <2>2, LinkTypes
<1> QED
  BY Zenon, <1>1, <1>2 DEF IsLink
-----------------------------------------------------------------------------
(* Steps *)

\* The only steps that touch a log, a commit index, a match index or the history
\* of acknowledgements
LogStep ==
    \/ \E i \in Server : BecomeLeader(i) \/ HandleClientRequest(i)
    \/ \E m \in msgs :
           /\ m.to \in Server
           /\ \/ m.type = "AppendEntries" /\ AcceptAppendEntries(m.to, m)
              \/ /\ m.type = "AppendEntriesResponse" /\ role[m.to] = "LEADER"
                 /\ AdvanceFollower(m.to, m)

\* Nothing but the steps of LogStep changes a log, what is committed or
\* acknowledged, or who has led.
LEMMA LogSteps ==
    ASSUME TypeInv, [Next]_vars
    PROVE  LogStep \/ UNCHANGED <<log, commitIndex, match_index, acked, leaders>>
<1>1. ASSUME NEW i \in Server, Loop(i)
      PROVE  LogStep \/ UNCHANGED <<log, commitIndex, match_index, acked, leaders>>
  BY Zenon, <1>1 DEF Loop, ElectionTimeoutIgnored, ElectionTimeout, Heartbeat,
                     Failure, LogStep
<1>2. ASSUME NEW m \in msgs, Receive(m)
      PROVE  LogStep \/ UNCHANGED <<log, commitIndex, match_index, acked, leaders>>
  <2>1. m.to \in Server
    BY MessageFields DEF TypeInv, TypeOK
  <2>2. CASE HandleRequestVote(m.to, m)
    BY Zenon, <2>2 DEF HandleRequestVote, RejectStaleRequestVote,
                       HandlePetitionRequestVote, Vote
  <2>3. CASE HandleVoteResponse(m.to, m)
    BY Zenon, <2>3 DEF HandleVoteResponse, AdoptTerm, CountVote
  <2>4. CASE HandleAppendEntries(m.to, m)
    BY Zenon, <2>1, <2>4 DEF HandleAppendEntries, RejectStaleAppendEntries,
                             RejectAppendEntries, FollowLeader, LogStep
  <2>5. CASE HandleAppendEntriesResponse(m.to, m)
    BY Zenon, <2>1, <2>5 DEF HandleAppendEntriesResponse, AdoptTerm, BackOffFollower,
                             LogStep
  <2>6. CASE HandlePetition(m.to, m) \/ DropResponse(m.to, m)
    BY Zenon, <2>6 DEF HandlePetition, DropResponse
  <2> QED
    BY Zenon, <1>2, <2>2, <2>3, <2>4, <2>5, <2>6 DEF Receive
<1>3. ASSUME NEW i \in Server, HandleClientRequest(i)
      PROVE  LogStep
  BY Zenon, <1>3 DEF LogStep
<1>4. ASSUME NEW i \in Server, NEW j \in Server, SendPetition(i, j)
      PROVE  UNCHANGED <<log, commitIndex, match_index, acked, leaders>>
  BY Zenon, <1>4 DEF SendPetition
<1>5. CASE UNCHANGED vars
  BY Zenon, <1>5 DEF vars
<1> QED
  BY Zenon, <1>1, <1>2, <1>3, <1>4, <1>5 DEF Next

\* A request adds one entry, and with it one link, to the log of the leader.
LEMMA ClientLinks ==
    ASSUME TypeInv, NEW i \in Server, HandleClientRequest(i)
    PROVE  /\ LogLinks(log'[i]) = LogLinks(log[i]) \cup {NewLink(i)}
           /\ Len(log'[i]) = Len(log[i]) + 1
           /\ \A k \in 1 .. Len(log[i]) : log'[i][k] = log[i][k]
           /\ \A j \in Server : j # i => log'[j] = log[j]
<1> DEFINE e == [term |-> current_term[i], request |-> requests + 1]
<1>1. log \in [Server -> Seq(Entry)] /\ log[i] \in Seq(Entry)
  BY DEF TypeInv, TypeOK, LogTypeOK
<1>2. e \in Entry
  BY DEF Entry, TypeInv, TypeOK, StateTypeOK
<1>3. log' = [log EXCEPT ![i] = Append(log[i], e)]
  BY Zenon DEF HandleClientRequest
<1> HIDE DEF e
<1>4. log'[i] = Append(log[i], e) /\ \A j \in Server : j # i => log'[j] = log[j]
  BY Zenon, <1>1, <1>3
<1>5. Links(0, 0, Append(log[i], e)) =
          Links(0, 0, log[i]) \cup {<<Len(log[i]) + 1, e, LastLogTerm(log[i])>>}
  BY Zenon, <1>1, <1>2, AppendLinks
<1>6. Len(log'[i]) = Len(log[i]) + 1 /\ \A k \in 1 .. Len(log[i]) : log'[i][k] = log[i][k]
  BY <1>1, <1>2, <1>4, AppendProperties
<1> QED
  BY Zenon, <1>4, <1>5, <1>6 DEF LogLinks, NewLink, e

\* handle_append_entries makes no new link.
LEMMA AcceptLinks ==
    ASSUME TypeInv, NEW m \in msgs, m.type = "AppendEntries", m.to \in Server,
           m.prev_log_index = 0 => m.prev_log_term = 0,
           AcceptAppendEntries(m.to, m)
    PROVE  /\ LogLinks(log'[m.to]) \subseteq LogLinks(log[m.to]) \cup MessageLinks(m)
           /\ \A j \in Server : j # m.to => log'[j] = log[j]
<1>1. log \in [Server -> Seq(Entry)] /\ log[m.to] \in Seq(Entry)
  BY DEF TypeInv, TypeOK, LogTypeOK
<1>2. m.prev_log_index \in Nat /\ m.entries \in Seq(Entry)
  BY MessageFields DEF TypeInv, TypeOK
<1>3. /\ ContainsEntry(log[m.to], m.prev_log_index, m.prev_log_term)
      /\ log' = [log EXCEPT ![m.to] = MergeEntries(log[m.to], m.prev_log_index, m.entries)]
  BY Zenon DEF AcceptAppendEntries
<1>4. log'[m.to] = MergeEntries(log[m.to], m.prev_log_index, m.entries)
      /\ \A j \in Server : j # m.to => log'[j] = log[j]
  BY Zenon, <1>1, <1>3
<1> QED
  BY Zenon, <1>1, <1>2, <1>3, <1>4, MergeEntriesLinks DEF LogLinks, MessageLinks

\* A leader sends links of its log, never to itself, and with its commit index.
LEMMA SentLinks ==
    ASSUME TypeInv, [Next]_vars, NEW n \in msgs', n.type = "AppendEntries", n \notin msgs
    PROVE  /\ n.to # n.from /\ n.from \in Server
           /\ n.prev_log_index = 0 => n.prev_log_term = 0
           /\ MessageLinks(n) \subseteq LogLinks(log'[n.from])
           /\ n.leader_commit = commitIndex[n.from] /\ commitIndex' = commitIndex
           /\ n.term = current_term'[n.from] /\ leaders' = leaders
<1>1. PICK i \in Server :
          \/ /\ Heartbeat(i)
             /\ n \in {AppendEntries(i, j, log[i], next_index[i][j], 0) :
                           j \in Followers(i)}
          \/ /\ HandleClientRequest(i)
             /\ \E l : log' = [log EXCEPT ![i] = l] /\ n \in Proposals(i, l)
  BY Zenon, AppendEntriesSent
<1>2. /\ role[i] = "LEADER" /\ commitIndex' = commitIndex /\ leaders' = leaders
      /\ current_term' = current_term
  BY Zenon, <1>1 DEF Heartbeat, HandleClientRequest
<1>3. log \in [Server -> Seq(Entry)]
  BY DEF TypeInv, TypeOK, LogTypeOK
<1>4. \E j \in Followers(i), start, count \in Nat :
          start >= next_index[i][j] /\ n = AppendEntries(i, j, log'[i], start, count)
  <2>1. CASE /\ Heartbeat(i)
             /\ n \in {AppendEntries(i, j, log[i], next_index[i][j], 0) :
                           j \in Followers(i)}
    <3>1. log' = log
      BY Zenon, <2>1 DEF Heartbeat
    <3>2. PICK j \in Followers(i) : n = AppendEntries(i, j, log[i], next_index[i][j], 0)
      BY Zenon, <2>1
    <3>3. next_index[i][j] \in Nat /\ next_index[i][j] >= next_index[i][j] /\ 0 \in Nat
      BY DEF Followers, TypeInv, TypeOK, IndexTypeOK
    <3> QED
      BY Zenon, <3>1, <3>2, <3>3
  <2>2. CASE \E l : log' = [log EXCEPT ![i] = l] /\ n \in Proposals(i, l)
    <3>1. PICK l : log' = [log EXCEPT ![i] = l] /\ n \in Proposals(i, l)
      BY Zenon, <2>2
    <3>2. log'[i] = l
      BY Zenon, <1>3, <3>1
    <3>3. PICK j \in ProposalTargets(i, l) :
              \E k \in next_index[i][j] .. LastLogIndex(l) :
                  n = AppendEntries(i, j, l, k, MtuEntries)
      BY Zenon, <3>1 DEF Proposals
    <3>4. PICK k \in next_index[i][j] .. LastLogIndex(l) :
              n = AppendEntries(i, j, l, k, MtuEntries)
      BY Zenon, <3>3
    <3>5. j \in Followers(i)
      BY Zenon DEF ProposalTargets
    <3>6. k \in Nat /\ k >= next_index[i][j] /\ MtuEntries \in Nat
      BY <3>5, ConstantsAssumption DEF Followers, TypeInv, TypeOK, IndexTypeOK
    <3> QED
      BY Zenon, <3>2, <3>4, <3>5, <3>6
  <2> QED
    BY Zenon, <1>1, <2>1, <2>2
<1>5. PICK j \in Followers(i), start, count \in Nat :
          start >= next_index[i][j] /\ n = AppendEntries(i, j, log'[i], start, count)
  BY Zenon, <1>4
<1>6. start \in Nat \ {0}
  BY <1>2, <1>5 DEF Followers, TypeInv, TypeOK, IndexTypeOK, LeaderIsReady
<1>7. log'[i] \in Seq(Entry)
  BY NextTypeInv DEF TypeInv, TypeOK, LogTypeOK
<1> DEFINE last == Lesser(start + count - 1, Len(log'[i]))
<1>8. last \in Int /\ last <= Len(log'[i])
  BY <1>6, <1>7, LenProperties DEF Lesser
<1>9. /\ n.from = i /\ n.to = j /\ n.term = current_term[i]
      /\ n.prev_log_index = start - 1 /\ n.prev_log_term = EntryTerm(log'[i], start - 1)
      /\ n.entries = SubSeq(log'[i], start, last) /\ n.leader_commit = commitIndex[i]
  BY ZenonT(30), <1>5 DEF AppendEntries
<1> HIDE DEF last
<1>10. MessageLinks(n) \subseteq LogLinks(log'[i])
  BY Zenon, <1>6, <1>7, <1>8, <1>9, SubSeqLinks DEF MessageLinks, LogLinks
<1>11. start - 1 = 0 => EntryTerm(log'[i], start - 1) = 0
  BY <1>7, LenProperties DEF EntryTerm
<1>12. j # i
  BY DEF Followers
<1> QED
  BY Zenon, <1>2, <1>9, <1>10, <1>11, <1>12
-----------------------------------------------------------------------------
(* The terms of a log never decrease *)

\* No link is newer than the node or the message that holds it, none is older
\* than the entry before it, and each was made by a leader of its term.
LogInv ==
    /\ \A i \in Server : \A x \in LogLinks(log[i]) : x[2].term <= current_term[i]
    /\ \A m \in Proposed : /\ m.to # m.from
                           /\ m.prev_log_index = 0 => m.prev_log_term = 0
                           /\ \A x \in MessageLinks(m) : x[2].term <= m.term
    /\ \A x : IsLink(x) => /\ x[3] <= x[2].term
                           /\ \E l \in Server : <<l, x[2].term>> \in leaders
    /\ \A p \in leaders : p[2] <= current_term[p[1]]

\* A step makes no link but that of the entry a request creates.
LEMMA LogLinkSteps ==
    ASSUME TypeInv, LogInv, [Next]_vars, NEW j \in Server, NEW x \in LogLinks(log'[j])
    PROVE  \/ x \in LogLinks(log[j])
           \/ HandleClientRequest(j) /\ x = NewLink(j)
           \/ \E m \in Proposed : m.to = j /\ AcceptAppendEntries(j, m) /\ x \in MessageLinks(m)
<1>1. CASE UNCHANGED <<log, commitIndex, match_index, acked, leaders>>
  BY Zenon, <1>1
<1>2. ASSUME NEW i \in Server, BecomeLeader(i) PROVE log' = log
  BY Zenon, <1>2 DEF BecomeLeader
<1>3. ASSUME NEW i \in Server, HandleClientRequest(i)
      PROVE  x \in LogLinks(log[j]) \/ (HandleClientRequest(j) /\ x = NewLink(j))
  BY Zenon, <1>3, ClientLinks
<1>4. ASSUME NEW m \in msgs, m.to \in Server, m.type = "AppendEntries",
             AcceptAppendEntries(m.to, m)
      PROVE  x \in LogLinks(log[j]) \/ (m.to = j /\ x \in MessageLinks(m))
  <2>1. m.prev_log_index = 0 => m.prev_log_term = 0
    BY Zenon, <1>4 DEF LogInv, Proposed
  <2> QED
    BY Zenon, <1>4, <2>1, AcceptLinks
<1>5. ASSUME NEW m, AdvanceFollower(m.to, m) PROVE log' = log
  BY Zenon, <1>5 DEF AdvanceFollower
<1>6. CASE LogStep
  <2>1. CASE \E i \in Server : BecomeLeader(i) \/ HandleClientRequest(i)
    BY Zenon, <2>1, <1>2, <1>3
  <2>2. CASE \E m \in msgs : /\ m.to \in Server
                             /\ m.type = "AppendEntries" /\ AcceptAppendEntries(m.to, m)
    BY Zenon, <2>2, <1>4 DEF Proposed
  <2>3. CASE \E m \in msgs : AdvanceFollower(m.to, m)
    BY Zenon, <2>3, <1>5
  <2> QED
    BY Zenon, <1>6, <2>1, <2>2, <2>3 DEF LogStep
<1> QED
  BY Zenon, <1>1, <1>6, LogSteps

\* No step but a request at a leader makes a link that was not there before.
LEMMA LinkSteps ==
    ASSUME TypeInv, LogInv, [Next]_vars, NEW x, IsLink(x)'
    PROVE  IsLink(x) \/ \E i \in Server : HandleClientRequest(i) /\ x = NewLink(i)
<1>1. ASSUME NEW j \in Server, x \in LogLinks(log'[j])
      PROVE  IsLink(x) \/ \E i \in Server : HandleClientRequest(i) /\ x = NewLink(i)
  BY Zenon, <1>1, LogLinkSteps DEF IsLink
<1>2. ASSUME NEW m \in msgs', m.type = "AppendEntries", x \in MessageLinks(m)
      PROVE  IsLink(x) \/ \E j \in Server : x \in LogLinks(log'[j])
  BY Zenon, <1>2, SentLinks DEF IsLink, Proposed
<1> QED
  BY Zenon, <1>1, <1>2 DEF IsLink, Proposed

\* LastLogTerm is the term of a link of the log.
LEMMA LastLink ==
    ASSUME TypeInv, LogInv, NEW i \in Server
    PROVE  LastLogTerm(log[i]) <= current_term[i]
<1>1. log[i] \in Seq(Entry) /\ Len(log[i]) \in Nat /\ current_term[i] \in Nat
  BY LenProperties DEF TypeInv, TypeOK, LogTypeOK, StateTypeOK
<1>2. CASE log[i] = <<>>
  BY <1>1, <1>2 DEF LastLogTerm
<1>3. CASE log[i] # <<>>
  <2> DEFINE n == Len(log[i])
             before == IF n = 1 THEN 0 ELSE log[i][n - 1].term
  <2>1. n \in 1 .. Len(log[i]) /\ n = 0 + n
    BY <1>1, <1>3, EmptySeq
  <2>2. <<n, log[i][n], before>> \in LogLinks(log[i])
    BY Zenon, <2>1, LinkOf DEF LogLinks
  <2> HIDE DEF before
  <2>3. <<n, log[i][n], before>>[2].term <= current_term[i]
    BY Zenon, <2>2 DEF LogInv
  <2> QED
    BY <1>3, <2>3 DEF LastLogTerm
<1> QED
  BY <1>2, <1>3

\* Only become_leader makes a node one that has led.
LEMMA LeadersAdded ==
    ASSUME TypeInv, [Next]_vars, NEW p \in leaders', p \notin leaders
    PROVE  \E i \in Server : BecomeLeader(i) /\ p = <<i, current_term[i]>>
<1>1. ASSUME NEW i \in Server, BecomeLeader(i) PROVE p = <<i, current_term[i]>>
  BY Zenon, <1>1 DEF BecomeLeader
<1>2. ASSUME NEW i \in Server, HandleClientRequest(i) PROVE leaders' = leaders
  BY Zenon, <1>2 DEF HandleClientRequest
<1>3. ASSUME NEW m, AcceptAppendEntries(m.to, m) \/ AdvanceFollower(m.to, m)
      PROVE  leaders' = leaders
  BY Zenon, <1>3 DEF AcceptAppendEntries, FollowLeader, AdvanceFollower
<1> QED
  BY Zenon, <1>1, <1>2, <1>3, LogSteps DEF LogStep

\* Every step keeps the terms of the links in order.
LEMMA NextLogInv ==
    ASSUME TypeInv, LedInv, LogInv, [Next]_vars
    PROVE  LogInv'
<1>1. \A i \in Server : /\ current_term[i] \in Nat /\ current_term'[i] \in Nat
                        /\ current_term[i] <= current_term'[i]
  BY TermsGrow, NextTypeInv DEF TypeInv, TypeOK, StateTypeOK
<1>2. \A m \in Proposed : m.from \in Server /\ m.to \in Server /\ m.term \in Nat
  BY MessageFields DEF Proposed, TypeInv, TypeOK
<1>3. ASSUME NEW j \in Server, NEW x \in LogLinks(log'[j])
      PROVE  x[2].term <= current_term'[j]
  <2>1. log'[j] \in Seq(Entry) /\ 0 \in Nat
    BY NextTypeInv DEF TypeInv, TypeOK, LogTypeOK
  <2>2. x[2].term \in Nat
    BY Zenon, <2>1, LinkTypes DEF LogLinks
  <2>3. CASE x \in LogLinks(log[j])
    BY <1>1, <2>2, <2>3 DEF LogInv
  <2>4. CASE HandleClientRequest(j) /\ x = NewLink(j)
    <3>1. x[2].term = current_term[j]
      BY <2>4 DEF NewLink
    <3> QED
      BY <1>1, <3>1
  <2>5. ASSUME NEW m \in Proposed, m.to = j, AcceptAppendEntries(j, m), x \in MessageLinks(m)
        PROVE  x[2].term <= current_term'[j]
    <3>1. current_term' = [current_term EXCEPT ![j] = m.term]
      BY Zenon, <2>5 DEF AcceptAppendEntries, FollowLeader
    <3>2. current_term \in [Server -> Nat]
      BY DEF TypeInv, TypeOK, StateTypeOK
    <3>3. current_term'[j] = m.term
      BY Zenon, <3>1, <3>2
    <3> QED
      BY Zenon, <2>5, <3>3 DEF LogInv
  <2> QED
    BY Zenon, <2>3, <2>4, <2>5, LogLinkSteps
<1>4. ASSUME NEW n \in msgs', n.type = "AppendEntries"
      PROVE  /\ n.to # n.from
             /\ n.prev_log_index = 0 => n.prev_log_term = 0
             /\ \A x \in MessageLinks(n) : x[2].term <= n.term
  <2>1. CASE n \in msgs
    BY Zenon, <1>4, <2>1 DEF LogInv, Proposed
  <2>2. CASE n \notin msgs
    BY Zenon, <1>3, <1>4, <2>2, SentLinks
  <2> QED
    BY Zenon, <2>1, <2>2
<1>5. ASSUME NEW x, IsLink(x)'
      PROVE  x[3] <= x[2].term /\ \E l \in Server : <<l, x[2].term>> \in leaders'
  <2>1. leaders \subseteq leaders'
    BY Zenon, LeadersGrow
  <2>2. CASE IsLink(x)
    BY Zenon, <2>1, <2>2 DEF LogInv
  <2>3. ASSUME NEW i \in Server, HandleClientRequest(i), x = NewLink(i)
        PROVE  x[3] <= x[2].term /\ \E l \in Server : <<l, x[2].term>> \in leaders'
    <3>1. role[i] = "LEADER"
      BY Zenon, <2>3 DEF HandleClientRequest
    <3>2. <<i, current_term[i]>> \in leaders
      BY Zenon, <3>1 DEF LedInv
    <3>3. x[3] = LastLogTerm(log[i]) /\ x[2].term = current_term[i]
      BY <2>3 DEF NewLink
    <3> QED
      BY Zenon, <2>1, <3>2, <3>3, LastLink
  <2> QED
    BY Zenon, <1>5, <2>2, <2>3, LinkSteps
<1>6. ASSUME NEW p \in leaders'
      PROVE  p[2] <= current_term'[p[1]]
  <2>1. CASE p \in leaders
    <3>1. p[1] \in Server /\ p[2] \in Nat
      BY <2>1 DEF TypeInv, TypeOK, HistoryTypeOK
    <3> QED
      BY <1>1, <2>1, <3>1 DEF LogInv
  <2>2. ASSUME NEW i \in Server, p = <<i, current_term[i]>>
        PROVE  p[2] <= current_term'[p[1]]
    BY <1>1, <2>2
  <2> QED
    BY Zenon, <2>1, <2>2, LeadersAdded
<1> QED
  BY Zenon, <1>3, <1>4, <1>5, <1>6 DEF LogInv, Proposed

\* At the start there is no link.
LEMMA InitLogInv == Init => LogInv
<1> SUFFICES ASSUME Init PROVE LogInv
  OBVIOUS
<1>1. \A i \in Server : log[i] = <<>>
  BY DEF Init
<1>2. \A x : x \notin LogLinks(<<>>)
  BY DEF LogLinks, Links
<1>3. \A m : m \notin Proposed
  BY DEF Init, Proposed
<1>4. leaders = {}
  BY DEF Init
<1> QED
  BY Zenon, <1>1, <1>2, <1>3, <1>4 DEF LogInv, IsLink

\* Each entry of a log is in a link of it.
LEMMA EntryLink ==
    ASSUME NEW l, NEW n \in 1 .. Len(l), Len(l) \in Nat
    PROVE  \E x \in LogLinks(l) : x[1] = n /\ x[2] = l[n]
<1> DEFINE before == IF n = 1 THEN 0 ELSE l[n - 1].term
<1>1. n = 0 + n
  OBVIOUS
<1>2. <<n, l[n], before>> \in LogLinks(l)
  BY Zenon, <1>1, LinkOf DEF LogLinks
<1> HIDE DEF before
<1>3. <<n, l[n], before>>[1] = n /\ <<n, l[n], before>>[2] = l[n]
  OBVIOUS
<1> QED
  BY Zenon, <1>2, <1>3

\* Links whose terms are in order make logs whose terms are.
LEMMA LogInvOrders == TypeInv /\ LogInv => LogTermsOrdered
<1> SUFFICES ASSUME TypeInv, LogInv, NEW i \in Server
             PROVE  /\ \A k \in DOMAIN log[i] : log[i][k].term <= current_term[i]
                    /\ \A k, n \in DOMAIN log[i] :
                           k <= n => log[i][k].term <= log[i][n].term
  BY Zenon DEF LogTermsOrdered
<1>1. /\ log[i] \in Seq(Entry) /\ Len(log[i]) \in Nat /\ DOMAIN log[i] = 1 .. Len(log[i])
      /\ \A e \in Entry : e.term \in Nat
  BY LenProperties DEF TypeInv, TypeOK, LogTypeOK, Entry
<1>2. ASSUME NEW k \in 1 .. Len(log[i]) PROVE log[i][k].term <= current_term[i]
  <2>1. PICK x \in LogLinks(log[i]) : x[2] = log[i][k]
    BY Zenon, <1>1, EntryLink
  <2>2. x[2].term <= current_term[i]
    BY Zenon DEF LogInv
  <2> QED
    BY Zenon, <2>1, <2>2
<1>3. \A x \in Links(0, 0, log[i]) : x[3] <= x[2].term
  BY Zenon DEF LogInv, IsLink, LogLinks
<1>4. \A k, n \in 1 .. Len(log[i]) : k <= n => log[i][k].term <= log[i][n].term
  BY Zenon, <1>1, <1>3, LinksOrder
<1> QED
  BY Zenon, <1>1, <1>2, <1>4

\* The terms of every log never decrease along it and never exceed the node's
\* term, whatever the leaders sent and the merge loop of handle_append_entries cut.
THEOREM TermsAreOrdered == Spec => []LogTermsOrdered
<1>1. Init => LedInv
  BY DEF Init, LedInv
<1>2. TypeInv /\ LedInv /\ LogInv /\ [Next]_vars => LogInv'
  BY Zenon, NextLogInv
<1>3. Spec => [](TypeInv /\ LedInv /\ LogInv)
  BY <1>1, <1>2, InitTypeInv, InitLogInv, NextTypeInv, NextLedInv, PTL DEF Spec
<1> QED
  BY <1>3, LogInvOrders, PTL
-----------------------------------------------------------------------------
(* Logs match while no term has two leaders *)

OneLeaderATerm == \A p, q \in leaders : p[2] = q[2] => p = q

\* An index and a term determine a link, and the leader of a term has a log that
\* reaches every entry of the term.
MatchInv ==
    OneLeaderATerm =>
        /\ \A x, y : IsLink(x) /\ IsLink(y) /\ x[1] = y[1] /\ x[2].term = y[2].term
                         => x = y
        /\ \A i \in Server : <<i, current_term[i]>> \in leaders =>
               \A x : IsLink(x) /\ x[2].term = current_term[i] => x[1] <= Len(log[i])

\* Only a request and handle_append_entries change a log.
LEMMA LogChanges ==
    ASSUME TypeInv, [Next]_vars, NEW i \in Server
    PROVE  \/ log'[i] = log[i]
           \/ HandleClientRequest(i)
           \/ \E m \in Proposed : m.to = i /\ AcceptAppendEntries(i, m)
<1>1. ASSUME NEW j \in Server, HandleClientRequest(j), j # i
      PROVE  log'[i] = log[i]
  BY Zenon, <1>1, ClientLinks
<1>2. ASSUME NEW j \in Server, BecomeLeader(j) PROVE log' = log
  BY Zenon, <1>2 DEF BecomeLeader
<1>3. ASSUME NEW m \in msgs, m.to \in Server, AcceptAppendEntries(m.to, m), m.to # i
      PROVE  log'[i] = log[i]
  <2>1. log \in [Server -> Seq(Entry)]
    BY DEF TypeInv, TypeOK, LogTypeOK
  <2>2. \E l : log' = [log EXCEPT ![m.to] = l]
    BY Zenon, <1>3 DEF AcceptAppendEntries
  <2> QED
    BY Zenon, <1>3, <2>1, <2>2
<1>4. ASSUME NEW m, AdvanceFollower(m.to, m) PROVE log' = log
  BY Zenon, <1>4 DEF AdvanceFollower
<1> QED
  BY Zenon, <1>1, <1>2, <1>3, <1>4, LogSteps DEF LogStep, Proposed

\* Only handle_append_entries can shorten a log.
LEMMA LogsGrow ==
    ASSUME TypeInv, [Next]_vars, NEW i \in Server
    PROVE  \/ Len(log'[i]) >= Len(log[i])
           \/ \E m \in Proposed : m.to = i /\ AcceptAppendEntries(i, m)
<1>1. Len(log[i]) \in Nat
  BY LenProperties DEF TypeInv, TypeOK, LogTypeOK
<1>2. CASE log'[i] = log[i]
  BY <1>1, <1>2
<1>3. CASE HandleClientRequest(i)
  BY <1>1, <1>3, ClientLinks
<1> QED
  BY Zenon, <1>2, <1>3, LogChanges

\* The leader of a term accepts no AppendEntries of the term.
LEMMA LeaderAcceptsNone ==
    ASSUME TypeInv, LedInv, LogInv, OneLeaderATerm, NEW m \in Proposed,
           AcceptAppendEntries(m.to, m), <<m.to, current_term'[m.to]>> \in leaders
    PROVE  FALSE
<1>1. m \in msgs /\ m.type = "AppendEntries" /\ m.to \in Server
  BY MessageFields DEF Proposed, TypeInv, TypeOK
<1>2. current_term' = [current_term EXCEPT ![m.to] = m.term]
  BY Zenon DEF AcceptAppendEntries, FollowLeader
<1>3. current_term \in [Server -> Nat]
  BY DEF TypeInv, TypeOK, StateTypeOK
<1>4. current_term'[m.to] = m.term
  BY Zenon, <1>1, <1>2, <1>3
<1>5. <<m.from, m.term>> \in leaders
  BY Zenon, <1>1 DEF LedInv
<1>6. <<m.from, m.term>> = <<m.to, m.term>>
  BY <1>4, <1>5 DEF OneLeaderATerm
<1>7. m.from # m.to
  BY Zenon DEF LogInv
<1> QED
  BY <1>6, <1>7

\* The leader that makes a link, the index and the term of that link
LEMMA NewLinkFields ==
    ASSUME TypeInv, LedInv, NEW i \in Server, HandleClientRequest(i)
    PROVE  /\ NewLink(i)[1] = Len(log[i]) + 1 /\ NewLink(i)[1] = Len(log'[i])
           /\ NewLink(i)[2].term = current_term[i] /\ <<i, current_term[i]>> \in leaders
           /\ Len(log[i]) \in Nat /\ leaders' = leaders /\ current_term' = current_term
<1>1. role[i] = "LEADER" /\ leaders' = leaders /\ current_term' = current_term
  BY Zenon DEF HandleClientRequest
<1>2. <<i, current_term[i]>> \in leaders
  BY Zenon, <1>1 DEF LedInv
<1>3. NewLink(i)[1] = Len(log[i]) + 1 /\ NewLink(i)[2].term = current_term[i]
  BY DEF NewLink
<1>4. Len(log[i]) \in Nat
  BY LenProperties DEF TypeInv, TypeOK, LogTypeOK
<1> QED
  BY Zenon, <1>1, <1>2, <1>3, <1>4, ClientLinks

\* Every step that gives no term a second leader keeps true that links of one
\* index and one term are the same link.
LEMMA NextMatchInv ==
    ASSUME TypeInv, LedInv, LogInv, MatchInv, [Next]_vars
    PROVE  MatchInv'
<1> SUFFICES ASSUME OneLeaderATerm'
             PROVE  /\ \A x, y : IsLink(x)' /\ IsLink(y)' /\ x[1] = y[1]
                                     /\ x[2].term = y[2].term => x = y
                    /\ \A i \in Server : <<i, current_term'[i]>> \in leaders' =>
                           \A x : IsLink(x)' /\ x[2].term = current_term'[i]
                                     => x[1] <= Len(log'[i])
  BY Zenon DEF MatchInv
<1>1. leaders \subseteq leaders'
  BY Zenon, LeadersGrow
<1>2. OneLeaderATerm
  BY Zenon, <1>1 DEF OneLeaderATerm
<1>3. ASSUME NEW i \in Server, NEW k \in Server, <<i, current_term[i]>> \in leaders,
             <<k, current_term[k]>> \in leaders, current_term[i] = current_term[k]
      PROVE  i = k
  BY <1>2, <1>3 DEF OneLeaderATerm
<1>4. ASSUME NEW k \in Server, HandleClientRequest(k), NEW y, IsLink(y),
             y[1] = NewLink(k)[1], y[2].term = NewLink(k)[2].term
      PROVE  FALSE
  <2>1. y[1] <= Len(log[k])
    BY Zenon, <1>2, <1>4, NewLinkFields DEF MatchInv
  <2>2. y[1] = Len(log[k]) + 1 /\ Len(log[k]) \in Nat
    BY Zenon, <1>4, NewLinkFields
  <2> QED
    BY <2>1, <2>2
<1>5. ASSUME NEW x, NEW y, IsLink(x)', IsLink(y)', x[1] = y[1], x[2].term = y[2].term
      PROVE  x = y
  <2>1. CASE IsLink(x) /\ IsLink(y)
    BY Zenon, <1>2, <1>5, <2>1 DEF MatchInv
  <2>2. ASSUME NEW k \in Server, HandleClientRequest(k), x = NewLink(k), IsLink(y)
        PROVE  FALSE
    BY Zenon, <1>4, <1>5, <2>2
  <2>3. ASSUME NEW k \in Server, HandleClientRequest(k), y = NewLink(k), IsLink(x)
        PROVE  FALSE
    BY Zenon, <1>4, <1>5, <2>3
  <2>4. ASSUME NEW k \in Server, HandleClientRequest(k), x = NewLink(k),
               NEW j \in Server, HandleClientRequest(j), y = NewLink(j)
        PROVE  x = y
    <3>1. current_term[j] = current_term[k]
      BY Zenon, <1>5, <2>4, NewLinkFields
    <3>2. j = k
      BY Zenon, <1>3, <2>4, <3>1, NewLinkFields
    <3> QED
      BY Zenon, <2>4, <3>2
  <2> QED
    BY Zenon, <1>5, <2>1, <2>2, <2>3, <2>4, LinkSteps
<1>6. ASSUME NEW i \in Server, <<i, current_term'[i]>> \in leaders', NEW x, IsLink(x)',
             x[2].term = current_term'[i]
      PROVE  x[1] <= Len(log'[i])
  <2>1. CASE <<i, current_term'[i]>> \in leaders
    <3>1. current_term'[i] = current_term[i]
      <4>1. <<i, current_term'[i]>>[2] <= current_term[<<i, current_term'[i]>>[1]]
        BY Zenon, <2>1 DEF LogInv
      <4>2. current_term[i] \in Nat /\ current_term'[i] \in Nat
            /\ current_term'[i] >= current_term[i]
        BY TermsGrow, NextTypeInv DEF TypeInv, TypeOK, StateTypeOK
      <4> QED
        BY <4>1, <4>2
    <3>2. Len(log'[i]) >= Len(log[i])
      BY Zenon, <1>2, <2>1, LogsGrow, LeaderAcceptsNone
    <3>3. Len(log[i]) \in Nat /\ Len(log'[i]) \in Nat
      BY NextTypeInv, LenProperties DEF TypeInv, TypeOK, LogTypeOK
    <3>4. CASE IsLink(x)
      <4>1. x[1] <= Len(log[i])
        BY Zenon, <1>2, <1>6, <2>1, <3>1, <3>4 DEF MatchInv
      <4>2. x[1] \in Nat
        BY Zenon, <3>4, IsLinkTypes
      <4> QED
        BY <3>2, <3>3, <4>1, <4>2
    <3>5. ASSUME NEW k \in Server, HandleClientRequest(k), x = NewLink(k)
          PROVE  x[1] <= Len(log'[i])
      <4>1. i = k
        <5>1. current_term[i] = current_term[k] /\ <<k, current_term[k]>> \in leaders
          BY Zenon, <1>6, <3>1, <3>5, NewLinkFields
        <5> QED
          BY Zenon, <1>3, <2>1, <3>1, <5>1
      <4>2. x[1] = Len(log'[i])
        BY Zenon, <3>5, <4>1, NewLinkFields
      <4> QED
        BY <3>3, <4>2
    <3> QED
      BY Zenon, <1>6, <3>4, <3>5, LinkSteps
  <2>2. CASE <<i, current_term'[i]>> \notin leaders
    <3>1. IsLink(x)
      BY Zenon, <1>6, <2>2, LinkSteps, NewLinkFields
    <3>2. PICK l \in Server : <<l, x[2].term>> \in leaders
      BY Zenon, <3>1 DEF LogInv
    <3>3. <<l, x[2].term>> = <<i, current_term'[i]>>
      BY <1>1, <1>6, <3>2 DEF OneLeaderATerm
    <3> QED
      BY Zenon, <2>2, <3>2, <3>3
  <2> QED
    BY Zenon, <2>1, <2>2
<1> QED
  BY Zenon, <1>5, <1>6

\* Logs made of such links match.
LEMMA MatchInvMatches == TypeInv /\ MatchInv => LogsMatch
<1> SUFFICES ASSUME TypeInv, MatchInv, OneLeaderATerm, NEW i \in Server, NEW j \in Server,
                    NEW k \in DOMAIN log[i] \cap DOMAIN log[j],
                    log[i][k].term = log[j][k].term
             PROVE  SubSeq(log[i], 1, k) = SubSeq(log[j], 1, k)
  BY Zenon DEF LogsMatch, OneLeaderATerm
<1>1. /\ log[i] \in Seq(Entry) /\ Len(log[i]) \in Nat /\ DOMAIN log[i] = 1 .. Len(log[i])
      /\ log[j] \in Seq(Entry) /\ Len(log[j]) \in Nat /\ DOMAIN log[j] = 1 .. Len(log[j])
  BY LenProperties DEF TypeInv, TypeOK, LogTypeOK
<1>2. k \in 1 .. Len(log[i]) /\ k <= Len(log[j])
  BY <1>1
<1>3. Determined(log[i], log[j])
  <2> SUFFICES ASSUME NEW x \in Links(0, 0, log[i]), NEW y \in Links(0, 0, log[j]),
                      x[1] = y[1], x[2].term = y[2].term
               PROVE  x = y
    BY Zenon DEF Determined
  <2>1. IsLink(x) /\ IsLink(y)
    BY Zenon DEF IsLink, LogLinks
  <2> QED
    BY Zenon, <2>1 DEF MatchInv
<1> QED
  BY Zenon, <1>1, <1>2, <1>3, LinksAgree

\* As long as no term has had two leaders, logs that have entries of the same term
\* at an index agree up to it, for any number of nodes, terms and messages:
\* containsEntry and the term comparison of the merge loop are enough.
THEOREM EqualTermsMatch == Spec => []LogsMatch
<1>1. Init => LedInv /\ MatchInv
  <2>1. Init => MatchInv
    <3> SUFFICES ASSUME Init PROVE MatchInv
      OBVIOUS
    <3>1. \A x : ~ IsLink(x)
      <4>1. \A i \in Server : log[i] = <<>>
        BY DEF Init
      <4>2. \A x : x \notin LogLinks(<<>>)
        BY DEF LogLinks, Links
      <4>3. \A m : m \notin Proposed
        BY DEF Init, Proposed
      <4> QED
        BY Zenon, <4>1, <4>2, <4>3 DEF IsLink
    <3> QED
      BY Zenon, <3>1 DEF MatchInv
  <2> QED
    BY <2>1 DEF Init, LedInv
<1>2. TypeInv /\ LedInv /\ LogInv /\ [Next]_vars => LogInv'
  BY Zenon, NextLogInv
<1>3. TypeInv /\ LedInv /\ LogInv /\ MatchInv /\ [Next]_vars => MatchInv'
  BY Zenon, NextMatchInv
<1>4. Spec => [](TypeInv /\ LedInv /\ LogInv /\ MatchInv)
  BY <1>1, <1>2, <1>3, InitTypeInv, InitLogInv, NextTypeInv, NextLedInv, PTL DEF Spec
<1> QED
  BY <1>4, MatchInvMatches, PTL
=============================================================================
