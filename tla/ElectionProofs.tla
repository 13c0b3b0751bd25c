--------------------------- MODULE ElectionProofs ---------------------------
(***************************************************************************)
(* What the handlers of the election guarantee, for any number of nodes:   *)
(* terms never go back, a node votes once in a term until it hears of a    *)
(* leader, a candidate can always try again, and only petitions of the     *)
(* present term are counted.                                               *)
(***************************************************************************)
EXTENDS NodeProofs

USE DEF stateVars, loopVars, logVars, indexVars, historyVars
-----------------------------------------------------------------------------
(* Terms and votes *)

\* A fact of arithmetic
LEMMA NotLower ==
    ASSUME NEW a \in Nat, NEW b \in Nat, ~(a < b)
    PROVE  a >= b /\ (a > b \/ a = b)
OBVIOUS

\* The only steps that touch a term, a vote or the history of either
TermStep(i, m) ==
    \/ m.type = "RequestVote" /\ Vote(i, m)
    \/ AdoptTerm(i, m)
    \/ m.type = "AppendEntries" /\ ~Stale(i, m) /\ FollowLeader(i, m)

\* A term or a vote changes only when an election starts, a vote is asked for,
\* a higher term is adopted or an AppendEntries of a leader is accepted.
LEMMA TermSteps ==
    ASSUME TypeInv, [Next]_vars
    PROVE  \/ UNCHANGED <<current_term, voted_for, votes, heard>>
           \/ \E i \in Server : ElectionTimeout(i)
           \/ \E m \in msgs : m.to \in Server /\ TermStep(m.to, m)
<1>1. ASSUME NEW i \in Server, Loop(i)
      PROVE  ElectionTimeout(i) \/ UNCHANGED <<current_term, voted_for, votes, heard>>
  BY ZenonT(30), <1>1 DEF Loop, ElectionTimeoutIgnored, BecomeLeader, Heartbeat, Failure
<1>2. ASSUME NEW m \in msgs, Receive(m)
      PROVE  \/ UNCHANGED <<current_term, voted_for, votes, heard>>
             \/ m.to \in Server /\ TermStep(m.to, m)
  <2>1. m.to \in Server
    BY MessageFields DEF TypeInv, TypeOK
  <2>2. CASE HandleRequestVote(m.to, m)
    BY SMTT(30), <2>1, <2>2 DEF HandleRequestVote, RejectStaleRequestVote,
                      HandlePetitionRequestVote, TermStep
  <2>3. CASE HandleVoteResponse(m.to, m)
    BY <2>1, <2>3 DEF HandleVoteResponse, CountVote, TermStep
  <2>4. CASE HandleAppendEntries(m.to, m)
    BY ZenonT(30), <2>1, <2>4 DEF HandleAppendEntries, RejectStaleAppendEntries,
                      RejectAppendEntries, AcceptAppendEntries, TermStep
  <2>5. CASE HandleAppendEntriesResponse(m.to, m)
    BY SMTT(30), <2>1, <2>5 DEF HandleAppendEntriesResponse, AdvanceFollower,
                      BackOffFollower, TermStep
  <2>6. CASE HandlePetition(m.to, m) \/ DropResponse(m.to, m)
    BY <2>6 DEF HandlePetition, DropResponse
  <2> QED
    BY SMTT(30), <1>2, <2>2, <2>3, <2>4, <2>5, <2>6 DEF Receive
<1>3. ASSUME NEW i \in Server, HandleClientRequest(i)
      PROVE  UNCHANGED <<current_term, voted_for, votes, heard>>
  BY <1>3 DEF HandleClientRequest
<1>4. ASSUME NEW i \in Server, NEW j \in Server, SendPetition(i, j)
      PROVE  UNCHANGED <<current_term, voted_for, votes, heard>>
  BY <1>4 DEF SendPetition
<1>5. CASE UNCHANGED vars
  BY <1>5 DEF vars
<1> QED
  BY SMTT(30), <1>1, <1>2, <1>3, <1>4, <1>5 DEF Next

\* A step that changes terms changes that of one node, to a term not lower.
LEMMA TermsGrow ==
    ASSUME TypeInv, [Next]_vars
    PROVE  \A i \in Server : current_term'[i] >= current_term[i]
<1> SUFFICES ASSUME NEW k \in Server
             PROVE  current_term'[k] >= current_term[k]
  OBVIOUS
<1>1. current_term \in [Server -> Nat]
  BY DEF TypeInv, TypeOK, StateTypeOK
<1>2. CASE UNCHANGED <<current_term, voted_for, votes, heard>>
  BY <1>1, <1>2
<1>3. ASSUME NEW i \in Server, ElectionTimeout(i)
      PROVE  current_term'[k] >= current_term[k]
  <2>1. current_term' = [current_term EXCEPT ![i] = @ + 1]
    BY Zenon, <1>3 DEF ElectionTimeout
  <2> QED
    BY <1>1, <2>1
<1>4. ASSUME NEW m \in msgs, m.to \in Server, TermStep(m.to, m)
      PROVE  current_term'[k] >= current_term[k]
  <2>1. m.term \in Nat
    BY MessageFields DEF TypeInv, TypeOK
  <2>2. /\ current_term' = [current_term EXCEPT ![m.to] = m.term]
        /\ ~(m.term < current_term[m.to]) \/ m.term > current_term[m.to]
    BY Zenon, <1>4 DEF TermStep, Vote, AdoptTerm, FollowLeader, Stale
  <2> QED
    BY SMTT(30), <1>1, <1>4, <2>1, <2>2
<1> QED
  BY SMTT(30), <1>2, <1>3, <1>4, TermSteps

\* No node ever goes back to an earlier term: stale requests are rejected, and
\* responses of a later term are the only ones that change the term.
THEOREM TermsNeverDecrease == Spec => TermNeverDecreases
<1>1. TypeInv /\ [Next]_vars => [\A i \in Server : current_term'[i] >= current_term[i]]_vars
  BY TermsGrow
<1>2. Spec => []TypeInv
  BY InitTypeInv, NextTypeInv, PTL DEF Spec
<1> QED
  BY <1>1, <1>2, PTL DEF Spec, TermNeverDecreases
-----------------------------------------------------------------------------
(* One vote a term, until an AppendEntries of the term is accepted *)

\* Votes are of the voter's term or an earlier one.  A vote of the present term
\* is still in voted_for, unless an AppendEntries of the term emptied it.
VoteInv ==
    /\ OneVoteUnlessHeard
    /\ \A v \in votes :
           /\ v.term <= current_term[v.voter]
           /\ v.term = current_term[v.voter] =>
                  voted_for[v.voter] = v.candidate \/ <<v.voter, v.term>> \in heard

\* handle_request_vote keeps the history of the votes true: it grants a vote
\* in its own term only when it has none, or to the same candidate again.
LEMMA VoteInvVote ==
    ASSUME TypeInv, VoteInv, NEW m \in msgs, NEW i \in Server,
           m.type = "RequestVote", Vote(i, m)
    PROVE  VoteInv'
<1> DEFINE new == [voter |-> i, term |-> m.term, candidate |-> m.from]
<1>1. /\ m.from \in Server /\ m.term \in Nat
      /\ current_term \in [Server -> Nat]
      /\ voted_for \in [Server -> Server \cup {None}]
      /\ votes \subseteq [voter : Server, term : Nat, candidate : Server]
  BY MessageFields DEF TypeInv, TypeOK, StateTypeOK, HistoryTypeOK
<1>2. /\ current_term' = [current_term EXCEPT ![i] = m.term]
      /\ voted_for' = [voted_for EXCEPT ![i] = Ballot(i, m)]
      /\ m.term >= current_term[i] /\ heard' = heard
      /\ votes' = IF Grants(i, m) THEN votes \cup {new} ELSE votes
  <2>1. /\ current_term' = [current_term EXCEPT ![i] = m.term]
        /\ voted_for' = [voted_for EXCEPT ![i] = Ballot(i, m)]
        /\ ~(m.term < current_term[i]) /\ heard' = heard
        /\ votes' = IF Grants(i, m) THEN votes \cup {new} ELSE votes
    BY Zenon DEF Vote, Stale
  <2>2. m.term >= current_term[i]
    BY Zenon, <1>1, <2>1, NotLower
  <2> QED
    BY Zenon, <2>1, <2>2
<1>3. ASSUME NEW v \in votes, v.voter = i, v.term = m.term, <<i, m.term>> \notin heard
      PROVE  Ballot(i, m) = v.candidate
  <2>1. current_term[i] = m.term /\ voted_for[i] = v.candidate /\ v.candidate \in Server
    BY SMTT(30), <1>1, <1>2, <1>3 DEF VoteInv
  <2>2. VotedFor(i, m) = v.candidate
    BY SMTT(30), <1>1, <2>1 DEF VotedFor
  <2> QED
    BY Zenon, <2>1, <2>2, ConstantsAssumption DEF Ballot, Grants
<1>4. ASSUME NEW v \in votes', v.voter = i, v.term = m.term, <<i, m.term>> \notin heard
      PROVE  Ballot(i, m) = v.candidate
  BY SMTT(30), <1>2, <1>3, <1>4 DEF Ballot
<1>5. ASSUME NEW v \in votes'
      PROVE  /\ v.term <= current_term'[v.voter]
             /\ v.term = current_term'[v.voter] =>
                    voted_for'[v.voter] = v.candidate \/ <<v.voter, v.term>> \in heard'
  <2>1. CASE v.voter = i
    <3>1. v.term <= m.term
      <4>1. CASE v \in votes
        <5>1. v.term <= current_term[i] /\ v.term \in Nat
          BY Zenon, <1>1, <2>1, <4>1 DEF VoteInv
        <5> QED
          BY <1>1, <1>2, <5>1
      <4>2. CASE v = new
        BY <1>1, <4>2
      <4> QED
        BY <1>2, <1>5, <4>1, <4>2
    <3> QED
      BY SMTT(30), <1>1, <1>2, <1>4, <1>5, <2>1, <3>1
  <2>2. CASE v.voter # i
    <3>1. v \in votes /\ v.voter \in Server
      BY <1>1, <1>2, <1>5, <2>2
    <3>2. current_term'[v.voter] = current_term[v.voter]
          /\ voted_for'[v.voter] = voted_for[v.voter] /\ heard' = heard
      BY Zenon, <1>1, <1>2, <2>2, <3>1
    <3> QED
      BY Zenon, <3>1, <3>2 DEF VoteInv
  <2> QED
    BY SMTT(30), <2>1, <2>2
<1>6. ASSUME NEW v \in votes', NEW w \in votes', v.voter = w.voter,
             v.term = w.term, v.candidate # w.candidate
      PROVE  <<v.voter, v.term>> \in heard'
  <2>1. CASE v.voter = i /\ v.term = m.term
    BY Zenon, <1>2, <1>4, <1>6, <2>1
  <2>2. CASE ~(v.voter = i /\ v.term = m.term)
    <3>1. v \in votes /\ w \in votes
      BY <1>2, <1>6, <2>2
    <3> QED
      BY SMTT(30), <1>2, <1>6, <3>1 DEF VoteInv, OneVoteUnlessHeard
  <2> QED
    BY <2>1, <2>2
<1> QED
  BY SMTT(30), <1>5, <1>6 DEF VoteInv, OneVoteUnlessHeard

\* A node that enters a later term has not voted in it.
LEMMA VoteInvTerm ==
    ASSUME TypeInv, VoteInv, NEW i \in Server, NEW t \in Nat, NEW b,
           t >= current_term[i], t = current_term[i] => <<i, t>> \in heard',
           current_term' = [current_term EXCEPT ![i] = t],
           voted_for' = [voted_for EXCEPT ![i] = b],
           votes' = votes, heard \subseteq heard'
    PROVE  VoteInv'
<1>1. /\ current_term \in [Server -> Nat]
      /\ voted_for \in [Server -> Server \cup {None}]
      /\ votes \subseteq [voter : Server, term : Nat, candidate : Server]
  BY Zenon DEF TypeInv, TypeOK, StateTypeOK, HistoryTypeOK
<1>2. OneVoteUnlessHeard'
  BY Zenon DEF VoteInv, OneVoteUnlessHeard
<1>3. ASSUME NEW v \in votes
      PROVE  /\ v.term <= current_term'[v.voter]
             /\ v.term = current_term'[v.voter] =>
                    voted_for'[v.voter] = v.candidate \/ <<v.voter, v.term>> \in heard'
  <2>1. v.voter \in Server /\ v.term \in Nat
    BY <1>1
  <2>2. /\ v.term <= current_term[v.voter]
        /\ v.term = current_term[v.voter] =>
               voted_for[v.voter] = v.candidate \/ <<v.voter, v.term>> \in heard
    BY Zenon DEF VoteInv
  <2>3. CASE v.voter = i
    <3>1. current_term'[i] = t /\ current_term[i] \in Nat
      BY <1>1
    <3>2. v.term <= t /\ (v.term = t => t = current_term[i])
      BY <2>1, <2>2, <2>3, <3>1
    <3> QED
      BY Zenon, <2>3, <3>1, <3>2
  <2>4. CASE v.voter # i
    BY Zenon, <1>1, <2>1, <2>2, <2>4
  <2> QED
    BY SMTT(30), <2>3, <2>4
<1> QED
  BY Zenon, <1>2, <1>3 DEF VoteInv

\* Every step keeps the history of the votes true.
LEMMA NextVoteInv == TypeInv /\ VoteInv /\ [Next]_vars => VoteInv'
<1> SUFFICES ASSUME TypeInv, VoteInv, [Next]_vars PROVE VoteInv'
  OBVIOUS
<1>1. /\ current_term \in [Server -> Nat]
      /\ voted_for \in [Server -> Server \cup {None}]
      /\ votes \subseteq [voter : Server, term : Nat, candidate : Server]
  BY DEF TypeInv, TypeOK, StateTypeOK, HistoryTypeOK
<1>2. CASE UNCHANGED <<current_term, voted_for, votes, heard>>
  BY <1>2 DEF VoteInv, OneVoteUnlessHeard
<1>3. ASSUME NEW i \in Server, ElectionTimeout(i)
      PROVE  VoteInv'
  <2>1. /\ current_term' = [current_term EXCEPT ![i] = @ + 1]
        /\ voted_for' = [voted_for EXCEPT ![i] = i]
        /\ votes' = votes /\ heard' = heard
    BY Zenon, <1>3 DEF ElectionTimeout
  <2>2. current_term[i] + 1 \in Nat /\ current_term[i] + 1 > current_term[i]
        /\ current_term[i] + 1 >= current_term[i] /\ current_term[i] + 1 # current_term[i]
    BY <1>1
  <2> QED
    BY Zenon, <2>1, <2>2, VoteInvTerm
<1>4. ASSUME NEW m \in msgs, m.to \in Server, TermStep(m.to, m)
      PROVE  VoteInv'
  <2>1. m.term \in Nat
    BY MessageFields DEF TypeInv, TypeOK
  <2>2. CASE m.type = "RequestVote" /\ Vote(m.to, m)
    BY SMTT(30), <1>4, <2>2, VoteInvVote
  <2>3. CASE AdoptTerm(m.to, m)
    <3>1. /\ m.term > current_term[m.to]
          /\ current_term' = [current_term EXCEPT ![m.to] = m.term]
          /\ voted_for' = [voted_for EXCEPT ![m.to] = None]
          /\ votes' = votes /\ heard' = heard
      BY Zenon, <2>3 DEF AdoptTerm
    <3>2. m.term >= current_term[m.to] /\ m.term # current_term[m.to]
      BY <1>1, <1>4, <2>1, <3>1
    <3> QED
      BY Zenon, <1>4, <2>1, <3>1, <3>2, VoteInvTerm
  <2>4. CASE m.type = "AppendEntries" /\ ~Stale(m.to, m) /\ FollowLeader(m.to, m)
    <3>1. /\ ~(m.term < current_term[m.to])
          /\ current_term' = [current_term EXCEPT ![m.to] = m.term]
          /\ voted_for' = [voted_for EXCEPT ![m.to] = None]
          /\ votes' = votes /\ heard' = heard \cup {<<m.to, m.term>>}
      BY Zenon, <2>4 DEF FollowLeader, Stale
    <3>2. m.term >= current_term[m.to]
      BY Zenon, <1>1, <1>4, <2>1, <3>1, NotLower
    <3> QED
      BY Zenon, <1>4, <2>1, <3>1, <3>2, VoteInvTerm
  <2> QED
    BY <1>4, <2>2, <2>3, <2>4 DEF TermStep
<1> QED
  BY SMTT(30), <1>2, <1>3, <1>4, TermSteps

\* For any number of nodes: a node that votes for two candidates of a term has
\* accepted an AppendEntries of that term, which emptied its voted_for.
THEOREM VotesAreUnique == Spec => []OneVoteUnlessHeard
<1>1. Init => VoteInv
  BY DEF Init, VoteInv, OneVoteUnlessHeard
<1>2. Spec => [](TypeInv /\ VoteInv)
  BY <1>1, InitTypeInv, NextTypeInv, NextVoteInv, PTL DEF Spec
<1>3. VoteInv => OneVoteUnlessHeard
  BY DEF VoteInv
<1> QED
  BY <1>2, <1>3, PTL
-----------------------------------------------------------------------------
(* An AppendEntries of a term means that a node has led in that term *)

LedInv ==
    /\ \A i \in Server : role[i] = "LEADER" => <<i, current_term[i]>> \in leaders
    /\ \A m \in msgs : m.type = "AppendEntries" => <<m.from, m.term>> \in leaders
    /\ \A h \in heard : \E l \in Server : <<l, h[2]>> \in leaders

\* What start_election sends is no AppendEntries.
LEMMA RequestVoteKind ==
    ASSUME NEW i, NEW t, NEW j, NEW p, NEW n, n = RequestVote(i, t, j, p)
    PROVE  n.type = "RequestVote"
BY DEF RequestVote

\* What handle_request_vote answers is no AppendEntries.
LEMMA VoteResponseKind ==
    ASSUME NEW i, NEW j, NEW t, NEW g, NEW n, n = VoteResponse(i, j, t, g)
    PROVE  n.type = "VoteResponse"
BY SMTT(30) DEF VoteResponse

\* send_heartbeat stamps its own id and term on what it sends.
LEMMA HeartbeatKind ==
    ASSUME NEW i,
           NEW n \in {AppendEntries(i, j, log[i], next_index[i][j], 0) : j \in Followers(i)}
    PROVE  n.type = "AppendEntries" /\ n.from = i /\ n.term = current_term[i]
<1>1. PICK j : n = AppendEntries(i, j, log[i], next_index[i][j], 0)
  BY Zenon
<1> QED
  BY ZenonT(30), <1>1 DEF AppendEntries

\* send_proposals_to_followers stamps its own id and term on what it sends.
LEMMA ProposalKind ==
    ASSUME NEW i, NEW l, NEW n \in Proposals(i, l)
    PROVE  n.type = "AppendEntries" /\ n.from = i /\ n.term = current_term[i]
<1>1. PICK j, k : n = AppendEntries(i, j, l, k, MtuEntries)
  BY Zenon DEF Proposals
<1> QED
  BY ZenonT(30), <1>1 DEF AppendEntries

\* What handle_append_entries answers is no AppendEntries.
LEMMA AppendEntriesResponseKind ==
    ASSUME NEW i, NEW j, NEW t, NEW g, NEW k, NEW n,
           n = AppendEntriesResponse(i, j, t, g, k)
    PROVE  n.type = "AppendEntriesResponse"
BY DEF AppendEntriesResponse

\* Handlers send nothing but answers and the RequestVote of a petition.
LEMMA Answers ==
    ASSUME NEW m, Receive(m)
    PROVE  \E out : /\ Deliver(m, out)
                    /\ \A r \in out : r.type # "AppendEntries" /\ r.type # "Petition"
<1> DEFINE i == m.to
           Quiet(out) == \A r \in out : r.type # "AppendEntries" /\ r.type # "Petition"
<1>1. Quiet({})
  OBVIOUS
<1>2. \A j, t, g : Quiet({VoteResponse(i, j, t, g)})
  BY Zenon, VoteResponseKind
<1>3. \A j, t, g, k : Quiet({AppendEntriesResponse(i, j, t, g, k)})
  BY Zenon, AppendEntriesResponseKind
<1>4. \A t, j, p : Quiet({RequestVote(i, t, j, p)})
  BY Zenon, RequestVoteKind
<1> HIDE DEF Quiet
<1> SUFFICES \E out : Deliver(m, out) /\ Quiet(out)
  BY Zenon DEF Quiet
<1>5. CASE HandleRequestVote(i, m)
  BY Zenon, <1>1, <1>2, <1>5 DEF HandleRequestVote, RejectStaleRequestVote,
     HandlePetitionRequestVote, Vote
<1>6. CASE HandleVoteResponse(i, m) \/ HandleAppendEntriesResponse(i, m)
           \/ DropResponse(i, m)
  BY Zenon, <1>1, <1>6 DEF HandleVoteResponse, AdoptTerm, CountVote, DropResponse,
     HandleAppendEntriesResponse, AdvanceFollower, BackOffFollower
<1>7. CASE HandleAppendEntries(i, m)
  BY Zenon, <1>3, <1>7 DEF HandleAppendEntries, RejectStaleAppendEntries,
     RejectAppendEntries, AcceptAppendEntries
<1>8. CASE HandlePetition(i, m)
  BY Zenon, <1>1, <1>4, <1>8 DEF HandlePetition
<1> QED
  BY Zenon, <1>5, <1>6, <1>7, <1>8 DEF Receive

\* AppendEntries are sent by send_heartbeat and by send_proposals_to_followers.
LEMMA AppendEntriesSent ==
    ASSUME TypeInv, [Next]_vars, NEW n \in msgs', n.type = "AppendEntries", n \notin msgs
    PROVE  \E i \in Server :
               \/ /\ Heartbeat(i)
                  /\ n \in {AppendEntries(i, j, log[i], next_index[i][j], 0) :
                                j \in Followers(i)}
               \/ /\ HandleClientRequest(i)
                  /\ \E l : log' = [log EXCEPT ![i] = l] /\ n \in Proposals(i, l)
<1>1. ASSUME NEW i \in Server, Loop(i)
      PROVE  /\ Heartbeat(i)
             /\ n \in {AppendEntries(i, j, log[i], next_index[i][j], 0) :
                           j \in Followers(i)}
  <2>1. CASE ElectionTimeoutIgnored(i) \/ BecomeLeader(i) \/ Failure(i)
    BY Zenon, <2>1 DEF ElectionTimeoutIgnored, BecomeLeader, Failure
  <2>2. CASE ElectionTimeout(i)
    <3>1. n \in {RequestVote(i, current_term[i] + 1, j, FALSE) : j \in Server}
      BY Zenon, <2>2, SendAdds DEF ElectionTimeout
    <3>2. n.type = "RequestVote"
      BY Zenon, <3>1, RequestVoteKind
    <3> QED
      BY <3>2
  <2>3. CASE Heartbeat(i)
    BY Zenon, <2>3, SendAdds DEF Heartbeat
  <2> QED
    BY SMTT(30), <1>1, <2>1, <2>2, <2>3 DEF Loop
<1>2. ASSUME NEW m \in msgs, Receive(m)
      PROVE  FALSE
  <2>1. PICK out : Deliver(m, out) /\ \A r \in out : r.type # "AppendEntries"
    BY Zenon, <1>2, Answers
  <2>2. dups \in Nat
    BY DEF TypeInv, TypeOK
  <2>3. msgs' \subseteq msgs \cup out
    BY SMTT(30), <2>1, <2>2, DeliverAdds
  <2> QED
    BY Zenon, <2>1, <2>3
<1>3. ASSUME NEW i \in Server, HandleClientRequest(i)
      PROVE  \E l : log' = [log EXCEPT ![i] = l] /\ n \in Proposals(i, l)
  <2>1. PICK l : Send(Proposals(i, l)) /\ log' = [log EXCEPT ![i] = l]
    BY Zenon, <1>3 DEF HandleClientRequest
  <2> QED
    BY Zenon, <2>1, SendAdds
<1>4. ASSUME NEW i \in Server, NEW j \in Server, SendPetition(i, j)
      PROVE  FALSE
  <2>1. \E k, t, l : Send({[type |-> "Petition", from |-> i, to |-> k, term |-> t,
                           current_leader |-> l]})
    BY Zenon, <1>4 DEF SendPetition
  <2> QED
    BY <2>1, SendAdds
<1>5. CASE UNCHANGED vars
  BY Zenon, <1>5 DEF vars
<1> QED
  BY Zenon, <1>1, <1>2, <1>3, <1>4, <1>5 DEF Next

\* Only a leader sends AppendEntries, in its own term.
LEMMA NewAppendEntries ==
    ASSUME TypeInv, [Next]_vars, NEW n \in msgs', n.type = "AppendEntries", n \notin msgs
    PROVE  role[n.from] = "LEADER" /\ n.from \in Server /\ n.term = current_term[n.from]
<1>1. PICK i \in Server :
          \/ /\ Heartbeat(i)
             /\ n \in {AppendEntries(i, j, log[i], next_index[i][j], 0) :
                           j \in Followers(i)}
          \/ /\ HandleClientRequest(i)
             /\ \E l : log' = [log EXCEPT ![i] = l] /\ n \in Proposals(i, l)
  BY Zenon, AppendEntriesSent
<1>2. role[i] = "LEADER"
  BY Zenon, <1>1 DEF Heartbeat, HandleClientRequest
<1>3. n.from = i /\ n.term = current_term[i]
  <2>1. CASE n \in {AppendEntries(i, j, log[i], next_index[i][j], 0) : j \in Followers(i)}
    BY ZenonT(30), <2>1, HeartbeatKind
  <2>2. ASSUME NEW l, n \in Proposals(i, l)
        PROVE  n.from = i /\ n.term = current_term[i]
    BY ZenonT(30), <2>2, ProposalKind
  <2> QED
    BY ZenonT(30), <1>1, <2>1, <2>2
<1> QED
  BY Zenon, <1>2, <1>3

\* A node leads only in a term in which it became leader.
LEMMA LeadersGrow ==
    ASSUME TypeInv, [Next]_vars
    PROVE  /\ leaders \subseteq leaders'
           /\ \A k \in Server : role'[k] = "LEADER" =>
                  \/ role[k] = "LEADER" /\ current_term'[k] = current_term[k]
                  \/ <<k, current_term'[k]>> \in leaders'
<1> DEFINE Goal == /\ leaders \subseteq leaders'
                   /\ \A k \in Server : role'[k] = "LEADER" =>
                          \/ role[k] = "LEADER" /\ current_term'[k] = current_term[k]
                          \/ <<k, current_term'[k]>> \in leaders'
<1>1. ASSUME NEW i \in Server, Loop(i)
      PROVE  Goal
  <2>1. CASE ElectionTimeoutIgnored(i) \/ Heartbeat(i)
    BY ZenonT(30), <2>1 DEF ElectionTimeoutIgnored, Heartbeat
  <2>2. CASE ElectionTimeout(i)
    BY ZenonT(30), <2>2 DEF ElectionTimeout, TypeInv, TypeOK, StateTypeOK
  <2>3. CASE BecomeLeader(i)
    BY ZenonT(30), <2>3 DEF BecomeLeader, TypeInv, TypeOK, StateTypeOK
  <2>4. CASE Failure(i)
    BY ZenonT(30), <2>4 DEF Failure, TypeInv, TypeOK, StateTypeOK
  <2> QED
    BY ZenonT(30), <1>1, <2>1, <2>2, <2>3, <2>4 DEF Loop
<1>2. ASSUME NEW m \in msgs, Receive(m)
      PROVE  Goal
  <2>1. /\ m.to \in Server /\ m.term \in Nat
        /\ role \in [Server -> {"FOLLOWER", "CANDIDATE", "LEADER"}]
        /\ current_term \in [Server -> Nat]
    BY SMTT(30), MessageFields DEF TypeInv, TypeOK, StateTypeOK
  <2>2. CASE HandleRequestVote(m.to, m)
    <3>1. CASE RejectStaleRequestVote(m.to, m)
      BY ZenonT(30), <3>1 DEF RejectStaleRequestVote
    <3>2. CASE HandlePetitionRequestVote(m.to, m)
      BY <2>1, <3>2 DEF HandlePetitionRequestVote
    <3>3. CASE Vote(m.to, m)
      <4>1. /\ ~(m.term < current_term[m.to]) /\ leaders' = leaders
            /\ role' = [role EXCEPT ![m.to] =
                            IF m.term > current_term[m.to] THEN "FOLLOWER" ELSE @]
            /\ current_term' = [current_term EXCEPT ![m.to] = m.term]
        BY Zenon, <3>3 DEF Vote, Stale
      <4> QED
        BY <2>1, <4>1
    <3> QED
      BY SMTT(30), <2>2, <3>1, <3>2, <3>3 DEF HandleRequestVote
  <2>3. CASE HandleVoteResponse(m.to, m)
    BY ZenonT(30), <2>1, <2>3 DEF HandleVoteResponse, AdoptTerm, CountVote
  <2>4. CASE HandleAppendEntries(m.to, m)
    BY ZenonT(30), <2>1, <2>4 DEF HandleAppendEntries, RejectStaleAppendEntries,
                      RejectAppendEntries, AcceptAppendEntries, FollowLeader
  <2>5. CASE HandleAppendEntriesResponse(m.to, m)
    BY ZenonT(30), <2>1, <2>5
       DEF HandleAppendEntriesResponse, AdoptTerm, AdvanceFollower,
                      BackOffFollower
  <2>6. CASE HandlePetition(m.to, m) \/ DropResponse(m.to, m)
    BY ZenonT(30), <2>6 DEF HandlePetition, DropResponse
  <2> QED
    BY ZenonT(30), <1>2, <2>2, <2>3, <2>4, <2>5, <2>6 DEF Receive
<1>3. ASSUME NEW i \in Server, HandleClientRequest(i)
      PROVE  Goal
  BY ZenonT(30), <1>3 DEF HandleClientRequest
<1>4. ASSUME NEW i \in Server, NEW j \in Server, SendPetition(i, j)
      PROVE  Goal
  BY ZenonT(30), <1>4 DEF SendPetition
<1>5. CASE UNCHANGED vars
  BY ZenonT(30), <1>5 DEF vars
<1> QED
  BY <1>1, <1>2, <1>3, <1>4, <1>5 DEF Next

\* Every step keeps true that an AppendEntries is of a term its sender led.
LEMMA NextLedInv == TypeInv /\ LedInv /\ [Next]_vars => LedInv'
<1> SUFFICES ASSUME TypeInv, LedInv, [Next]_vars PROVE LedInv'
  OBVIOUS
<1>1. \A i \in Server : role'[i] = "LEADER" => <<i, current_term'[i]>> \in leaders'
  BY LeadersGrow DEF LedInv
<1>2. ASSUME NEW n \in msgs', n.type = "AppendEntries"
      PROVE  <<n.from, n.term>> \in leaders'
  BY SMTT(30), <1>2, LeadersGrow, NewAppendEntries DEF LedInv
<1>3. ASSUME NEW h \in heard'
      PROVE  \E l \in Server : <<l, h[2]>> \in leaders'
  <2>1. CASE h \in heard
    BY <2>1, LeadersGrow DEF LedInv
  <2>2. CASE h \notin heard
    <3>1. PICK m \in msgs : m.type = "AppendEntries" /\ FollowLeader(m.to, m)
      BY Zenon, <1>3, <2>2, TermSteps DEF TermStep, ElectionTimeout, Vote, AdoptTerm
    <3>2. h = <<m.to, m.term>> /\ m.from \in Server
      BY ZenonT(30), <1>3, <2>2, <3>1, MessageFields DEF FollowLeader, TypeInv, TypeOK
    <3>3. <<m.from, m.term>> \in leaders'
      BY SMTT(30), <3>1, LeadersGrow DEF LedInv
    <3> QED
      BY <3>2, <3>3
  <2> QED
    BY SMTT(30), <2>1, <2>2
<1> QED
  BY ZenonT(30), <1>1, <1>2, <1>3 DEF LedInv
-----------------------------------------------------------------------------
(* Candidates *)

\* A candidate has stood, so election_timeout_cb does not turn it away: its
\* timer is not spent by an early return.
CandidateInv ==
    /\ CandidateCanRetry
    /\ \A i \in Server : role[i] = "CANDIDATE" =>
           /\ current_term[i] > 0
           /\ EligibleLeaders # {} => i \in EligibleLeaders

\* What a step may do to the state of a candidate k
CandidateKept(k) ==
    /\ role[k] = "CANDIDATE"
    /\ current_term'[k] = current_term[k] /\ voted_for'[k] = voted_for[k]
    /\ current_leader'[k] = current_leader[k]
    /\ election_timer[k] => election_timer'[k]

\* The timers of a node keep its candidacy one that can be retried.
LEMMA CandidateLoop ==
    ASSUME TypeInv, CandidateInv, NEW i \in Server, Loop(i)
    PROVE  CandidateInv'
<1>1. /\ role \in [Server -> {"FOLLOWER", "CANDIDATE", "LEADER"}]
      /\ current_term \in [Server -> Nat]
      /\ voted_for \in [Server -> Server \cup {None}]
      /\ current_leader \in [Server -> Server \cup {None}]
      /\ election_timer \in [Server -> BOOLEAN]
  BY SMTT(30) DEF TypeInv, TypeOK, StateTypeOK, LoopTypeOK
<1>2. CASE ElectionTimeoutIgnored(i)
  <2>1. role[i] # "CANDIDATE"
    <3>1. ~MayStand(i)
      BY Zenon, <1>2 DEF ElectionTimeoutIgnored
    <3>2. role[i] = "CANDIDATE" => current_term[i] > 0
                                   /\ (EligibleLeaders # {} => i \in EligibleLeaders)
      BY Zenon DEF CandidateInv
    <3> QED
      BY <3>1, <3>2 DEF MayStand
  <2> QED
    BY <1>1, <1>2, <2>1 DEF ElectionTimeoutIgnored, CandidateInv, CandidateCanRetry
<1>3. CASE ElectionTimeout(i)
  <2>1. /\ election_timer[i]
        /\ EligibleLeaders # {} => i \in EligibleLeaders
        /\ current_term' = [current_term EXCEPT ![i] = @ + 1]
        /\ role' = [role EXCEPT ![i] = "CANDIDATE"]
        /\ current_leader' = [current_leader EXCEPT ![i] = None]
        /\ voted_for' = [voted_for EXCEPT ![i] = i]
        /\ election_timer' = election_timer
    BY Zenon, <1>3 DEF ElectionTimeout, MayStand
  <2>2. \A k \in Server : role'[k] = "CANDIDATE" /\ k # i => CandidateKept(k)
    BY ZenonT(30), <1>1, <2>1 DEF CandidateKept
  <2>3. /\ election_timer'[i] /\ voted_for'[i] = i /\ current_leader'[i] = None
        /\ current_term'[i] > 0
    BY <1>1, <2>1
  <2> QED
    BY ZenonT(30), <2>1, <2>2, <2>3 DEF CandidateKept, CandidateInv, CandidateCanRetry
<1>4. CASE BecomeLeader(i)
  <2>1. \A k \in Server : k # i => election_timer'[k] = election_timer[k]
    BY <1>1, <1>4, Zenon DEF BecomeLeader
  <2>2. \A k \in Server : role'[k] = "CANDIDATE" => k # i /\ CandidateKept(k)
    BY ZenonT(30), <1>1, <1>4, <2>1 DEF BecomeLeader, CandidateKept
  <2> QED
    BY <2>2 DEF CandidateKept, CandidateInv, CandidateCanRetry
<1>5. CASE Heartbeat(i)
  BY ZenonT(30), <1>5 DEF Heartbeat, CandidateInv, CandidateCanRetry
<1>6. CASE Failure(i)
  BY ZenonT(30), <1>1, <1>6 DEF Failure, CandidateInv, CandidateCanRetry
<1> QED
  BY SMTT(30), <1>2, <1>3, <1>4, <1>5, <1>6 DEF Loop

\* Asking for the timer to be reset stops no timer.
LEMMA QueueResetKeepsTimer ==
    ASSUME TypeInv, NEW i \in Server, QueueReset(i), NEW k \in Server, election_timer[k]
    PROVE  election_timer'[k]
BY Zenon DEF QueueReset, TypeInv, TypeOK, LoopTypeOK

\* Every handler of a message keeps a candidacy one that can be retried.
LEMMA CandidateReceive ==
    ASSUME TypeInv, CandidateInv, NEW m \in msgs, Receive(m)
    PROVE  CandidateInv'
<1> SUFFICES ASSUME NEW k \in Server, role'[k] = "CANDIDATE"
             PROVE  CandidateKept(k)
  BY ZenonT(30) DEF CandidateKept, CandidateInv, CandidateCanRetry
<1>1. /\ role \in [Server -> {"FOLLOWER", "CANDIDATE", "LEADER"}]
      /\ current_term \in [Server -> Nat]
      /\ voted_for \in [Server -> Server \cup {None}]
      /\ current_leader \in [Server -> Server \cup {None}]
      /\ m.to \in Server /\ m.from \in Server /\ m.term \in Nat
  BY MessageFields DEF TypeInv, TypeOK, StateTypeOK
<1>2. CASE HandleRequestVote(m.to, m)
  <2>1. CASE RejectStaleRequestVote(m.to, m)
    BY SMTT(30), <2>1 DEF RejectStaleRequestVote, CandidateKept
  <2>2. CASE HandlePetitionRequestVote(m.to, m)
    <3>1. /\ current_term' = current_term /\ voted_for' = voted_for
          /\ election_timer' = election_timer
          /\ \/ role' = role /\ current_leader' = current_leader
             \/ /\ role' = [role EXCEPT ![m.to] = "FOLLOWER"]
                /\ current_leader' = [current_leader EXCEPT ![m.to] = None]
      BY Zenon, <2>2 DEF HandlePetitionRequestVote
    <3> QED
      BY SMTT(30), <1>1, <3>1 DEF CandidateKept
  <2>3. CASE Vote(m.to, m)
    <3>1. /\ role[k] = "CANDIDATE"
          /\ k = m.to => ~(m.term > current_term[k])
          /\ current_leader'[k] = current_leader[k]
          /\ current_term'[k] = current_term[k]
      <4>1. /\ ~(m.term < current_term[m.to])
            /\ current_term' = [current_term EXCEPT ![m.to] = m.term]
            /\ role' = [role EXCEPT ![m.to] =
                            IF m.term > current_term[m.to] THEN "FOLLOWER" ELSE @]
            /\ current_leader' = [current_leader EXCEPT ![m.to] =
                            IF m.term > current_term[m.to] THEN None ELSE @]
        BY Zenon, <2>3 DEF Vote, Stale
      <4>2. /\ role[k] = "CANDIDATE"
            /\ k = m.to => ~(m.term > current_term[k])
        BY SMTT(30), <1>1, <4>1
      <4> QED
        BY SMTT(30), <1>1, <4>1, <4>2
    <3>2. k = m.to => Ballot(k, m) = voted_for[k]
      <4>1. voted_for[k] = k /\ k # None
        BY Zenon, <3>1, ConstantsAssumption DEF CandidateInv, CandidateCanRetry
      <4>2. k = m.to => VotedFor(k, m) = voted_for[k]
        BY Zenon, <3>1 DEF VotedFor
      <4> QED
        BY Zenon, <4>1, <4>2 DEF Ballot, Grants
    <3>3. voted_for'[k] = voted_for[k]
      <4>1. voted_for' = [voted_for EXCEPT ![m.to] = Ballot(m.to, m)]
        BY Zenon, <2>3 DEF Vote
      <4> QED
        BY Zenon, <1>1, <3>2, <4>1
    <3>4. election_timer[k] => election_timer'[k]
      BY ZenonT(30), <1>1, <2>3, QueueResetKeepsTimer DEF Vote
    <3> QED
      BY ZenonT(30), <1>1, <2>3, <3>1, <3>3, <3>4 DEF Vote, CandidateKept
  <2> QED
    BY SMTT(30), <1>2, <2>1, <2>2, <2>3 DEF HandleRequestVote
<1>3. CASE AdoptTerm(m.to, m)
  BY ZenonT(30), <1>1, <1>3 DEF AdoptTerm, CandidateKept
<1>4. CASE CountVote(m.to, m)
  BY ZenonT(30), <1>4 DEF CountVote, CandidateKept
<1>5. CASE RejectStaleAppendEntries(m.to, m) \/ AdvanceFollower(m.to, m)
           \/ BackOffFollower(m.to, m) \/ HandlePetition(m.to, m)
           \/ DropResponse(m.to, m)
  BY ZenonT(30), <1>5 DEF RejectStaleAppendEntries, AdvanceFollower, BackOffFollower,
              HandlePetition, DropResponse, CandidateKept
<1>6. CASE FollowLeader(m.to, m)
  <2>1. election_timer[k] => election_timer'[k]
    BY ZenonT(30), <1>1, <1>6, QueueResetKeepsTimer DEF FollowLeader
  <2> QED
    BY ZenonT(30), <1>1, <1>6, <2>1 DEF FollowLeader, CandidateKept
<1> QED
  BY ZenonT(30), <1>2, <1>3, <1>4, <1>5, <1>6
     DEF Receive, HandleVoteResponse, HandleAppendEntries, RejectAppendEntries,
         AcceptAppendEntries, HandleAppendEntriesResponse

\* Every step keeps every candidacy one that can be retried.
LEMMA NextCandidateInv == TypeInv /\ CandidateInv /\ [Next]_vars => CandidateInv'
<1> SUFFICES ASSUME TypeInv, CandidateInv, [Next]_vars PROVE CandidateInv'
  OBVIOUS
<1>1. ASSUME NEW i \in Server, HandleClientRequest(i)
      PROVE  CandidateInv'
  BY ZenonT(30), <1>1 DEF HandleClientRequest, CandidateInv, CandidateCanRetry
<1>2. ASSUME NEW i \in Server, NEW j \in Server, SendPetition(i, j)
      PROVE  CandidateInv'
  BY ZenonT(30), <1>2 DEF SendPetition, CandidateInv, CandidateCanRetry
<1>3. CASE UNCHANGED vars
  BY ZenonT(30), <1>3 DEF vars, CandidateInv, CandidateCanRetry
<1> QED
  BY SMTT(30), <1>1, <1>2, <1>3, CandidateLoop, CandidateReceive DEF Next

\* A candidate always has a running election timer and its own vote: no message,
\* timer or task can leave it waiting for votes that will never come.
THEOREM CandidatesCanRetry == Spec => []CandidateCanRetry
<1>1. Init => CandidateInv
  BY SMTT(30) DEF Init, CandidateInv, CandidateCanRetry
<1>2. Spec => [](TypeInv /\ CandidateInv)
  BY <1>1, InitTypeInv, NextTypeInv, NextCandidateInv, PTL DEF Spec
<1>3. CandidateInv => CandidateCanRetry
  BY ZenonT(30) DEF CandidateInv
<1> QED
  BY <1>2, <1>3, PTL
-----------------------------------------------------------------------------
(* Petitions *)

\* A petition in flight was sent in its term, and not to the leader it names.
PetitionInv ==
    /\ PetitionersAreCurrent
    /\ \A m \in msgs : m.type = "Petition" =>
           <<m.from, m.term>> \in petitioned /\ m.to # m.current_leader

\* A petition in flight is of a node that has petitioned in its term, and never
\* goes to the leader it wants replaced.
LEMMA NewPetitions ==
    ASSUME TypeInv, PetitionInv, [Next]_vars
    PROVE  /\ petitioned \subseteq petitioned'
           /\ \A m \in msgs' : m.type = "Petition" =>
                  <<m.from, m.term>> \in petitioned' /\ m.to # m.current_leader
<1> DEFINE Good(out) == \A m \in out : m.type = "Petition" =>
                           <<m.from, m.term>> \in petitioned' /\ m.to # m.current_leader
           Goal == petitioned \subseteq petitioned' /\ Good(msgs')
<1> SUFFICES Goal
  OBVIOUS
<1>1. dups \in Nat
  BY DEF TypeInv, TypeOK
<1>2. ASSUME NEW i \in Server, Loop(i)
      PROVE  Goal
  <2>1. petitioned' = petitioned
    BY ZenonT(30), <1>2 DEF Loop, ElectionTimeoutIgnored, ElectionTimeout, BecomeLeader,
                Heartbeat, Failure
  <2>2. CASE ElectionTimeout(i)
    <3> DEFINE out == {RequestVote(i, current_term[i] + 1, j, FALSE) : j \in Server}
    <3>1. msgs' \subseteq msgs \cup out
      BY Zenon, <2>2, SendAdds DEF ElectionTimeout
    <3>2. \A n \in out : n.type = "RequestVote"
      BY Zenon, RequestVoteKind
    <3> QED
      BY Zenon, <2>1, <3>1, <3>2 DEF PetitionInv
  <2>3. CASE Heartbeat(i)
    <3> DEFINE out == {AppendEntries(i, j, log[i], next_index[i][j], 0) : j \in Followers(i)}
    <3>1. msgs' \subseteq msgs \cup out
      BY ZenonT(30), <2>3, SendAdds DEF Heartbeat
    <3>2. ASSUME NEW n \in out PROVE n.type = "AppendEntries"
      <4>1. PICK j : n = AppendEntries(i, j, log[i], next_index[i][j], 0)
        BY Zenon
      <4> QED
        BY ZenonT(30), <4>1 DEF AppendEntries
    <3> QED
      BY ZenonT(30), <2>1, <3>1, <3>2 DEF PetitionInv
  <2>4. CASE ElectionTimeoutIgnored(i) \/ BecomeLeader(i) \/ Failure(i)
    BY Zenon, <2>1, <2>4 DEF ElectionTimeoutIgnored, BecomeLeader, Failure, PetitionInv
  <2> QED
    BY ZenonT(30), <1>2, <2>2, <2>3, <2>4 DEF Loop
<1>3. ASSUME NEW m \in msgs, Receive(m)
      PROVE  Goal
  <2>1. petitioned' = petitioned
    BY ZenonT(30), <1>3 DEF Receive, HandleRequestVote, RejectStaleRequestVote,
         HandlePetitionRequestVote, Vote, HandleVoteResponse, AdoptTerm, CountVote,
         HandleAppendEntries, RejectStaleAppendEntries, RejectAppendEntries,
         AcceptAppendEntries, FollowLeader, HandleAppendEntriesResponse,
         AdvanceFollower, BackOffFollower, HandlePetition, DropResponse
  <2>2. PICK out : Deliver(m, out) /\ \A n \in out : n.type # "Petition"
    BY Zenon, <1>3, Answers
  <2>3. msgs' \subseteq msgs \cup out
    BY SMTT(30), <1>1, <2>2, DeliverAdds
  <2> QED
    BY Zenon, <2>1, <2>2, <2>3 DEF PetitionInv
<1>4. ASSUME NEW i \in Server, HandleClientRequest(i)
      PROVE  Goal
  <2>1. petitioned' = petitioned
    BY Zenon, <1>4 DEF HandleClientRequest
  <2>2. \A l : \A n \in Proposals(i, l) : n.type = "AppendEntries"
    BY ZenonT(30), ProposalKind
  <2> QED
    BY Zenon, <1>4, <2>1, <2>2, SendAdds DEF HandleClientRequest, PetitionInv
<1>5. ASSUME NEW i \in Server, NEW j \in Server, SendPetition(i, j)
      PROVE  Goal
  <2> DEFINE petition == [type |-> "Petition", from |-> i, to |-> j,
                          term |-> current_term[i], current_leader |-> current_leader[i]]
  <2>1. /\ Send({petition}) /\ j # current_leader[i]
        /\ petitioned' = petitioned \cup {<<i, current_term[i]>>}
    BY Zenon, <1>5 DEF SendPetition
  <2>2. /\ petition.from = i /\ petition.term = current_term[i] /\ petition.to = j
        /\ petition.current_leader = current_leader[i]
    BY ZenonT(30)
  <2> HIDE DEF petition
  <2>3. msgs' \subseteq msgs \cup {petition}
    BY Zenon, <2>1, SendAdds
  <2> QED
    BY Zenon, <2>1, <2>2, <2>3 DEF PetitionInv
<1>6. CASE UNCHANGED vars
  BY ZenonT(30), <1>6 DEF vars, PetitionInv
<1> QED
  BY ZenonT(30), <1>2, <1>3, <1>4, <1>5, <1>6 DEF Next

\* Every step keeps the petitioners a node has counted together with its term,
\* or forgets them, or counts one more who petitioned in the node's term.
LEMMA PetitionersStep ==
    ASSUME TypeInv, CandidateInv, PetitionInv, [Next]_vars, NEW k \in Server
    PROVE  \/ latency_to_leader'[k] = {}
           \/ /\ current_term'[k] = current_term[k]
              /\ latency_to_leader'[k] = latency_to_leader[k]
              /\ role'[k] = role[k] \/ role'[k] = "FOLLOWER"
           \/ /\ current_term'[k] = current_term[k] /\ role'[k] = "FOLLOWER"
              /\ \E j \in Server : /\ <<j, current_term[k]>> \in petitioned
                                   /\ latency_to_leader'[k] = latency_to_leader[k] \cup {j}
<1> DEFINE Goal ==
           \/ latency_to_leader'[k] = {}
           \/ /\ current_term'[k] = current_term[k]
              /\ latency_to_leader'[k] = latency_to_leader[k]
              /\ role'[k] = role[k] \/ role'[k] = "FOLLOWER"
           \/ /\ current_term'[k] = current_term[k] /\ role'[k] = "FOLLOWER"
              /\ \E j \in Server : /\ <<j, current_term[k]>> \in petitioned
                                   /\ latency_to_leader'[k] = latency_to_leader[k] \cup {j}
<1> SUFFICES Goal
  BY ZenonT(30)
<1>1. /\ role \in [Server -> {"FOLLOWER", "CANDIDATE", "LEADER"}]
      /\ current_term \in [Server -> Nat]
      /\ current_leader \in [Server -> Server \cup {None}]
      /\ latency_to_leader \in [Server -> SUBSET Server]
  BY DEF TypeInv, TypeOK, StateTypeOK
<1>2. ASSUME NEW i \in Server, Loop(i)
      PROVE  Goal
  <2>1. CASE ElectionTimeoutIgnored(i) \/ Heartbeat(i)
    BY Zenon, <2>1 DEF ElectionTimeoutIgnored, Heartbeat
  <2>2. CASE ElectionTimeout(i)
    BY ZenonT(30), <1>1, <2>2 DEF ElectionTimeout
  <2>3. CASE BecomeLeader(i)
    BY ZenonT(30), <1>1, <2>3 DEF BecomeLeader
  <2>4. CASE Failure(i)
    BY ZenonT(30), <1>1, <2>4 DEF Failure
  <2> QED
    BY ZenonT(30), <1>2, <2>1, <2>2, <2>3, <2>4 DEF Loop
<1>3. ASSUME NEW m \in msgs, Receive(m)
      PROVE  Goal
  <2>1. m.to \in Server /\ m.from \in Server /\ m.term \in Nat
    BY ZenonT(30), MessageFields DEF TypeInv, TypeOK
  <2>2. CASE HandleRequestVote(m.to, m)
    <3>1. CASE RejectStaleRequestVote(m.to, m)
      BY Zenon, <3>1 DEF RejectStaleRequestVote
    <3>2. CASE HandlePetitionRequestVote(m.to, m)
      BY ZenonT(30), <1>1, <2>1, <3>2 DEF HandlePetitionRequestVote
    <3>3. CASE Vote(m.to, m)
      <4>1. /\ ~(m.term < current_term[m.to])
            /\ current_term' = [current_term EXCEPT ![m.to] = m.term]
            /\ latency_to_leader' = [latency_to_leader EXCEPT ![m.to] =
                            IF m.term > current_term[m.to] THEN {} ELSE @]
            /\ role' = [role EXCEPT ![m.to] =
                            IF m.term > current_term[m.to] THEN "FOLLOWER" ELSE @]
        BY Zenon, <3>3 DEF Vote, Stale
      <4>2. m.term > current_term[m.to] \/ m.term = current_term[m.to]
        BY Zenon, <1>1, <2>1, <4>1, NotLower
      <4> QED
        BY Zenon, <1>1, <2>1, <4>1, <4>2
    <3> QED
      BY ZenonT(30), <2>2, <3>1, <3>2, <3>3 DEF HandleRequestVote
  <2>3. CASE AdoptTerm(m.to, m)
    BY ZenonT(30), <1>1, <2>1, <2>3 DEF AdoptTerm
  <2>4. CASE FollowLeader(m.to, m) /\ ~Stale(m.to, m)
    <3>1. /\ ~(m.term < current_term[m.to])
          /\ current_term' = [current_term EXCEPT ![m.to] = m.term]
          /\ latency_to_leader' = [latency_to_leader EXCEPT ![m.to] =
                          IF m.term > current_term[m.to] THEN {} ELSE @]
          /\ role' = [role EXCEPT ![m.to] = "FOLLOWER"]
      BY Zenon, <2>4 DEF FollowLeader, Stale
    <3>2. m.term > current_term[m.to] \/ m.term = current_term[m.to]
      BY Zenon, <1>1, <2>1, <3>1, NotLower
    <3> QED
      BY Zenon, <1>1, <2>1, <3>1, <3>2
  <2>5. CASE RejectStaleAppendEntries(m.to, m) \/ AdvanceFollower(m.to, m)
             \/ BackOffFollower(m.to, m) \/ CountVote(m.to, m) \/ DropResponse(m.to, m)
    BY ZenonT(30), <2>5 DEF RejectStaleAppendEntries, AdvanceFollower, BackOffFollower,
                CountVote, DropResponse
  <2>6. CASE HandlePetition(m.to, m)
    <3>1. CASE latency_to_leader' = latency_to_leader
      BY ZenonT(30), <2>6, <3>1 DEF HandlePetition
    <3>2. CASE ~PetitionIgnored(m.to, m)
               /\ latency_to_leader' = [latency_to_leader EXCEPT ![m.to] = @ \cup {m.from}]
      <4>1. m.type = "Petition" /\ m.term = current_term[m.to]
            /\ m.current_leader = current_leader[m.to]
        BY ZenonT(30), <2>6, <3>2 DEF HandlePetition, PetitionIgnored
      <4>2. m.current_leader \in Server
        BY <4>1 DEF TypeInv, TypeOK, Message
      <4>3. m.to # m.current_leader /\ <<m.from, m.term>> \in petitioned
        BY ZenonT(30), <4>1 DEF PetitionInv
      <4>4. role[m.to] = "FOLLOWER"
        <5>1. role[m.to] # "LEADER"
          BY Zenon, <2>1, <4>1, <4>3 DEF TypeInv, LeaderIsReady
        <5>2. role[m.to] # "CANDIDATE"
          <6>1. role[m.to] = "CANDIDATE" => current_leader[m.to] = None
            BY Zenon, <2>1 DEF CandidateInv, CandidateCanRetry
          <6> QED
            BY SMTT(30), <4>1, <4>2, <6>1, ConstantsAssumption
        <5> QED
          BY SMTT(30), <1>1, <2>1, <5>1, <5>2
      <4> QED
        BY Zenon, <1>1, <2>1, <2>6, <3>2, <4>1, <4>3, <4>4 DEF HandlePetition
    <3> QED
      BY Zenon, <2>6, <3>1, <3>2 DEF HandlePetition
  <2> QED
    BY Zenon, <1>3, <2>2, <2>3, <2>4, <2>5, <2>6
       DEF Receive, HandleVoteResponse, HandleAppendEntries, RejectAppendEntries,
           AcceptAppendEntries, HandleAppendEntriesResponse
<1>4. ASSUME NEW i \in Server, HandleClientRequest(i)
      PROVE  Goal
  BY ZenonT(30), <1>4 DEF HandleClientRequest
<1>5. ASSUME NEW i \in Server, NEW j \in Server, SendPetition(i, j)
      PROVE  Goal
  BY ZenonT(30), <1>5 DEF SendPetition
<1>6. CASE UNCHANGED vars
  BY ZenonT(30), <1>6 DEF vars
<1> QED
  BY Zenon, <1>2, <1>3, <1>4, <1>5, <1>6 DEF Next

\* Every step keeps what is true of the petitions in flight and of their senders.
LEMMA NextPetitionInv ==
    TypeInv /\ CandidateInv /\ PetitionInv /\ [Next]_vars => PetitionInv'
<1> SUFFICES ASSUME TypeInv, CandidateInv, PetitionInv, [Next]_vars
             PROVE  PetitionInv'
  OBVIOUS
<1>1. ASSUME NEW k \in Server
      PROVE  /\ \A j \in latency_to_leader'[k] : <<j, current_term'[k]>> \in petitioned'
             /\ role'[k] # "FOLLOWER" => latency_to_leader'[k] = {}
  <2>1. /\ \A j \in latency_to_leader[k] : <<j, current_term[k]>> \in petitioned
        /\ role[k] # "FOLLOWER" => latency_to_leader[k] = {}
    BY DEF PetitionInv, PetitionersAreCurrent
  <2> QED
    BY Zenon, <2>1, NewPetitions, PetitionersStep
<1> QED
  BY ZenonT(30), <1>1, NewPetitions DEF PetitionInv, PetitionersAreCurrent

\* Every sender that handle_petition has counted petitioned in the node's
\* present term, and a candidate or a leader has counted none: a late petition
\* of an earlier term never helps to depose the leader of a later one.
THEOREM PetitionersCurrent == Spec => []PetitionersAreCurrent
<1>1. Init => CandidateInv /\ PetitionInv
  BY ZenonT(30)
     DEF Init, CandidateInv, CandidateCanRetry, PetitionInv, PetitionersAreCurrent
<1>2. Spec => [](TypeInv /\ CandidateInv /\ PetitionInv)
  BY <1>1, InitTypeInv, NextTypeInv, NextCandidateInv, NextPetitionInv, PTL DEF Spec
<1>3. PetitionInv => PetitionersAreCurrent
  BY DEF PetitionInv
<1> QED
  BY <1>2, <1>3, PTL
=============================================================================
