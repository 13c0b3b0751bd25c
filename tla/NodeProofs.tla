----------------------------- MODULE NodeProofs -----------------------------
(***************************************************************************)
(* The types of Node hold for any number of nodes, any configuration and   *)
(* any value of the bounds, and every leader is ready to lead: one lemma   *)
(* for each timer, task and handler.                                       *)
(***************************************************************************)
EXTENDS Node, RaftLogProofs

USE DEF stateVars, loopVars, logVars, indexVars, historyVars
-----------------------------------------------------------------------------
(* The network *)

\* A step that handles a message adds to the network only what it sends.
LEMMA DeliverAdds ==
    ASSUME NEW m, NEW out, Deliver(m, out), dups \in Nat
    PROVE  msgs' \subseteq msgs \cup out /\ dups' \in Nat
BY DEF Deliver, Transmit

\* The same for a step that only sends
LEMMA SendAdds ==
    ASSUME NEW out, Send(out)
    PROVE  msgs' \subseteq msgs \cup out /\ dups' = dups
BY DEF Send, Transmit

\* What handleReceived knows of a message from the type of the message
LEMMA MessageFields ==
    ASSUME NEW m \in Message
    PROVE  /\ m.from \in Server /\ m.to \in Server /\ m.term \in Nat
           /\ m.type \in {"RequestVote", "VoteResponse", "AppendEntries",
                          "AppendEntriesResponse", "Petition"}
           /\ m.type = "RequestVote" => m.is_petition \in BOOLEAN
           /\ m.type = "VoteResponse" => m.vote_granted \in BOOLEAN
           /\ m.type = "AppendEntries" =>
                  /\ m.prev_log_index \in Nat /\ m.prev_log_term \in Nat
                  /\ m.entries \in Seq(Entry) /\ m.leader_commit \in Nat
           /\ m.type = "AppendEntriesResponse" =>
                  m.success \in BOOLEAN /\ m.match_index \in Nat
           /\ m.type = "Petition" => m.current_leader \in Server
BY DEF Message

\* getLastLogTerm and getLastLogIndex give natural numbers.
LEMMA LogTermType ==
    ASSUME NEW l \in Seq(Entry), NEW k \in Int
    PROVE  EntryTerm(l, k) \in Nat /\ LastLogTerm(l) \in Nat /\ LastLogIndex(l) \in Nat
<1>1. Len(l) \in Nat /\ DOMAIN l = 1 .. Len(l)
  BY LenProperties
<1>2. \A n \in DOMAIN l : l[n].term \in Nat
  <2>1. \A n \in 1 .. Len(l) : l[n] \in Entry
    BY ElementOfSeq
  <2> QED
    BY <1>1, <2>1 DEF Entry
<1>3. l # <<>> => Len(l) \in DOMAIN l
  BY <1>1, EmptySeq
<1> QED
  BY <1>1, <1>2, <1>3 DEF EntryTerm, LastLogTerm, LastLogIndex

\* What start_election sends has the type of a message.
LEMMA RequestVoteType ==
    ASSUME TypeOK, NEW i \in Server, NEW j \in Server, NEW t \in Nat,
           NEW p \in BOOLEAN
    PROVE  RequestVote(i, t, j, p) \in Message
<1>1. LastLogIndex(log[i]) \in Nat /\ LastLogTerm(log[i]) \in Nat
  BY LogTermType DEF TypeOK, LogTypeOK
<1> QED
  BY <1>1 DEF RequestVote, Message

\* So has what handle_request_vote answers,
LEMMA VoteResponseType ==
    ASSUME NEW i \in Server, NEW j \in Server, NEW t \in Nat, NEW g \in BOOLEAN
    PROVE  VoteResponse(i, j, t, g) \in Message
BY DEF VoteResponse, Message

\* and what handle_append_entries answers.
LEMMA AppendEntriesResponseType ==
    ASSUME NEW i \in Server, NEW j \in Server, NEW t \in Nat, NEW g \in BOOLEAN,
           NEW k \in Nat
    PROVE  AppendEntriesResponse(i, j, t, g, k) \in Message
BY DEF AppendEntriesResponse, Message

\* A handler that answers with one message
LEMMA ReplyType ==
    ASSUME TypeOK, NEW m, NEW r \in Message, Deliver(m, {r})
    PROVE  msgs' \subseteq Message /\ dups' \in Nat
BY DeliverAdds DEF TypeOK

\* A handler that answers nothing
LEMMA NoReplyType ==
    ASSUME TypeOK, NEW m, Deliver(m, {})
    PROVE  msgs' \subseteq Message /\ dups' \in Nat
BY DeliverAdds DEF TypeOK

\* An assignment to next_index[i][j], match_index[i][j] or inflight_[j]
LEMMA NestedExcept ==
    ASSUME NEW S, NEW f \in [Server -> [Server -> S]], NEW i \in Server,
           NEW j \in Server, NEW v \in S, NEW g, g = [f EXCEPT ![i][j] = v]
    PROVE  /\ g \in [Server -> [Server -> S]]
           /\ \A k, n \in Server : g[k][n] = f[k][n] \/ g[k][n] = v
OBVIOUS

\* send_heartbeat and send_proposals_to_followers make well-formed messages
\* when next_index is positive.
LEMMA AppendEntriesType ==
    ASSUME TypeOK, NEW i \in Server, NEW j \in Server, NEW l \in Seq(Entry),
           NEW start \in Nat, start > 0, NEW count \in Nat
    PROVE  AppendEntries(i, j, l, start, count) \in Message
<1> DEFINE last == Lesser(start + count - 1, Len(l))
<1>1. start - 1 \in Nat /\ start - 1 \in Int
  OBVIOUS
<1>2. last \in Int /\ last <= Len(l)
  BY LenProperties DEF Lesser
<1> HIDE DEF last
<1>3. SubSeq(l, start, last) \in Seq(Entry)
  BY <1>2, SubSeqIsLog
<1>4. EntryTerm(l, start - 1) \in Nat
  BY Zenon, <1>1, LogTermType
<1>5. current_term[i] \in Nat /\ commitIndex[i] \in Nat
  BY DEF TypeOK, StateTypeOK, LogTypeOK
<1> QED
  BY SMTT(30), <1>1, <1>3, <1>4, <1>5 DEF AppendEntries, Message, last
-----------------------------------------------------------------------------
(* Types.  A heartbeat's prev_log_index is next_index - 1, so that the type  *)
(* invariant is inductive only together with LeaderIsReady.                  *)

TypeInv == TypeOK /\ LeaderIsReady

\* The state of a node after its constructor has its type.
LEMMA InitTypeInv == Init => TypeInv
<1> SUFFICES ASSUME Init PROVE TypeInv
  OBVIOUS
<1>1. <<>> \in Seq({"reset", "lead"}) /\ <<>> \in Seq(Entry)
  BY EmptySeq
<1> QED
  BY <1>1 DEF Init, TypeInv, TypeOK, StateTypeOK, LoopTypeOK, LogTypeOK,
              IndexTypeOK, HistoryTypeOK, LeaderIsReady

\* reset_election_timeout keeps the types of the event loop.
LEMMA QueueResetType ==
    ASSUME LoopTypeOK, NEW i \in Server, QueueReset(i)
    PROVE  /\ election_timer' \in [Server -> BOOLEAN]
           /\ election_async_tasks' \in [Server -> Seq({"reset", "lead"})]
<1>1. election_timer' \in [Server -> BOOLEAN]
  BY Zenon DEF QueueReset, LoopTypeOK
<1>2. Append(election_async_tasks[i], "reset") \in Seq({"reset", "lead"})
  BY AppendProperties DEF LoopTypeOK
<1>3. election_async_tasks' \in [Server -> Seq({"reset", "lead"})]
  BY <1>2 DEF QueueReset, LoopTypeOK
<1> QED
  BY <1>1, <1>3

\* An election_timeout_cb that returns early keeps the types.
LEMMA ElectionTimeoutIgnoredType ==
    ASSUME TypeInv, NEW i \in Server, ElectionTimeoutIgnored(i)
    PROVE  TypeInv'
<1>1. LoopTypeOK'
  BY DEF TypeInv, TypeOK, LoopTypeOK, ElectionTimeoutIgnored
<1>2. TypeOK'
  BY Zenon, <1>1 DEF TypeInv, TypeOK, StateTypeOK, LogTypeOK, IndexTypeOK,
              HistoryTypeOK, ElectionTimeoutIgnored
<1>3. LeaderIsReady'
  BY SMTT(30) DEF TypeInv, LeaderIsReady, ElectionTimeoutIgnored
<1> QED
  BY <1>2, <1>3 DEF TypeInv

\* start_election keeps the types.
LEMMA ElectionTimeoutType ==
    ASSUME TypeInv, NEW i \in Server, ElectionTimeout(i)
    PROVE  TypeInv'
<1> DEFINE out == {RequestVote(i, current_term[i] + 1, j, FALSE) : j \in Server}
<1>1. out \subseteq Message
  <2>1. current_term[i] + 1 \in Nat
    BY DEF TypeInv, TypeOK, StateTypeOK
  <2> QED
    BY ZenonT(60), <2>1, RequestVoteType DEF TypeInv
<1>2. msgs' \subseteq Message /\ dups' \in Nat
  <2>1. Send(out)
    BY SMTT(30) DEF ElectionTimeout
  <2> HIDE DEF out
  <2> QED
    BY SMTT(30), <1>1, <2>1, SendAdds DEF TypeInv, TypeOK
<1>3. StateTypeOK'
  BY DEF TypeInv, TypeOK, StateTypeOK, ElectionTimeout
<1>4. TypeOK'
  BY Zenon, <1>2, <1>3 DEF TypeInv, TypeOK, LoopTypeOK, LogTypeOK, IndexTypeOK,
                    HistoryTypeOK, ElectionTimeout
<1>5. LeaderIsReady'
  BY SMTT(30) DEF TypeInv, TypeOK, StateTypeOK, LeaderIsReady, ElectionTimeout
<1> QED
  BY <1>4, <1>5 DEF TypeInv

\* become_leader keeps the types.
LEMMA BecomeLeaderType ==
    ASSUME TypeInv, NEW i \in Server, BecomeLeader(i)
    PROVE  TypeInv'
<1> DEFINE rest  == Tail(election_async_tasks[i])
           reset == rest # <<>> /\ Head(rest) = "reset"
           left  == IF reset THEN Tail(rest) ELSE rest
<1>1. rest \in Seq({"reset", "lead"})
  BY HeadTailProperties DEF BecomeLeader, TypeInv, TypeOK, LoopTypeOK
<1>2. left \in Seq({"reset", "lead"})
  <2> HIDE DEF rest
  <2> QED
    BY SMTT(30), <1>1, HeadTailProperties
<1>3. election_async_tasks' = [election_async_tasks EXCEPT ![i] = left]
  BY DEF BecomeLeader
<1>4. LoopTypeOK'
  <2> HIDE DEF left
  <2>1. election_async_tasks' \in [Server -> Seq({"reset", "lead"})]
    BY <1>2, <1>3 DEF TypeInv, TypeOK, LoopTypeOK
  <2>2. draining' \in [Server -> BOOLEAN] /\ election_timer' \in [Server -> BOOLEAN]
    BY Zenon DEF BecomeLeader, TypeInv, TypeOK, LoopTypeOK
  <2> QED
    BY ZenonT(30), <2>1, <2>2 DEF BecomeLeader, TypeInv, TypeOK, LoopTypeOK
<1>5. StateTypeOK'
  BY Zenon DEF BecomeLeader, TypeInv, TypeOK, StateTypeOK
<1>6. InitialNextIndex(i) \in Nat /\ InitialNextIndex(i) > 0
  <2>1. log[i] \in Seq(Entry)
    BY DEF TypeInv, TypeOK, LogTypeOK
  <2> QED
    BY <2>1, LenProperties DEF InitialNextIndex, LastLogIndex
<1>7. IndexTypeOK'
  <2>1. [j \in Server |-> IF j = i THEN next_index[i][j] ELSE InitialNextIndex(i)]
            \in [Server -> Nat]
    BY <1>6 DEF TypeInv, TypeOK, IndexTypeOK
  <2>2. next_index' \in [Server -> [Server -> Nat]]
    BY Zenon, <2>1 DEF BecomeLeader, TypeInv, TypeOK, IndexTypeOK
  <2>3. match_index' \in [Server -> [Server -> Nat]]
    <3>1. [j \in Server |-> IF j = i THEN match_index[i][j] ELSE 0] \in [Server -> Nat]
      BY DEF TypeInv, TypeOK, IndexTypeOK
    <3> QED
      BY Zenon, <3>1 DEF BecomeLeader, TypeInv, TypeOK, IndexTypeOK
  <2> QED
    BY Zenon, <2>2, <2>3 DEF BecomeLeader, TypeInv, TypeOK, IndexTypeOK
<1>8. leaders' \subseteq Server \X Nat
  <2>1. <<i, current_term[i]>> \in Server \X Nat
    BY SMTT(30) DEF TypeInv, TypeOK, StateTypeOK
  <2>2. leaders' = leaders \cup {<<i, current_term[i]>>}
    BY DEF BecomeLeader
  <2> QED
    BY SMTT(30), <2>1, <2>2 DEF TypeInv, TypeOK, HistoryTypeOK
<1>9. TypeOK'
  BY Zenon, <1>4, <1>5, <1>7, <1>8
     DEF BecomeLeader, TypeInv, TypeOK, LogTypeOK, HistoryTypeOK
<1>10. LeaderIsReady'
  <2> SUFFICES ASSUME NEW k \in Server, role'[k] = "LEADER"
               PROVE  /\ heartbeat_timer'[k] /\ current_leader'[k] = k
                      /\ \A j \in Followers(k) : next_index'[k][j] > 0
    BY DEF LeaderIsReady
  <2>1. CASE k = i
    <3>1. heartbeat_timer'[k] /\ current_leader'[k] = k
      BY Zenon, <2>1 DEF BecomeLeader, TypeInv, TypeOK, StateTypeOK, LoopTypeOK
    <3>2. next_index'[k] =
              [j \in Server |-> IF j = i THEN next_index[i][j] ELSE InitialNextIndex(i)]
      BY Zenon, <2>1 DEF BecomeLeader, TypeInv, TypeOK, IndexTypeOK
    <3> QED
      BY SMTT(30), <1>6, <2>1, <3>1, <3>2 DEF Followers
  <2>2. CASE k # i
    <3>1. /\ role[k] = "LEADER" /\ heartbeat_timer'[k] = heartbeat_timer[k]
          /\ current_leader'[k] = current_leader[k] /\ next_index'[k] = next_index[k]
      BY Zenon, <2>2
         DEF BecomeLeader, TypeInv, TypeOK, StateTypeOK, LoopTypeOK, IndexTypeOK
    <3> QED
      BY <3>1 DEF TypeInv, LeaderIsReady
  <2> QED
    BY SMTT(30), <2>1, <2>2
<1> QED
  BY <1>9, <1>10 DEF TypeInv

\* send_heartbeat keeps the types.
LEMMA HeartbeatType ==
    ASSUME TypeInv, NEW i \in Server, Heartbeat(i)
    PROVE  TypeInv'
<1> DEFINE out == {AppendEntries(i, j, log[i], next_index[i][j], 0) : j \in Followers(i)}
<1>1. out \subseteq Message
  <2> SUFFICES ASSUME NEW j \in Followers(i)
               PROVE  AppendEntries(i, j, log[i], next_index[i][j], 0) \in Message
    BY SMTT(30)
  <2>1. j \in Server /\ next_index[i][j] > 0 /\ next_index[i][j] \in Nat
    <3>1. role[i] = "LEADER" /\ j \in Server
      BY ZenonT(30) DEF Heartbeat, Followers
    <3> QED
      BY SMTT(30), <3>1 DEF TypeInv, TypeOK, LeaderIsReady, IndexTypeOK
  <2>2. log[i] \in Seq(Entry)
    BY DEF TypeInv, TypeOK, LogTypeOK
  <2> QED
    BY SMTT(30), <2>1, <2>2, AppendEntriesType DEF TypeInv
<1>2. msgs' \subseteq Message /\ dups' \in Nat
  <2>1. Send(out)
    BY ZenonT(30) DEF Heartbeat
  <2> HIDE DEF out
  <2> QED
    BY <1>1, <2>1, SendAdds DEF TypeInv, TypeOK
<1>3. LoopTypeOK'
  <2>1. failure_timer' \in [Server -> BOOLEAN]
    BY Zenon DEF Heartbeat, TypeInv, TypeOK, LoopTypeOK
  <2>2. /\ heartbeat_count \in [Server -> Nat]
        /\ heartbeat_count' = [heartbeat_count EXCEPT ![i] =
               IF @ < MaxHeartbeats THEN @ + 1 ELSE @]
    BY ZenonT(30) DEF Heartbeat, TypeInv, TypeOK, LoopTypeOK
  <2>3. heartbeat_count' \in [Server -> Nat]
    BY SMTT(30), <2>2
  <2> QED
    BY ZenonT(30), <2>1, <2>3 DEF Heartbeat, TypeInv, TypeOK, LoopTypeOK
<1>4. TypeOK'
  BY Zenon, <1>2, <1>3 DEF Heartbeat, TypeInv, TypeOK, StateTypeOK, LogTypeOK,
                    IndexTypeOK, HistoryTypeOK
<1>5. LeaderIsReady'
  BY ZenonT(30) DEF Heartbeat, TypeInv, LeaderIsReady
<1> QED
  BY <1>4, <1>5 DEF TypeInv

\* failure_cb keeps the types.
LEMMA FailureType ==
    ASSUME TypeInv, NEW i \in Server, Failure(i)
    PROVE  TypeInv'
<1>1. StateTypeOK' /\ LoopTypeOK'
  BY DEF Failure, TypeInv, TypeOK, StateTypeOK, LoopTypeOK
<1>2. TypeOK'
  BY Zenon, <1>1 DEF Failure, TypeInv, TypeOK, LogTypeOK, IndexTypeOK, HistoryTypeOK
<1>3. LeaderIsReady'
  BY DEF Failure, TypeInv, TypeOK, StateTypeOK, LoopTypeOK, LeaderIsReady
<1> QED
  BY <1>2, <1>3 DEF TypeInv

\* handle_request_vote keeps the types.
LEMMA RequestVoteHandlerType ==
    ASSUME TypeInv, NEW m \in msgs, NEW i \in Server, i = m.to,
           HandleRequestVote(i, m)
    PROVE  TypeInv'
<1>1. /\ m \in Message /\ m.type = "RequestVote" /\ m.from \in Server
      /\ m.term \in Nat /\ current_term[i] \in Nat
  BY MessageFields DEF TypeInv, TypeOK, StateTypeOK, HandleRequestVote
<1>2. CASE RejectStaleRequestVote(i, m)
  <2>1. msgs' \subseteq Message /\ dups' \in Nat
    <3>1. VoteResponse(i, m.from, current_term[i], FALSE) \in Message
      BY Zenon, <1>1, VoteResponseType
    <3> QED
      BY Zenon, <1>2, <3>1, ReplyType DEF RejectStaleRequestVote, TypeInv
  <2>2. TypeOK'
    BY ZenonT(30), <1>2, <2>1 DEF RejectStaleRequestVote, TypeInv, TypeOK, StateTypeOK,
                      LoopTypeOK, LogTypeOK, IndexTypeOK, HistoryTypeOK
  <2>3. LeaderIsReady'
    BY ZenonT(30), <1>2 DEF RejectStaleRequestVote, TypeInv, LeaderIsReady
  <2> QED
    BY <2>2, <2>3 DEF TypeInv
<1>3. CASE HandlePetitionRequestVote(i, m)
  <2>1. msgs' \subseteq Message /\ dups' \in Nat
    BY Zenon, <1>3, NoReplyType DEF HandlePetitionRequestVote, TypeInv
  <2>2. StateTypeOK' /\ LoopTypeOK'
    BY ZenonT(30), <1>3
       DEF HandlePetitionRequestVote, TypeInv, TypeOK, StateTypeOK, LoopTypeOK
  <2>3. TypeOK'
    BY Zenon, <1>3, <2>1, <2>2 DEF HandlePetitionRequestVote, TypeInv, TypeOK,
                            LogTypeOK, IndexTypeOK, HistoryTypeOK
  <2>4. LeaderIsReady'
    <3>1. CASE role[i] = "LEADER"
      <4>1. /\ heartbeat_timer' = [heartbeat_timer EXCEPT ![i] = FALSE]
            /\ role' = [role EXCEPT ![i] = "FOLLOWER"]
            /\ current_leader' = [current_leader EXCEPT ![i] = None]
            /\ next_index' = next_index
        BY SMTT(30), <1>3, <3>1 DEF HandlePetitionRequestVote
      <4> QED
        BY SMTT(30), <4>1 DEF TypeInv, TypeOK, StateTypeOK, LoopTypeOK, LeaderIsReady
    <3>2. CASE role[i] # "LEADER"
      BY ZenonT(30), <1>3, <3>2 DEF HandlePetitionRequestVote, TypeInv, LeaderIsReady
    <3> QED
      BY SMTT(30), <3>1, <3>2
  <2> QED
    BY <2>3, <2>4 DEF TypeInv
<1>4. CASE Vote(i, m)
  <2>1. msgs' \subseteq Message /\ dups' \in Nat
    <3>1. Grants(i, m) \in BOOLEAN
      BY SMTT(30) DEF Grants
    <3>2. Deliver(m, {VoteResponse(i, m.from, m.term, Grants(i, m))})
      BY <1>4 DEF Vote
    <3>3. VoteResponse(i, m.from, m.term, Grants(i, m)) \in Message
      BY SMTT(30), <1>1, <3>1, VoteResponseType
    <3> QED
      BY SMTT(30), <3>2, <3>3, ReplyType DEF TypeInv
  <2>2. StateTypeOK'
    <3>1. Ballot(i, m) \in Server \cup {None}
      BY SMTT(30), <1>1 DEF Ballot, VotedFor, TypeInv, TypeOK, StateTypeOK
    <3> QED
      BY ZenonT(30), <1>1, <1>4, <3>1 DEF Vote, TypeInv, TypeOK, StateTypeOK
  <2>3. LoopTypeOK'
    <3>1. election_timer' \in [Server -> BOOLEAN]
          /\ election_async_tasks' \in [Server -> Seq({"reset", "lead"})]
      BY ZenonT(30), <1>4, QueueResetType DEF Vote, TypeInv, TypeOK, LoopTypeOK
    <3>2. heartbeat_timer' \in [Server -> BOOLEAN]
      BY <1>4, Zenon DEF Vote, TypeInv, TypeOK, LoopTypeOK
    <3> QED
      BY ZenonT(30), <1>4, <3>1, <3>2 DEF Vote, TypeInv, TypeOK, LoopTypeOK
  <2>4. HistoryTypeOK'
    <3>1. [voter |-> i, term |-> m.term, candidate |-> m.from]
              \in [voter : Server, term : Nat, candidate : Server]
      BY ZenonT(30), <1>1
    <3>2. votes' = votes \/ votes' = votes \cup {[voter |-> i, term |-> m.term,
                                                 candidate |-> m.from]}
      BY Zenon, <1>4 DEF Vote
    <3>3. votes' \subseteq [voter : Server, term : Nat, candidate : Server]
      BY ZenonT(30), <3>1, <3>2 DEF TypeInv, TypeOK, HistoryTypeOK
    <3> QED
      BY ZenonT(30), <1>4, <3>3 DEF Vote, TypeInv, TypeOK, HistoryTypeOK
  <2>5. TypeOK'
    BY ZenonT(30), <1>4, <2>1, <2>2, <2>3, <2>4
       DEF Vote, TypeInv, TypeOK, LogTypeOK, IndexTypeOK
  <2>6. LeaderIsReady'
    <3> SUFFICES ASSUME NEW k \in Server, role'[k] = "LEADER"
                 PROVE  /\ heartbeat_timer'[k] /\ current_leader'[k] = k
                        /\ \A j \in Followers(k) : next_index'[k][j] > 0
      BY SMTT(30) DEF LeaderIsReady
    <3>1. role[k] = "LEADER" /\ (k = i => ~(m.term > current_term[i]))
      BY ZenonT(30), <1>4 DEF Vote, TypeInv, TypeOK, StateTypeOK
    <3>2. current_leader'[k] = current_leader[k] /\ next_index' = next_index
      BY ZenonT(30), <1>4, <3>1 DEF Vote, TypeInv, TypeOK, StateTypeOK
    <3>3. heartbeat_timer[k] => heartbeat_timer'[k]
      BY <1>4, <3>1, Zenon DEF Vote, TypeInv, TypeOK, LoopTypeOK
    <3> QED
      BY ZenonT(30), <3>1, <3>2, <3>3 DEF TypeInv, LeaderIsReady
  <2> QED
    BY <2>5, <2>6 DEF TypeInv
<1> QED
  BY SMTT(30), <1>2, <1>3, <1>4 DEF HandleRequestVote

\* Stepping down to a higher term keeps the types.
LEMMA AdoptTermType ==
    ASSUME TypeInv, NEW m \in msgs, NEW i \in Server, AdoptTerm(i, m)
    PROVE  TypeInv'
<1>1. m.term \in Nat
  BY MessageFields DEF TypeInv, TypeOK
<1>2. msgs' \subseteq Message /\ dups' \in Nat
  BY Zenon, NoReplyType DEF AdoptTerm, TypeInv
<1>3. StateTypeOK'
  BY <1>1 DEF AdoptTerm, TypeInv, TypeOK, StateTypeOK
<1>4. TypeOK'
  BY ZenonT(30), <1>2, <1>3 DEF AdoptTerm, TypeInv, TypeOK, LoopTypeOK, LogTypeOK,
                    IndexTypeOK, HistoryTypeOK
<1>5. LeaderIsReady'
  BY ZenonT(30) DEF AdoptTerm, TypeInv, TypeOK, StateTypeOK, LeaderIsReady
<1> QED
  BY SMTT(30), <1>4, <1>5 DEF TypeInv

\* handle_vote_response keeps the types.
LEMMA VoteResponseHandlerType ==
    ASSUME TypeInv, NEW m \in msgs, NEW i \in Server, HandleVoteResponse(i, m)
    PROVE  TypeInv'
<1>1. CASE AdoptTerm(i, m)
  BY SMTT(30), <1>1, AdoptTermType
<1>2. CASE CountVote(i, m)
  <2>1. msgs' \subseteq Message /\ dups' \in Nat
    BY Zenon, <1>2, NoReplyType DEF CountVote, TypeInv
  <2>2. StateTypeOK'
    <3>1. votes_received[i] \in Nat /\ votes_received[i] + 1 \in Nat
      BY SMTT(30) DEF TypeInv, TypeOK, StateTypeOK
    <3> QED
      BY Zenon, <1>2, <3>1 DEF CountVote, TypeInv, TypeOK, StateTypeOK
  <2>3. LoopTypeOK'
    <3>1. Append(election_async_tasks[i], "lead") \in Seq({"reset", "lead"})
      BY ZenonT(30), AppendProperties DEF TypeInv, TypeOK, LoopTypeOK
    <3>2. election_async_tasks' \in [Server -> Seq({"reset", "lead"})]
      BY <1>2, <3>1 DEF CountVote, TypeInv, TypeOK, LoopTypeOK
    <3> QED
      BY <1>2, <3>2 DEF CountVote, TypeInv, TypeOK, LoopTypeOK
  <2>4. TypeOK'
    BY Zenon, <1>2, <2>1, <2>2, <2>3
       DEF CountVote, TypeInv, TypeOK, LogTypeOK, IndexTypeOK, HistoryTypeOK
  <2>5. LeaderIsReady'
    BY ZenonT(30), <1>2 DEF CountVote, TypeInv, LeaderIsReady
  <2> QED
    BY <2>4, <2>5 DEF TypeInv
<1> QED
  BY <1>1, <1>2 DEF HandleVoteResponse
-----------------------------------------------------------------------------
\* What an accepted AppendEntries does whether or not its entries fit
LEMMA FollowLeaderType ==
    ASSUME TypeInv, NEW m \in msgs, NEW i \in Server, FollowLeader(i, m)
    PROVE  StateTypeOK' /\ LoopTypeOK' /\ IndexTypeOK' /\ HistoryTypeOK'
           /\ requests' \in Nat /\ LeaderIsReady'
<1>1. m.from \in Server /\ m.term \in Nat
  BY SMTT(30), MessageFields DEF TypeInv, TypeOK
<1>2. StateTypeOK'
  BY SMTT(30), <1>1 DEF FollowLeader, TypeInv, TypeOK, StateTypeOK
<1>3. LoopTypeOK'
  <2>1. election_timer' \in [Server -> BOOLEAN]
        /\ election_async_tasks' \in [Server -> Seq({"reset", "lead"})]
    BY QueueResetType DEF FollowLeader, TypeInv, TypeOK
  <2>2. heartbeat_timer' \in [Server -> BOOLEAN]
    BY Zenon DEF FollowLeader, TypeInv, TypeOK, LoopTypeOK
  <2> QED
    BY SMTT(30), <2>1, <2>2 DEF FollowLeader, TypeInv, TypeOK, LoopTypeOK
<1>4. HistoryTypeOK'
  <2>1. <<i, m.term>> \in Server \X Nat
    BY <1>1
  <2>2. heard' = heard \cup {<<i, m.term>>}
    BY SMTT(30) DEF FollowLeader
  <2> QED
    BY <2>1, <2>2 DEF FollowLeader, TypeInv, TypeOK, HistoryTypeOK
<1>5. IndexTypeOK' /\ requests' \in Nat
  BY DEF FollowLeader, TypeInv, TypeOK, IndexTypeOK
<1>6. LeaderIsReady'
  <2> SUFFICES ASSUME NEW k \in Server, role'[k] = "LEADER"
               PROVE  /\ heartbeat_timer'[k] /\ current_leader'[k] = k
                      /\ \A j \in Followers(k) : next_index'[k][j] > 0
    BY DEF LeaderIsReady
  <2>1. k # i /\ role[k] = "LEADER"
    BY ZenonT(30) DEF FollowLeader, TypeInv, TypeOK, StateTypeOK
  <2>2. current_leader'[k] = current_leader[k] /\ next_index' = next_index
    BY ZenonT(30), <2>1 DEF FollowLeader, TypeInv, TypeOK, StateTypeOK
  <2>3. heartbeat_timer'[k] = heartbeat_timer[k]
    BY <2>1, Zenon DEF FollowLeader, TypeInv, TypeOK, LoopTypeOK
  <2> QED
    BY ZenonT(30), <2>1, <2>2, <2>3 DEF TypeInv, LeaderIsReady
<1> QED
  BY SMTT(30), <1>2, <1>3, <1>4, <1>5, <1>6

\* handle_append_entries keeps the types.
LEMMA AppendEntriesHandlerType ==
    ASSUME TypeInv, NEW m \in msgs, NEW i \in Server, HandleAppendEntries(i, m)
    PROVE  TypeInv'
<1>1. /\ m.from \in Server /\ m.term \in Nat /\ current_term[i] \in Nat
      /\ m.prev_log_index \in Nat /\ m.entries \in Seq(Entry)
      /\ m.leader_commit \in Nat
  BY ZenonT(30), MessageFields DEF HandleAppendEntries, TypeInv, TypeOK, StateTypeOK
<1>2. CASE RejectStaleAppendEntries(i, m)
  <2>1. msgs' \subseteq Message /\ dups' \in Nat
    <3>1. AppendEntriesResponse(i, m.from, current_term[i], FALSE, 0) \in Message
      BY Zenon, <1>1, AppendEntriesResponseType
    <3> QED
      BY Zenon, <1>2, <3>1, ReplyType DEF RejectStaleAppendEntries, TypeInv
  <2>2. TypeOK'
    BY Zenon, <1>2, <2>1 DEF RejectStaleAppendEntries, TypeInv, TypeOK, StateTypeOK,
                      LoopTypeOK, LogTypeOK, IndexTypeOK, HistoryTypeOK
  <2>3. LeaderIsReady'
    BY ZenonT(30), <1>2 DEF RejectStaleAppendEntries, TypeInv, LeaderIsReady
  <2> QED
    BY <2>2, <2>3 DEF TypeInv
<1>3. CASE RejectAppendEntries(i, m)
  <2>1. msgs' \subseteq Message /\ dups' \in Nat
    <3>1. AppendEntriesResponse(i, m.from, m.term, FALSE, 0) \in Message
      BY Zenon, <1>1, AppendEntriesResponseType
    <3> QED
      BY Zenon, <1>3, <3>1, ReplyType DEF RejectAppendEntries, TypeInv
  <2> QED
    BY <1>3, <2>1, FollowLeaderType
       DEF RejectAppendEntries, TypeInv, TypeOK, LogTypeOK
<1>4. CASE AcceptAppendEntries(i, m)
  <2> DEFINE l == MergeEntries(log[i], m.prev_log_index, m.entries)
  <2>1. l \in Seq(Entry)
    BY ZenonT(30), <1>1, <1>4, MergeEntriesIsLog
       DEF AcceptAppendEntries, TypeInv, TypeOK, LogTypeOK
  <2>2. log' = [log EXCEPT ![i] = l]
        /\ commitIndex' = [commitIndex EXCEPT ![i] = FollowerCommit(i, m, l)]
    BY <1>4 DEF AcceptAppendEntries
  <2>3. msgs' \subseteq Message /\ dups' \in Nat
    <3>1. m.prev_log_index + Len(m.entries) \in Nat
      BY <1>1, LenProperties
    <3>2. AppendEntriesResponse(i, m.from, m.term, TRUE,
                                m.prev_log_index + Len(m.entries)) \in Message
      BY Zenon, <1>1, <3>1, AppendEntriesResponseType
    <3> QED
      BY Zenon, <1>4, <3>2, ReplyType DEF AcceptAppendEntries, TypeInv
  <2> HIDE DEF l
  <2>4. FollowerCommit(i, m, l) \in Nat
    BY SMTT(30), <1>1, <2>1, LenProperties
       DEF FollowerCommit, Lesser, LastLogIndex, TypeInv, TypeOK, LogTypeOK
  <2>5. LogTypeOK'
    BY SMTT(30), <2>1, <2>2, <2>4 DEF TypeInv, TypeOK, LogTypeOK
  <2> QED
    BY <1>4, <2>3, <2>5, FollowLeaderType DEF AcceptAppendEntries, TypeInv, TypeOK
<1> QED
  BY <1>2, <1>3, <1>4 DEF HandleAppendEntries

\* handle_append_entries_response keeps the types.
LEMMA AppendEntriesResponseHandlerType ==
    ASSUME TypeInv, NEW m \in msgs, NEW i \in Server,
           HandleAppendEntriesResponse(i, m)
    PROVE  TypeInv'
<1>1. m.from \in Server /\ m.term \in Nat /\ m.match_index \in Nat
  BY SMTT(30), MessageFields DEF HandleAppendEntriesResponse, TypeInv, TypeOK
<1>2. CASE AdoptTerm(i, m)
  BY <1>2, AdoptTermType
<1>3. CASE AdvanceFollower(i, m)
  <2> DEFINE match == Greater(match_index[i][m.from], m.match_index)
  <2>1. match \in Nat
    BY SMTT(30), <1>1 DEF Greater, TypeInv, TypeOK, IndexTypeOK
  <2>2. /\ match_index' = [match_index EXCEPT ![i][m.from] = match]
        /\ next_index' = [next_index EXCEPT ![i][m.from] = match + 1]
        /\ inflight' = [inflight EXCEPT ![i][m.from] = FALSE]
    BY <1>3 DEF AdvanceFollower
  <2> HIDE DEF match
  <2>3. msgs' \subseteq Message /\ dups' \in Nat
    BY Zenon, <1>3, NoReplyType DEF AdvanceFollower, TypeInv
  <2>4. IndexTypeOK'
    <3>1. match + 1 \in Nat /\ match + 1 > 0
      BY <2>1
    <3>2. /\ match_index' \in [Server -> [Server -> Nat]]
          /\ next_index' \in [Server -> [Server -> Nat]]
          /\ inflight' \in [Server -> [Server -> BOOLEAN]]
      BY Zenon, <1>1, <2>1, <2>2, <3>1, NestedExcept DEF TypeInv, TypeOK, IndexTypeOK
    <3> QED
      BY Zenon, <1>3, <3>2 DEF AdvanceFollower, TypeInv, TypeOK, IndexTypeOK
  <2>5. PICK k \in {commitIndex[i]} \cup DOMAIN log[i] :
            /\ k = commitIndex[i] \/ k > commitIndex[i]
            /\ commitIndex' = [commitIndex EXCEPT ![i] = k]
            /\ acked' = IF client_id_to_addr[i]
                        THEN acked \cup {log[i][n] : n \in commitIndex[i] + 1 .. k}
                        ELSE acked
    BY Zenon, <1>3 DEF AdvanceFollower, UpdatedCommitIndex
  <2>6. commitIndex[i] \in Nat /\ DOMAIN log[i] = 1 .. Len(log[i])
        /\ Len(log[i]) \in Nat /\ \A n \in 1 .. Len(log[i]) : log[i][n] \in Entry
    BY LenProperties, ElementOfSeq DEF TypeInv, TypeOK, LogTypeOK
  <2>7. LogTypeOK'
    <3>1. k \in Nat
      BY SMTT(30), <2>5, <2>6
    <3> QED
      BY Zenon, <1>3, <2>5, <3>1 DEF AdvanceFollower, TypeInv, TypeOK, LogTypeOK
  <2>8. acked' \subseteq Entry
    <3>1. \A n \in commitIndex[i] + 1 .. k : n \in 1 .. Len(log[i])
      BY <2>5, <2>6
    <3> QED
      BY SMTT(30), <2>5, <2>6, <3>1 DEF TypeInv, TypeOK, HistoryTypeOK
  <2>9. TypeOK'
    BY Zenon, <1>3, <2>3, <2>4, <2>7, <2>8 DEF AdvanceFollower, TypeInv, TypeOK,
                                        StateTypeOK, LoopTypeOK, HistoryTypeOK
  <2>10. LeaderIsReady'
    <3>1. match + 1 \in Nat /\ match + 1 > 0
      BY <2>1
    <3>2. \A j, n \in Server : next_index'[j][n] = next_index[j][n]
                               \/ next_index'[j][n] = match + 1
      BY Zenon, <1>1, <2>2, <3>1, NestedExcept DEF TypeInv, TypeOK, IndexTypeOK
    <3>3. /\ role' = role /\ heartbeat_timer' = heartbeat_timer
          /\ current_leader' = current_leader
      BY Zenon, <1>3 DEF AdvanceFollower
    <3> QED
      BY Zenon, <3>1, <3>2, <3>3 DEF TypeInv, LeaderIsReady, Followers
  <2> QED
    BY SMTT(30), <2>9, <2>10 DEF TypeInv
<1>4. CASE BackOffFollower(i, m)
  <2> DEFINE next == Greater(1, next_index[i][m.from] - 1)
  <2>1. next \in Nat /\ next > 0
    BY SMTT(30), <1>1 DEF Greater, TypeInv, TypeOK, IndexTypeOK
  <2>2. /\ next_index' = [next_index EXCEPT ![i][m.from] = next]
        /\ inflight' = [inflight EXCEPT ![i][m.from] = FALSE]
    BY <1>4 DEF BackOffFollower
  <2> HIDE DEF next
  <2>3. msgs' \subseteq Message /\ dups' \in Nat
    BY Zenon, <1>4, NoReplyType DEF BackOffFollower, TypeInv
  <2>4. IndexTypeOK'
    <3>1. /\ next_index' \in [Server -> [Server -> Nat]]
          /\ inflight' \in [Server -> [Server -> BOOLEAN]]
      BY Zenon, <1>1, <2>1, <2>2, NestedExcept DEF TypeInv, TypeOK, IndexTypeOK
    <3> QED
      BY Zenon, <1>4, <3>1 DEF BackOffFollower, TypeInv, TypeOK, IndexTypeOK
  <2>5. TypeOK'
    BY Zenon, <1>4, <2>3, <2>4 DEF BackOffFollower, TypeInv, TypeOK, StateTypeOK,
                            LoopTypeOK, LogTypeOK, HistoryTypeOK
  <2>6. LeaderIsReady'
    <3>1. \A k, n \in Server : next_index'[k][n] = next_index[k][n]
                               \/ next_index'[k][n] = next
      BY Zenon, <1>1, <2>1, <2>2, NestedExcept DEF TypeInv, TypeOK, IndexTypeOK
    <3>2. /\ role' = role /\ heartbeat_timer' = heartbeat_timer
          /\ current_leader' = current_leader
      BY Zenon, <1>4 DEF BackOffFollower
    <3> QED
      BY Zenon, <2>1, <3>1, <3>2 DEF TypeInv, LeaderIsReady, Followers
  <2> QED
    BY <2>5, <2>6 DEF TypeInv
<1> QED
  BY SMTT(30), <1>2, <1>3, <1>4 DEF HandleAppendEntriesResponse

\* A fact of arithmetic
LEMMA PositiveRange ==
    ASSUME NEW a \in Nat, a > 0, NEW b \in Nat, NEW n \in a .. b
    PROVE  n \in Nat /\ n > 0
OBVIOUS

\* handle_client_request keeps the types.
LEMMA ClientRequestType ==
    ASSUME TypeInv, NEW i \in Server, HandleClientRequest(i)
    PROVE  TypeInv'
<1> DEFINE l == Append(log[i], [term |-> current_term[i], request |-> requests + 1])
<1>1. l \in Seq(Entry) /\ Len(l) \in Nat
  <2>1. [term |-> current_term[i], request |-> requests + 1] \in Entry
    BY SMTT(30) DEF Entry, TypeInv, TypeOK, StateTypeOK
  <2> QED
    BY SMTT(30), <2>1, AppendProperties, LenProperties DEF TypeInv, TypeOK, LogTypeOK
<1>2. /\ log' = [log EXCEPT ![i] = l]
      /\ Send(Proposals(i, l))
      /\ inflight' = [inflight EXCEPT ![i] =
             [j \in Server |-> @[j] \/ j \in ProposalTargets(i, l)]]
  BY DEF HandleClientRequest
<1> HIDE DEF l
<1>3. Proposals(i, l) \subseteq Message
  <2> SUFFICES ASSUME NEW n \in Proposals(i, l)
               PROVE  n \in Message
    BY Zenon
  <2>1. PICK j \in ProposalTargets(i, l) :
            \E k \in next_index[i][j] .. LastLogIndex(l) :
                n = AppendEntries(i, j, l, k, MtuEntries)
    BY Zenon DEF Proposals
  <2>2. PICK start \in next_index[i][j] .. LastLogIndex(l) :
            n = AppendEntries(i, j, l, start, MtuEntries)
    BY Zenon, <2>1
  <2>3. j \in Server /\ next_index[i][j] > 0 /\ next_index[i][j] \in Nat
    <3>1. role[i] = "LEADER" /\ j \in Followers(i) /\ j \in Server
      BY ZenonT(30) DEF HandleClientRequest, ProposalTargets, Followers
    <3> QED
      BY ZenonT(30), <3>1 DEF TypeInv, TypeOK, LeaderIsReady, IndexTypeOK
  <2>4. start \in Nat /\ start > 0
    BY ZenonT(30), <1>1, <2>3, PositiveRange DEF LastLogIndex
  <2>5. TypeOK /\ MtuEntries \in Nat
    BY ConstantsAssumption DEF TypeInv
  <2> QED
    BY Zenon, <1>1, <2>2, <2>3, <2>4, <2>5, AppendEntriesType
<1>4. msgs' \subseteq Message /\ dups' \in Nat
  BY <1>2, <1>3, SendAdds DEF TypeInv, TypeOK
<1>5. inflight' \in [Server -> [Server -> BOOLEAN]]
  BY <1>2, Zenon DEF TypeInv, TypeOK, IndexTypeOK
<1>6. IndexTypeOK' /\ LogTypeOK' /\ requests' \in Nat
  <2>1. IndexTypeOK'
    BY Zenon, <1>5 DEF HandleClientRequest, TypeInv, TypeOK, IndexTypeOK
  <2>2. LogTypeOK'
    <3>1. log \in [Server -> Seq(Entry)]
      BY DEF TypeInv, TypeOK, LogTypeOK
    <3>2. log' \in [Server -> Seq(Entry)]
      BY Zenon, <1>1, <1>2, <3>1
    <3> QED
      BY Zenon, <3>2 DEF HandleClientRequest, TypeInv, TypeOK, LogTypeOK
  <2>3. requests' \in Nat
    <3>1. requests' = requests + 1 /\ requests \in Nat
      BY Zenon DEF HandleClientRequest, TypeInv, TypeOK
    <3> QED
      BY <3>1
  <2> QED
    BY <2>1, <2>2, <2>3
<1>7. TypeOK'
  BY Zenon, <1>4, <1>6 DEF HandleClientRequest, TypeInv, TypeOK, StateTypeOK,
                    LoopTypeOK, HistoryTypeOK
<1>8. LeaderIsReady'
  BY ZenonT(30) DEF HandleClientRequest, TypeInv, LeaderIsReady
<1> QED
  BY <1>7, <1>8 DEF TypeInv

\* The petition of a follower keeps the types.
LEMMA SendPetitionType ==
    ASSUME TypeInv, NEW i \in Server, NEW j \in Server, SendPetition(i, j)
    PROVE  TypeInv'
<1> DEFINE p == [type |-> "Petition", from |-> i, to |-> j,
                 term |-> current_term[i], current_leader |-> current_leader[i]]
<1>1. p \in Message
  BY ZenonT(30) DEF SendPetition, Message, TypeInv, TypeOK, StateTypeOK
<1>2. msgs' \subseteq Message /\ dups' \in Nat
  <2>1. Send({p})
    BY ZenonT(30) DEF SendPetition
  <2> HIDE DEF p
  <2> QED
    BY <1>1, <2>1, SendAdds DEF TypeInv, TypeOK
<1>3. petitioned' \subseteq Server \X Nat
  <2>1. <<i, current_term[i]>> \in Server \X Nat
    BY DEF TypeInv, TypeOK, StateTypeOK
  <2>2. petitioned' = petitioned \cup {<<i, current_term[i]>>}
    BY ZenonT(30) DEF SendPetition
  <2> QED
    BY SMTT(30), <2>1, <2>2 DEF TypeInv, TypeOK, HistoryTypeOK
<1>4. TypeOK'
  BY Zenon, <1>2, <1>3 DEF SendPetition, TypeInv, TypeOK, StateTypeOK, LoopTypeOK,
                    LogTypeOK, IndexTypeOK, HistoryTypeOK
<1>5. LeaderIsReady'
  BY ZenonT(30) DEF SendPetition, TypeInv, LeaderIsReady
<1> QED
  BY <1>4, <1>5 DEF TypeInv

\* handle_petition keeps the types.
LEMMA PetitionHandlerType ==
    ASSUME TypeInv, NEW m \in msgs, NEW i \in Server, HandlePetition(i, m)
    PROVE  TypeInv'
<1>1. m.from \in Server /\ m.current_leader \in Server
  BY ZenonT(30), MessageFields DEF HandlePetition, TypeInv, TypeOK
<1>2. msgs' \subseteq Message /\ dups' \in Nat
  <2>1. CASE Deliver(m, {})
    BY Zenon, <2>1, NoReplyType DEF TypeInv
  <2>2. CASE /\ ~PetitionIgnored(i, m)
             /\ Deliver(m, {RequestVote(i, current_term[i], current_leader[i], TRUE)})
    <3>1. current_leader[i] \in Server /\ current_term[i] \in Nat
      BY ZenonT(30), <1>1, <2>2 DEF PetitionIgnored, TypeInv, TypeOK, StateTypeOK
    <3>2. RequestVote(i, current_term[i], current_leader[i], TRUE) \in Message
      BY Zenon, <3>1, RequestVoteType DEF TypeInv
    <3> QED
      BY Zenon, <2>2, <3>2, ReplyType DEF TypeInv
  <2> QED
    BY ZenonT(30), <2>1, <2>2 DEF HandlePetition
<1>3. StateTypeOK'
  <2>1. \/ latency_to_leader' = latency_to_leader
        \/ latency_to_leader' = [latency_to_leader EXCEPT ![i] = @ \cup {m.from}]
    BY Zenon DEF HandlePetition
  <2>2. latency_to_leader' \in [Server -> SUBSET Server]
    <3>1. latency_to_leader \in [Server -> SUBSET Server]
      BY Zenon DEF TypeInv, TypeOK, StateTypeOK
    <3>2. latency_to_leader[i] \cup {m.from} \in SUBSET Server
      BY ZenonT(30), <1>1, <3>1
    <3> QED
      BY Zenon, <2>1, <3>1, <3>2
  <2> QED
    BY Zenon, <2>2 DEF HandlePetition, TypeInv, TypeOK, StateTypeOK
<1>4. TypeOK'
  BY Zenon, <1>2, <1>3 DEF HandlePetition, TypeInv, TypeOK, LoopTypeOK, LogTypeOK,
                    IndexTypeOK, HistoryTypeOK
<1>5. LeaderIsReady'
  BY ZenonT(30) DEF HandlePetition, TypeInv, LeaderIsReady
<1> QED
  BY <1>4, <1>5 DEF TypeInv

\* Dropping a response that the role of the node makes void keeps the types.
LEMMA DropResponseType ==
    ASSUME TypeInv, NEW m \in msgs, NEW i \in Server, DropResponse(i, m)
    PROVE  TypeInv'
<1>1. msgs' \subseteq Message /\ dups' \in Nat
  BY Zenon, NoReplyType DEF DropResponse, TypeInv
<1>2. TypeOK'
  BY Zenon, <1>1 DEF DropResponse, TypeInv, TypeOK, StateTypeOK, LoopTypeOK,
              LogTypeOK, IndexTypeOK, HistoryTypeOK
<1>3. LeaderIsReady'
  BY ZenonT(30) DEF DropResponse, TypeInv, LeaderIsReady
<1> QED
  BY <1>2, <1>3 DEF TypeInv

\* Every step keeps the types.
LEMMA NextTypeInv == TypeInv /\ [Next]_vars => TypeInv'
<1> SUFFICES ASSUME TypeInv, [Next]_vars PROVE TypeInv'
  OBVIOUS
<1>1. ASSUME NEW i \in Server, Loop(i)
      PROVE  TypeInv'
  BY <1>1, ElectionTimeoutIgnoredType, ElectionTimeoutType, BecomeLeaderType,
     HeartbeatType, FailureType DEF Loop
<1>2. ASSUME NEW m \in msgs, Receive(m)
      PROVE  TypeInv'
  <2>1. m.to \in Server
    BY MessageFields DEF TypeInv, TypeOK
  <2> QED
    BY SMTT(30), <1>2, <2>1, RequestVoteHandlerType, VoteResponseHandlerType,
       AppendEntriesHandlerType, AppendEntriesResponseHandlerType,
       PetitionHandlerType, DropResponseType DEF Receive
<1>3. ASSUME NEW i \in Server, HandleClientRequest(i)
      PROVE  TypeInv'
  BY SMTT(30), <1>3, ClientRequestType
<1>4. ASSUME NEW i \in Server, NEW j \in Server, SendPetition(i, j)
      PROVE  TypeInv'
  BY SMTT(30), <1>4, SendPetitionType
<1>5. CASE UNCHANGED vars
  BY Zenon, <1>5 DEF vars, TypeInv, TypeOK, StateTypeOK, LoopTypeOK, LogTypeOK,
              IndexTypeOK, HistoryTypeOK, LeaderIsReady
<1> QED
  BY <1>1, <1>2, <1>3, <1>4, <1>5 DEF Next

\* Every field of every node and every message keeps its type, and no handler,
\* timer callback or task leaves a leader without a running heartbeat timer or
\* without a next_index from which send_heartbeat can make a message.
THEOREM TypeCorrect == Spec => [](TypeOK /\ LeaderIsReady)
<1>1. Spec => []TypeInv
  BY InitTypeInv, NextTypeInv, PTL DEF Spec
<1>2. TypeInv <=> TypeOK /\ LeaderIsReady
  BY DEF TypeInv
<1> QED
  BY <1>1, <1>2, PTL

\* Whoever has won an election can serve it: become_leader, the handlers that
\* depose a leader and the simulated failure always change the role, the heartbeat
\* timer, the known leader and the indexes together.
THEOREM LeadersAreReady == Spec => []LeaderIsReady
  BY TypeCorrect, PTL
=============================================================================
