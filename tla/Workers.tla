------------------------------ MODULE Workers -------------------------------
(***************************************************************************)
(* The worker threads of one node inside Node::handle_append_entries.      *)
(* The handler takes no lock; RaftLog locks each of its calls alone.  Its  *)
(* steps are the reads and writes of what threads share: the test of the   *)
(* term, its assignment, every call to the log, the test of the commit     *)
(* index, its assignment.  The event loop thread raises the term when the  *)
(* election timer fires.                                                   *)
(*                                                                         *)
(* With one worker, and a timer that fires between two messages, the       *)
(* steps amount to the one step of module Follower.                        *)
(***************************************************************************)
EXTENDS RaftLog, FiniteSets

CONSTANTS Worker,        \* the worker threads
          Command,       \* what clients ask for
          LeaderLog,     \* LeaderLog[t]: the log of the leader of term t
          LeaderCommit,  \* LeaderCommit[t]: the commit index it reaches
          Preempts,      \* may the timer fire while a message is handled?
          MaxMessages,   \* bound on the messages received
          MaxTimeouts    \* bound on election timeouts

ASSUME WorkersAssumption ==
    /\ MaxMessages \in Nat /\ MaxTimeouts \in Nat
    /\ Preempts \in BOOLEAN
    /\ DOMAIN LeaderCommit = DOMAIN LeaderLog
    /\ \A t \in DOMAIN LeaderLog :
          /\ t \in Nat
          /\ LeaderLog[t] \in Seq([term : Nat, command : Command])
          /\ LeaderCommit[t] \in 0 .. Len(LeaderLog[t])

Entry == [term : Nat, command : Command]

(* What the leader of term t may send: any stretch of its log, empty in a  *)
(* heartbeat, with any commit index it has had.                            *)
AppendEntries(t, prev, last, commit) ==
    [term |-> t, prev_index |-> prev, prev_term |-> EntryTerm(LeaderLog[t], prev),
     entries |-> SubSeq(LeaderLog[t], prev + 1, last), commit |-> commit]

Stretches(l) == {s \in (0 .. Len(l)) \X (0 .. Len(l)) : s[1] <= s[2]}

Messages ==
    UNION {{AppendEntries(t, s[1], s[2], commit) :
               s \in Stretches(LeaderLog[t]), commit \in 0 .. LeaderCommit[t]} :
           t \in DOMAIN LeaderLog}

VARIABLES current_term, log, commitIndex, responses,
          taken,    \* the number of messages received
          pc,       \* pc[w]: where worker w is
          msg,      \* msg[w]: the message it handles, or << >>
          pos,      \* pos[w]: which of its entries comes next
          limit,    \* limit[w]: a commit index read, to be written
          timeouts,
          start     \* history: term, log and commit index when the last
                    \* message was taken

shared == <<current_term, log, commitIndex>>
vars == <<shared, taken, responses, pc, msg, pos, limit, timeouts, start>>

Snapshot == [term |-> current_term, log |-> log, commit |-> commitIndex]

Init ==
    /\ current_term = 0 /\ log = << >> /\ commitIndex = 0
    /\ taken = 0
    /\ responses = {}
    /\ pc = [w \in Worker |-> "idle"]
    /\ msg = [w \in Worker |-> << >>]
    /\ pos = [w \in Worker |-> 0] /\ limit = [w \in Worker |-> 0]
    /\ timeouts = 0
    /\ start = Snapshot

Response(term, success, match) ==
    [term |-> term, success |-> success, match |-> match]

Goto(w, label) == pc' = [pc EXCEPT ![w] = label]

(* The handler ends with a response: the thread keeps nothing.             *)
Return(w, success, match) ==
    /\ responses' = responses \union {Response(current_term, success, match)}
    /\ Goto(w, "idle")
    /\ msg' = [msg EXCEPT ![w] = << >>]
    /\ pos' = [pos EXCEPT ![w] = 0] /\ limit' = [limit EXCEPT ![w] = 0]

At(w, label) == pc[w] = label
Index(w) == msg[w].prev_index + pos[w]

-----------------------------------------------------------------------------
(* A message is dequeued and its term compared with the node's.            *)
Take(w, m) ==
    /\ At(w, "idle") /\ taken < MaxMessages
    /\ taken' = taken + 1
    /\ start' = Snapshot
    /\ IF m.term < current_term
         THEN /\ responses' = responses \union {Response(current_term, FALSE, 0)}
              /\ UNCHANGED <<pc, msg, pos>>
         ELSE /\ Goto(w, "follow")
              /\ msg' = [msg EXCEPT ![w] = m] /\ pos' = [pos EXCEPT ![w] = 1]
              /\ UNCHANGED responses
    /\ UNCHANGED <<shared, limit, timeouts>>

(* current_term = received_term, whatever the term is by now.              *)
Follow(w) ==
    /\ At(w, "follow")
    /\ current_term' = msg[w].term
    /\ Goto(w, "contains")
    /\ UNCHANGED <<log, commitIndex, taken, responses, msg, pos, limit, timeouts, start>>

(* raftLog.containsEntry(prev_log_index, prev_log_term)                    *)
Contains(w) ==
    /\ At(w, "contains")
    /\ IF ContainsEntry(log, msg[w].prev_index, msg[w].prev_term)
         THEN Goto(w, "look") /\ UNCHANGED <<responses, msg, pos, limit>>
         ELSE Return(w, FALSE, 0)
    /\ UNCHANGED <<shared, taken, timeouts, start>>

(* raftLog.getEntry(insertion_index, ...): the entry is there, conflicts   *)
(* or is missing.                                                          *)
Look(w) ==
    /\ At(w, "look") /\ pos[w] <= Len(msg[w].entries)
    /\ \/ /\ Index(w) > Len(log)
          /\ Goto(w, "append") /\ UNCHANGED pos
       \/ /\ Index(w) <= Len(log) /\ log[Index(w)].term # msg[w].entries[pos[w]].term
          /\ Goto(w, "delete") /\ UNCHANGED pos
       \/ /\ Index(w) <= Len(log) /\ log[Index(w)].term = msg[w].entries[pos[w]].term
          /\ pos' = [pos EXCEPT ![w] = @ + 1] /\ UNCHANGED pc
    /\ UNCHANGED <<shared, taken, responses, msg, limit, timeouts, start>>

\* Mutant: only the conflicting entry is deleted.
DeleteEntries_One(w) ==
    /\ At(w, "delete")
    /\ log' = SubSeq(log, 1, Index(w) - 1) \o SubSeq(log, Index(w) + 1, Len(log))
    /\ Goto(w, "append")
    /\ UNCHANGED <<current_term, commitIndex, taken, responses, msg, pos, limit, timeouts, start>>

(* raftLog.deleteEntriesStartingFrom(insertion_index)                      *)
DeleteEntries(w) ==
    /\ At(w, "delete")
    /\ log' = IF Index(w) <= Len(log) THEN SubSeq(log, 1, Index(w) - 1) ELSE log
    /\ Goto(w, "append")
    /\ UNCHANGED <<current_term, commitIndex, taken, responses, msg, pos, limit, timeouts, start>>

\* Mutant: a new entry is put in front.
AppendEntry_Front(w) ==
    /\ At(w, "append")
    /\ log' = <<msg[w].entries[pos[w]]>> \o log
    /\ pos' = [pos EXCEPT ![w] = @ + 1]
    /\ Goto(w, "look")
    /\ UNCHANGED <<current_term, commitIndex, taken, responses, msg, limit, timeouts, start>>

(* raftLog.appendEntry(...): at the end of the log, wherever that is.      *)
AppendEntry(w) ==
    /\ At(w, "append")
    /\ log' = Append(log, msg[w].entries[pos[w]])
    /\ pos' = [pos EXCEPT ![w] = @ + 1]
    /\ Goto(w, "look")
    /\ UNCHANGED <<current_term, commitIndex, taken, responses, msg, limit, timeouts, start>>

(* leader_commit() > raftLog.getCommitIndex() ...                          *)
CompareCommit(w) ==
    /\ At(w, "look") /\ pos[w] > Len(msg[w].entries)
    /\ Goto(w, IF msg[w].commit > commitIndex THEN "last" ELSE "reply")
    /\ UNCHANGED <<shared, taken, responses, msg, pos, limit, timeouts, start>>

(* ... std::min(leader_commit(), raftLog.getLastLogIndex()) ...            *)
ReadLast(w) ==
    /\ At(w, "last")
    /\ limit' = [limit EXCEPT ![w] =
                    IF msg[w].commit <= Len(log) THEN msg[w].commit ELSE Len(log)]
    /\ Goto(w, "store")
    /\ UNCHANGED <<shared, taken, responses, msg, pos, timeouts, start>>

(* ... raftLog.advanceCommitIndex(...): a store, not a maximum.            *)
StoreCommit(w) ==
    /\ At(w, "store")
    /\ commitIndex' = limit[w]
    /\ Goto(w, "reply")
    /\ UNCHANGED <<current_term, log, taken, responses, msg, pos, limit, timeouts, start>>

\* Mutant: the match index is one too high.
Reply_High(w) ==
    /\ At(w, "reply")
    /\ Return(w, TRUE, msg[w].prev_index + Len(msg[w].entries) + 1)
    /\ UNCHANGED <<shared, taken, timeouts, start>>

(* The response of success; match_index is counted, not read.              *)
Reply(w) ==
    /\ At(w, "reply")
    /\ Return(w, TRUE, msg[w].prev_index + Len(msg[w].entries))
    /\ UNCHANGED <<shared, taken, timeouts, start>>

Busy == \E w \in Worker : ~At(w, "idle")

(* election_timeout_cb() in the event loop thread.                         *)
ElectionTimeout ==
    /\ timeouts < MaxTimeouts /\ (Preempts \/ ~Busy)
    /\ timeouts' = timeouts + 1
    /\ current_term' = current_term + 1
    /\ UNCHANGED <<log, commitIndex, taken, responses, pc, msg, pos, limit, start>>

Step(w) ==
    \/ \E m \in Messages : Take(w, m)
    \/ Follow(w) \/ Contains(w)
    \/ Look(w) \/ DeleteEntries(w) \/ AppendEntry(w)
    \/ CompareCommit(w) \/ ReadLast(w) \/ StoreCommit(w) \/ Reply(w)

Next == (\E w \in Worker : Step(w)) \/ ElectionTimeout

Spec == Init /\ [][Next]_vars

-----------------------------------------------------------------------------
(* The state a single worker's message found, until it is answered.        *)
Atomic == INSTANCE Follower WITH
    current_term <- IF Busy THEN start.term ELSE current_term,
    log          <- IF Busy THEN start.log ELSE log,
    commitIndex  <- IF Busy THEN start.commit ELSE commitIndex,
    responses    <- responses,
    Messages     <- Messages

(* One worker thread, and a timer that fires between messages: the         *)
(* handler's reads and writes (handle_append_entries) amount to one atomic *)
(* step for each message, the grain of module Node.                        *)
HandlersAreAtomic == Atomic!Spec

(* All positions named are positions, all counters are in range.           *)
WorkersTypeOK ==
    /\ current_term \in Nat /\ commitIndex \in Nat
    /\ \A w \in Worker :
          ~At(w, "idle") => /\ msg[w] \in Messages
                            /\ pos[w] \in 1 .. Len(msg[w].entries) + 1
                            /\ limit[w] <= msg[w].commit

(* One leader sends, and its entries are all of one term: no thread ever   *)
(* finds a conflict, so none deletes what another has appended.            *)
OneTerm ==
    \E t \in DOMAIN LeaderLog :
        /\ DOMAIN LeaderLog = {t}
        /\ \A k, n \in DOMAIN LeaderLog[t] : LeaderLog[t][k].term = LeaderLog[t][n].term

(* Whatever the threads do while one leader sends entries of one term, a   *)
(* response never claims more of the log than the node holds (match_index  *)
(* in handle_append_entries counts entries instead of reading the log).    *)
ClaimedIsHeld == OneTerm => \A r \in responses : r.match <= Len(log)

(* Threads that append the same entries of one term can only push an entry *)
(* behind its place, never in front of it, and they bring in nothing that  *)
(* the leader did not send (one leader; handle_append_entries).            *)
ShiftedOnlyBack ==
    OneTerm => \A t \in DOMAIN LeaderLog :
        \A i \in DOMAIN log : \E k \in 1 .. i :
            k \in DOMAIN LeaderLog[t] /\ log[i] = LeaderLog[t][k]
=============================================================================
