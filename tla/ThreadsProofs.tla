--------------------------- MODULE ThreadsProofs ----------------------------
(***************************************************************************)
(* What handle_append_entries guarantees when any number of worker threads *)
(* run it at once without a lock, and the event loop thread raises the     *)
(* term meanwhile: as long as one leader sends entries of one term, no     *)
(* response claims more than the log holds, and entries are only pushed    *)
(* behind their place.                                                     *)
(***************************************************************************)
EXTENDS Workers, SequenceTheorems, TLAPS

\* Entry i of the log l is an entry of the log r at i or before it.
Behind(l, r, i) == \E k \in 1 .. i : k \in DOMAIN r /\ l[i] = r[k]

\* A thread is past the entries before pos[w], all of which fit in the log; none
\* is about to delete.
ThreadInv(w) ==
    /\ pc[w] \in {"idle", "follow", "contains", "look", "append", "last", "store",
                  "reply"}
    /\ pc[w] # "idle" => msg[w] \in Messages
    /\ pc[w] \in {"follow", "contains"} => pos[w] = 1
    /\ pc[w] \in {"look", "append"} =>
           /\ pos[w] \in 1 .. Len(msg[w].entries) + 1
           /\ Index(w) <= Len(log) + 1
    /\ pc[w] = "append" => pos[w] <= Len(msg[w].entries)
    /\ pc[w] \in {"last", "store", "reply"} =>
           msg[w].prev_index + Len(msg[w].entries) <= Len(log)

LogsInv ==
    /\ log \in Seq(Entry)
    /\ \A t \in DOMAIN LeaderLog, i \in DOMAIN log : Behind(log, LeaderLog[t], i)
    /\ \A r \in responses : r.match \in Nat /\ r.match <= Len(log)

Inv ==
    /\ DOMAIN pc = Worker /\ DOMAIN msg = Worker /\ DOMAIN pos = Worker
    /\ LogsInv
    /\ \A w \in Worker : ThreadInv(w)
-----------------------------------------------------------------------------
\* The entries are those of the log l behind the index prev.
Stretch(prev, entries, l) ==
    /\ l \in Seq(Entry) /\ prev \in Nat
    /\ entries \in Seq(Entry) /\ Len(entries) \in Nat
    /\ \A n \in 1 .. Len(entries) : prev + n \in DOMAIN l /\ entries[n] = l[prev + n]

\* SubSeq cuts out a stretch.
LEMMA SubSeqStretch ==
    ASSUME NEW l \in Seq(Entry), NEW a \in Nat, NEW b \in Nat, a <= b, b <= Len(l)
    PROVE  Stretch(a, SubSeq(l, a + 1, b), l)
<1>1. Len(l) \in Nat /\ DOMAIN l = 1 .. Len(l)
  BY LenProperties
<1> DEFINE c == a + 1
<1>2. c \in Int /\ b \in Int /\ c = a + 1 /\ \A i \in c .. b : l[i] \in Entry
  BY <1>1, ElementOfSeq
<1> HIDE DEF c
<1>3. /\ SubSeq(l, c, b) \in Seq(Entry)
      /\ Len(SubSeq(l, c, b)) = IF c <= b THEN b - c + 1 ELSE 0
      /\ \A i \in 1 .. b - c + 1 : SubSeq(l, c, b)[i] = l[c + i - 1]
  BY <1>2, SubSeqProperties
<1> DEFINE e == SubSeq(l, c, b)
<1>4. e \in Seq(Entry) /\ Len(e) = b - a
  BY <1>2, <1>3
<1>5. \A i \in 1 .. b - c + 1 : e[i] = l[c + i - 1]
  BY <1>3
<1> HIDE DEF e
<1>6. ASSUME NEW n \in 1 .. Len(e)
      PROVE  a + n \in DOMAIN l /\ e[n] = l[a + n]
  <2>1. n \in 1 .. b - c + 1 /\ c + n - 1 = a + n /\ a + n \in 1 .. Len(l)
    BY <1>1, <1>2, <1>4
  <2> QED
    BY <2>1, <1>1, <1>5
<1>7. Stretch(a, e, l)
  BY <1>4, <1>6 DEF Stretch
<1> QED
  BY Zenon, <1>2, <1>7 DEF e

\* When one leader sends, a message is a stretch of its log
\* (send_proposals_to_followers, send_heartbeat).
LEMMA StretchOfLog ==
    ASSUME NEW t, DOMAIN LeaderLog = {t}, NEW m \in Messages
    PROVE  Stretch(m.prev_index, m.entries, LeaderLog[t])
<1>1. m \in {AppendEntries(t, s[1], s[2], commit) :
                    s \in Stretches(LeaderLog[t]), commit \in 0 .. LeaderCommit[t]}
  BY DEF Messages
<1>2. PICK s \in Stretches(LeaderLog[t]), commit \in 0 .. LeaderCommit[t] :
          m = AppendEntries(t, s[1], s[2], commit)
  BY <1>1
<1>3. LeaderLog[t] \in Seq(Entry)
  BY Zenon, WorkersAssumption DEF Entry
<1>4. /\ s[1] \in Nat /\ s[2] \in Nat /\ s[1] <= s[2]
      /\ s[2] <= Len(LeaderLog[t])
  BY <1>3, LenProperties DEF Stretches
<1>5. m.prev_index = s[1] /\ m.entries = SubSeq(LeaderLog[t], s[1] + 1, s[2])
  BY Zenon, <1>2 DEF AppendEntries
<1> QED
  BY Zenon, <1>3, <1>4, <1>5, SubSeqStretch
-----------------------------------------------------------------------------
\* Only thread w moves.
OnlyMoves(w) ==
    /\ DOMAIN pc' = Worker /\ DOMAIN msg' = Worker /\ DOMAIN pos' = Worker
    /\ \A v \in Worker : v # w => pc'[v] = pc[v] /\ msg'[v] = msg[v] /\ pos'[v] = pos[v]

\* What one thread does leaves the others' claims on the log alone, because the
\* log never becomes shorter.
LEMMA ThreadSteps ==
    ASSUME NEW t, DOMAIN LeaderLog = {t}, Inv, NEW w, OnlyMoves(w),
           LogsInv', Len(log) <= Len(log'), w \in Worker => ThreadInv(w)'
    PROVE  Inv'
<1>1. Len(log) \in Nat /\ Len(log') \in Nat
  BY LenProperties DEF Inv, LogsInv
<1>2. ASSUME NEW v \in Worker, v # w
      PROVE  ThreadInv(v)'
  <2>1. ThreadInv(v) /\ pc'[v] = pc[v] /\ msg'[v] = msg[v] /\ pos'[v] = pos[v]
    BY <1>2 DEF Inv, OnlyMoves
  <2>2. CASE pc[v] = "idle"
    BY <2>1, <2>2 DEF ThreadInv
  <2>3. CASE pc[v] # "idle"
    <3>1. msg[v] \in Messages
      BY <2>1, <2>3 DEF ThreadInv
    <3>2. msg[v].prev_index \in Nat /\ Len(msg[v].entries) \in Nat
      BY Zenon, <3>1, StretchOfLog DEF Stretch
    <3> QED
      BY SMTT(30), <1>1, <2>1, <3>1, <3>2 DEF ThreadInv, Index
  <2> QED
    BY <2>2, <2>3
<1> QED
  BY <1>2 DEF Inv, OnlyMoves

\* While the log is left alone, responses may claim what is in it.
LEMMA ResponseHeld ==
    ASSUME LogsInv, log' = log, NEW term, NEW success, NEW match \in Nat,
           match <= Len(log),
           responses' = responses \union {Response(term, success, match)}
    PROVE  LogsInv'
<1>1. Response(term, success, match).match = match
  BY DEF Response
<1>2. \A r \in responses' : r.match \in Nat /\ r.match <= Len(log)
  BY <1>1 DEF LogsInv
<1> QED
  BY <1>2 DEF LogsInv

\* The end of the handler: the thread is idle again.
LEMMA ReturnKeeps ==
    ASSUME NEW t, DOMAIN LeaderLog = {t}, Inv, NEW w \in Worker, log' = log,
           NEW success, NEW match \in Nat, match <= Len(log),
           Return(w, success, match)
    PROVE  Inv'
<1>1. LogsInv'
  BY ResponseHeld DEF Inv, Return
<1>2. OnlyMoves(w) /\ pc'[w] = "idle"
  BY DEF Inv, OnlyMoves, Return, Goto
<1>3. ThreadInv(w)'
  BY <1>2 DEF ThreadInv
<1>4. Len(log) <= Len(log')
  BY LenProperties DEF Inv, LogsInv
<1> QED
  BY <1>1, <1>2, <1>3, <1>4, ThreadSteps

\* Steps that touch neither the log nor the responses.
LEMMA LogsStay ==
    ASSUME Inv, log' = log, responses' = responses
    PROVE  LogsInv' /\ Len(log) <= Len(log')
  BY LenProperties DEF Inv, LogsInv

\* A message is taken.
LEMMA TakeKeeps ==
    ASSUME NEW t, DOMAIN LeaderLog = {t}, Inv, NEW w \in Worker,
           NEW m \in Messages, Take(w, m)
    PROVE  Inv'
<1>0. log' = log
  BY DEF Take, shared
<1>1. CASE m.term < current_term
  <2>1. /\ responses' = responses \union {Response(current_term, FALSE, 0)}
        /\ pc' = pc /\ msg' = msg /\ pos' = pos
    BY Zenon, <1>1 DEF Take
  <2>0. LogsInv /\ Len(log) \in Nat
    BY LenProperties DEF Inv, LogsInv
  <2>2. LogsInv' /\ Len(log) <= Len(log')
    <3>1. 0 \in Nat /\ 0 <= Len(log) /\ Len(log) <= Len(log')
      BY <1>0, <2>0
    <3> QED
      BY Zenon, <1>0, <2>0, <2>1, <3>1, ResponseHeld
  <2>3. ThreadInv(w)'
    BY <1>0, <2>1 DEF Inv, ThreadInv, Index
  <2> QED
    BY <2>1, <2>2, <2>3, ThreadSteps DEF Inv, OnlyMoves
<1>2. CASE ~(m.term < current_term)
  <2>1. /\ responses' = responses /\ pc' = [pc EXCEPT ![w] = "follow"]
        /\ msg' = [msg EXCEPT ![w] = m] /\ pos' = [pos EXCEPT ![w] = 1]
    BY <1>2 DEF Take, Goto
  <2>2. OnlyMoves(w) /\ pc'[w] = "follow" /\ msg'[w] = m /\ pos'[w] = 1
    BY <2>1 DEF Inv, OnlyMoves
  <2>3. ThreadInv(w)'
    BY <2>2 DEF ThreadInv
  <2> QED
    BY <1>0, <2>1, <2>2, <2>3, LogsStay, ThreadSteps
<1> QED
  BY <1>1, <1>2

\* The term is assigned.
LEMMA FollowKeeps ==
    ASSUME NEW t, DOMAIN LeaderLog = {t}, Inv, NEW w \in Worker, Follow(w)
    PROVE  Inv'
<1>1. /\ pc[w] = "follow" /\ pc' = [pc EXCEPT ![w] = "contains"]
      /\ UNCHANGED <<log, responses, msg, pos>>
  BY DEF Follow, At, Goto
<1>2. OnlyMoves(w) /\ pc'[w] = "contains"
  BY <1>1 DEF Inv, OnlyMoves
<1>3. ThreadInv(w)'
  BY <1>1, <1>2 DEF Inv, ThreadInv
<1> QED
  BY <1>1, <1>2, <1>3, LogsStay, ThreadSteps

\* The entry before the new ones is looked for.
LEMMA ContainsKeeps ==
    ASSUME NEW t, DOMAIN LeaderLog = {t}, Inv, NEW w \in Worker, Contains(w)
    PROVE  Inv'
<1>1. pc[w] = "contains" /\ log' = log /\ ThreadInv(w)
  BY DEF Contains, At, shared, Inv
<1>2. msg[w] \in Messages /\ pos[w] = 1
  BY <1>1 DEF ThreadInv
<1>3. msg[w].prev_index \in Nat /\ Len(msg[w].entries) \in Nat
  BY Zenon, <1>2, StretchOfLog DEF Stretch
<1>4. Len(log) \in Nat /\ DOMAIN log = 1 .. Len(log)
  BY LenProperties DEF Inv, LogsInv
<1>5. CASE ContainsEntry(log, msg[w].prev_index, msg[w].prev_term)
  <2>1. /\ pc' = [pc EXCEPT ![w] = "look"]
        /\ UNCHANGED <<responses, msg, pos>>
    BY <1>5 DEF Contains, Goto
  <2>2. OnlyMoves(w) /\ pc'[w] = "look"
    BY <2>1 DEF Inv, OnlyMoves
  <2>3. Index(w) <= Len(log) + 1
    BY <1>2, <1>3, <1>4, <1>5 DEF ContainsEntry, Index
  <2>4. ThreadInv(w)'
    BY <1>1, <1>2, <1>3, <2>1, <2>2, <2>3 DEF ThreadInv, Index
  <2> QED
    BY <1>1, <2>1, <2>2, <2>4, LogsStay, ThreadSteps
<1>6. CASE ~ContainsEntry(log, msg[w].prev_index, msg[w].prev_term)
  <2>1. Return(w, FALSE, 0)
    BY Zenon, <1>6 DEF Contains
  <2>2. 0 \in Nat /\ 0 <= Len(log)
    BY <1>4
  <2> QED
    BY Zenon, <1>1, <2>1, <2>2, ReturnKeeps
<1> QED
  BY <1>5, <1>6

\* Entries of one term never conflict, wherever threads have put them.
LEMMA NoConflict ==
    ASSUME NEW t, DOMAIN LeaderLog = {t}, NEW m \in Messages,
           \A k, n \in DOMAIN LeaderLog[t] : LeaderLog[t][k].term = LeaderLog[t][n].term,
           Inv, NEW i \in DOMAIN log, NEW n \in 1 .. Len(m.entries)
    PROVE  log[i].term = m.entries[n].term
<1>1. PICK k \in DOMAIN LeaderLog[t] : log[i] = LeaderLog[t][k]
  BY Zenon DEF Inv, LogsInv, Behind
<1>2. m.prev_index + n \in DOMAIN LeaderLog[t]
      /\ m.entries[n] = LeaderLog[t][m.prev_index + n]
  BY Zenon, StretchOfLog DEF Stretch
<1> QED
  BY Zenon, <1>1, <1>2

\* The place of the next entry is read.
LEMMA LookKeeps ==
    ASSUME NEW t, DOMAIN LeaderLog = {t}, Inv, NEW w \in Worker, Look(w),
           \A k, n \in DOMAIN LeaderLog[t] : LeaderLog[t][k].term = LeaderLog[t][n].term
    PROVE  Inv'
<1>1. /\ pc[w] = "look" /\ ThreadInv(w) /\ pos[w] <= Len(msg[w].entries)
      /\ UNCHANGED <<log, responses, msg>>
  BY DEF Look, At, shared, Inv
<1>2. /\ msg[w] \in Messages /\ pos[w] \in 1 .. Len(msg[w].entries) + 1
      /\ Index(w) <= Len(log) + 1
  BY <1>1 DEF ThreadInv
<1>3. msg[w].prev_index \in Nat /\ Len(msg[w].entries) \in Nat
  BY Zenon, <1>2, StretchOfLog DEF Stretch
<1>4. Len(log) \in Nat /\ DOMAIN log = 1 .. Len(log)
  BY LenProperties DEF Inv, LogsInv
<1>5. Index(w) \in Nat /\ 1 <= Index(w) /\ pos[w] \in 1 .. Len(msg[w].entries)
  BY <1>1, <1>2, <1>3 DEF Index
<1>6. CASE /\ Index(w) > Len(log)
           /\ Goto(w, "append") /\ UNCHANGED pos
  <2>1. OnlyMoves(w) /\ pc'[w] = "append"
    BY <1>1, <1>6 DEF Inv, OnlyMoves, Goto
  <2>2. ThreadInv(w)'
    BY <1>1, <1>2, <1>6, <2>1 DEF ThreadInv, Index
  <2> QED
    BY ZenonT(30), <1>1, <2>1, <2>2, LogsStay, ThreadSteps
<1>7. CASE Index(w) <= Len(log) /\ log[Index(w)].term # msg[w].entries[pos[w]].term
  <2>1. Index(w) \in DOMAIN log
    BY <1>4, <1>5, <1>7
  <2>2. log[Index(w)].term = msg[w].entries[pos[w]].term
    BY ZenonT(30), <1>2, <1>5, <2>1, NoConflict
  <2> QED
    BY <1>7, <2>2
<1>8. CASE /\ Index(w) <= Len(log)
           /\ pos' = [pos EXCEPT ![w] = @ + 1] /\ UNCHANGED pc
  <2>1. OnlyMoves(w) /\ pc'[w] = "look" /\ pos'[w] = pos[w] + 1
    BY <1>1, <1>8 DEF Inv, OnlyMoves
  <2>2. pos'[w] \in 1 .. Len(msg[w].entries) + 1 /\ Index(w)' <= Len(log) + 1
    BY SMTT(30), <1>1, <1>2, <1>3, <1>4, <1>5, <1>8, <2>1 DEF Index
  <2>3. ThreadInv(w)'
    BY <1>1, <1>2, <2>1, <2>2 DEF ThreadInv
  <2> QED
    BY <1>1, <2>1, <2>3, LogsStay, ThreadSteps
<1> QED
  BY Zenon, <1>6, <1>7, <1>8 DEF Look

\* An entry is appended at the end of the log, behind its place or at it.
LEMMA AppendKeeps ==
    ASSUME NEW t, DOMAIN LeaderLog = {t}, Inv, NEW w \in Worker, AppendEntry(w)
    PROVE  Inv'
<1> DEFINE e == msg[w].entries[pos[w]]
<1>1. /\ pc[w] = "append" /\ ThreadInv(w) /\ log' = Append(log, e)
      /\ pos' = [pos EXCEPT ![w] = @ + 1] /\ pc' = [pc EXCEPT ![w] = "look"]
      /\ UNCHANGED <<responses, msg>>
  BY DEF AppendEntry, At, Goto, Inv
<1>2. /\ msg[w] \in Messages /\ pos[w] \in 1 .. Len(msg[w].entries) + 1
      /\ pos[w] <= Len(msg[w].entries) /\ Index(w) <= Len(log) + 1
  BY <1>1 DEF ThreadInv
<1>3. Stretch(msg[w].prev_index, msg[w].entries, LeaderLog[t])
  BY Zenon, <1>2, StretchOfLog
<1>4. msg[w].prev_index \in Nat /\ Len(msg[w].entries) \in Nat
  BY Zenon, <1>3 DEF Stretch
<1>5. /\ pos[w] \in 1 .. Len(msg[w].entries)
      /\ Index(w) \in Nat /\ 1 <= Index(w) /\ Index(w) = msg[w].prev_index + pos[w]
  BY <1>2, <1>4 DEF Index
<1>6. Index(w) \in DOMAIN LeaderLog[t] /\ e = LeaderLog[t][Index(w)]
  BY Zenon, <1>3, <1>5 DEF Stretch
<1>7. e \in Entry
  BY <1>3, <1>6, ElementOfSeq, LenProperties DEF Stretch
<1> HIDE DEF e
<1>8. /\ log \in Seq(Entry) /\ Len(log) \in Nat /\ DOMAIN log = 1 .. Len(log)
      /\ \A i \in DOMAIN log : Behind(log, LeaderLog[t], i)
      /\ \A r \in responses : r.match \in Nat /\ r.match <= Len(log)
  BY LenProperties DEF Inv, LogsInv
<1>9. /\ log' \in Seq(Entry) /\ Len(log') = Len(log) + 1
      /\ \A i \in 1 .. Len(log) : log'[i] = log[i]
      /\ log'[Len(log) + 1] = e
  BY <1>1, <1>7, <1>8, AppendProperties
<1>10. ASSUME NEW i \in DOMAIN log'
       PROVE  Behind(log', LeaderLog[t], i)
  <2>0. DOMAIN log' = 1 .. Len(log) + 1
    BY <1>8, <1>9, LenProperties
  <2>1. CASE i \in DOMAIN log
    <3>1. Behind(log, LeaderLog[t], i) /\ log'[i] = log[i]
      BY <1>8, <1>9, <2>1
    <3> QED
      BY Zenon, <3>1 DEF Behind
  <2>2. CASE i = Len(log) + 1
    <3>1. Index(w) \in 1 .. i /\ log'[i] = e
      BY <1>2, <1>5, <1>8, <1>9, <2>2
    <3> QED
      BY Zenon, <1>6, <3>1 DEF Behind
  <2> QED
    BY <1>8, <2>0, <2>1, <2>2
<1>11. LogsInv'
  <2>1. \A r \in responses' : r.match \in Nat /\ r.match <= Len(log')
    BY <1>1, <1>8, <1>9
  <2>2. \A u \in DOMAIN LeaderLog, i \in DOMAIN log' : Behind(log', LeaderLog[u], i)
    BY Zenon, <1>10
  <2> QED
    BY Zenon, <1>9, <2>1, <2>2 DEF LogsInv
<1>12. OnlyMoves(w) /\ pc'[w] = "look" /\ pos'[w] = pos[w] + 1
  BY <1>1 DEF Inv, OnlyMoves
<1>13. pos'[w] \in 1 .. Len(msg[w].entries) + 1 /\ Index(w)' <= Len(log') + 1
  BY SMTT(30), <1>1, <1>2, <1>4, <1>5, <1>8, <1>9, <1>12 DEF Index
<1>14. ThreadInv(w)'
  BY <1>1, <1>2, <1>12, <1>13 DEF ThreadInv
<1>15. Len(log) <= Len(log')
  BY <1>8, <1>9
<1> QED
  BY Zenon, <1>11, <1>12, <1>14, <1>15, ThreadSteps

\* After the last entry the commit indices are compared.
LEMMA CompareKeeps ==
    ASSUME NEW t, DOMAIN LeaderLog = {t}, Inv, NEW w \in Worker, CompareCommit(w)
    PROVE  Inv'
<1>1. /\ pc[w] = "look" /\ ThreadInv(w) /\ pos[w] > Len(msg[w].entries)
      /\ UNCHANGED <<log, responses, msg, pos>>
  BY DEF CompareCommit, At, shared, Inv
<1>2. OnlyMoves(w) /\ pc'[w] \in {"last", "reply"}
  BY DEF Inv, OnlyMoves, CompareCommit, Goto
<1>3. /\ msg[w] \in Messages /\ pos[w] \in 1 .. Len(msg[w].entries) + 1
      /\ Index(w) <= Len(log) + 1
  BY <1>1 DEF ThreadInv
<1>4. msg[w].prev_index \in Nat /\ Len(msg[w].entries) \in Nat
  BY Zenon, <1>3, StretchOfLog DEF Stretch
<1>5. Len(log) \in Nat
  BY LenProperties DEF Inv, LogsInv
<1>6. msg[w].prev_index + Len(msg[w].entries) <= Len(log)
  BY SMTT(30), <1>1, <1>3, <1>4, <1>5 DEF Index
<1>7. ThreadInv(w)'
  BY <1>1, <1>2, <1>3, <1>6 DEF ThreadInv
<1> QED
  BY <1>1, <1>2, <1>7, LogsStay, ThreadSteps

\* The commit index is read and stored.
LEMMA CommitKeeps ==
    ASSUME NEW t, DOMAIN LeaderLog = {t}, Inv, NEW w \in Worker,
           ReadLast(w) \/ StoreCommit(w)
    PROVE  Inv'
<1>1. /\ pc[w] \in {"last", "store"} /\ ThreadInv(w)
      /\ UNCHANGED <<log, responses, msg, pos>>
  BY DEF ReadLast, StoreCommit, At, shared, Inv
<1>2. OnlyMoves(w) /\ pc'[w] \in {"store", "reply"}
  BY DEF Inv, OnlyMoves, ReadLast, StoreCommit, Goto
<1>3. ThreadInv(w)'
  BY <1>1, <1>2 DEF ThreadInv
<1> QED
  BY <1>1, <1>2, <1>3, LogsStay, ThreadSteps

\* The response of success claims what the thread has seen or appended.
LEMMA ReplyKeeps ==
    ASSUME NEW t, DOMAIN LeaderLog = {t}, Inv, NEW w \in Worker, Reply(w)
    PROVE  Inv'
<1>1. pc[w] = "reply" /\ ThreadInv(w) /\ log' = log
  BY DEF Reply, At, shared, Inv
<1>2. msg[w] \in Messages /\ msg[w].prev_index + Len(msg[w].entries) <= Len(log)
  BY <1>1 DEF ThreadInv
<1>3. msg[w].prev_index \in Nat /\ Len(msg[w].entries) \in Nat
  BY Zenon, <1>2, StretchOfLog DEF Stretch
<1>4. msg[w].prev_index + Len(msg[w].entries) \in Nat
  BY <1>3
<1>5. Return(w, TRUE, msg[w].prev_index + Len(msg[w].entries))
  BY Zenon DEF Reply
<1> QED
  BY Zenon, <1>1, <1>2, <1>4, <1>5, ReturnKeeps

\* Every step of any thread, and the timer, keep the invariant.
LEMMA NextKeeps ==
    ASSUME OneTerm, Inv, [Next]_vars
    PROVE  Inv'
<1>0. PICK t \in DOMAIN LeaderLog :
          /\ DOMAIN LeaderLog = {t}
          /\ \A k, n \in DOMAIN LeaderLog[t] : LeaderLog[t][k].term = LeaderLog[t][n].term
  BY Zenon DEF OneTerm
<1>1. ASSUME NEW w \in Worker, Step(w)
      PROVE  Inv'
  <2>1. CASE \E m \in Messages : Take(w, m)
    BY Zenon, <1>0, <2>1, TakeKeeps
  <2>2. CASE Follow(w)
    BY Zenon, <1>0, <2>2, FollowKeeps
  <2>3. CASE Contains(w)
    BY Zenon, <1>0, <2>3, ContainsKeeps
  <2>4. CASE Look(w)
    BY Zenon, <1>0, <2>4, LookKeeps
  <2>5. CASE DeleteEntries(w)
    BY <2>5 DEF DeleteEntries, At, Inv, ThreadInv
  <2>6. CASE AppendEntry(w)
    BY Zenon, <1>0, <2>6, AppendKeeps
  <2>7. CASE CompareCommit(w)
    BY Zenon, <1>0, <2>7, CompareKeeps
  <2>8. CASE ReadLast(w) \/ StoreCommit(w)
    BY Zenon, <1>0, <2>8, CommitKeeps
  <2>9. CASE Reply(w)
    BY Zenon, <1>0, <2>9, ReplyKeeps
  <2> QED
    BY Zenon, <1>1, <2>1, <2>2, <2>3, <2>4, <2>5, <2>6, <2>7, <2>8, <2>9 DEF Step
<1>2. CASE ElectionTimeout \/ UNCHANGED vars
  <2>1. UNCHANGED <<log, responses, pc, msg, pos>>
    BY <1>2 DEF ElectionTimeout, vars, shared
  <2> QED
    BY <2>1 DEF Inv, LogsInv, ThreadInv, Index
<1> QED
  BY Zenon, <1>1, <1>2 DEF Next

\* However many threads run the handler at once, and whenever the event loop thread
\* raises the term: while one leader sends entries of one term, no AppendEntries
\* response claims an index that the log does not reach, although match_index is
\* counted from the message, and entries that two threads append twice only move
\* behind their place.
THEOREM ThreadsClaimWhatIsHeld == Spec => [](ClaimedIsHeld /\ ShiftedOnlyBack)
<1>1. CASE ~OneTerm
  <2>1. ClaimedIsHeld /\ ShiftedOnlyBack
    BY <1>1 DEF ClaimedIsHeld, ShiftedOnlyBack
  <2> QED
    BY <2>1, PTL
<1>2. CASE OneTerm
  <2>1. Init => Inv
    <3> SUFFICES ASSUME Init
                 PROVE  Inv
      OBVIOUS
    <3>1. LogsInv
      BY EmptySeq DEF Init, LogsInv
    <3> QED
      BY <3>1 DEF Init, Inv, ThreadInv
  <2>2. Inv /\ [Next]_vars => Inv'
    BY <1>2, NextKeeps
  <2>3. Inv => ClaimedIsHeld /\ ShiftedOnlyBack
    BY DEF Inv, LogsInv, Behind, ClaimedIsHeld, ShiftedOnlyBack
  <2> QED
    BY <2>1, <2>2, <2>3, PTL DEF Spec
<1> QED
  BY <1>1, <1>2
=============================================================================
