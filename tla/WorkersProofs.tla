---------------------------- MODULE WorkersProofs ---------------------------
(***************************************************************************)
(* One worker thread runs handle_append_entries as if it were one step:    *)
(* the steps of Workers implement Follower, for all logs and messages.     *)
(*                                                                         *)
(* The invariant has a clause for each place of the handler.  The merge    *)
(* loop has either found every entry so far in the log and changed         *)
(* nothing (Untouched), or it has met the first entry that is not there,   *)
(* cut the log before it and appended from it on (Replaced).  When the     *)
(* loop ends, both are what MergeEntries computes at once.                 *)
(***************************************************************************)
EXTENDS Workers, SequenceTheorems, TLAPS

\* Facts of arithmetic
LEMMA AtMost ==
    ASSUME NEW a \in Nat, NEW b \in Nat, a <= b
    PROVE  ~(a > b)
OBVIOUS

\* Likewise
LEMMA Above ==
    ASSUME NEW a \in Nat, NEW b \in Nat, a > b
    PROVE  ~(a <= b)
OBVIOUS

\* Likewise
LEMMA NextPosition ==
    ASSUME NEW k \in Nat \ {0}, NEW n \in Nat, k <= n
    PROVE  k + 1 <= n + 1 /\ k + 1 # 0 /\ k + 1 \in Nat
OBVIOUS

\* The part of a log from index a to index b is a log.
LEMMA SubSeqIsLog ==
    ASSUME NEW E, NEW l \in Seq(E), NEW a \in Int, NEW b \in Int,
           1 <= a, b <= Len(l)
    PROVE  SubSeq(l, a, b) \in Seq(E)
<1>1. \A i \in a .. b : l[i] \in E
  <2>1. \A i \in 1 .. Len(l) : l[i] \in E
    BY ElementOfSeq
  <2> QED
    BY <2>1, LenProperties
<1> QED
  BY <1>1, SubSeqProperties

\* The first position whose place is empty or taken by another term.
FirstConflict(l, prev, entries, f) ==
    /\ f \in Conflicts(l, prev, entries)
    /\ \A n \in Conflicts(l, prev, entries) : f <= n

\* Entries 1 .. k-1 were all found in the log.
Untouched(l, prev, entries, k, new) ==
    /\ new = l
    /\ \A n \in 1 .. k - 1 : n \notin Conflicts(l, prev, entries)

\* The log was cut before the first conflict f and entries f .. k-1 appended.
Replaced(l, prev, entries, k, new) ==
    \E f \in 1 .. k - 1 :
        /\ FirstConflict(l, prev, entries, f)
        /\ Len(new) = prev + k - 1
        /\ \A i \in 1 .. prev + f - 1 : new[i] = l[i]
        /\ \A n \in f .. k - 1 : new[prev + n] = entries[n]

\* The log was cut before the first conflict k, and nothing appended yet.
Cut(l, prev, entries, k, new) ==
    /\ FirstConflict(l, prev, entries, k)
    /\ Len(new) = prev + k - 1
    /\ \A i \in 1 .. prev + k - 1 : new[i] = l[i]

-----------------------------------------------------------------------------
\* What a leader sends is well formed (send_proposals_to_followers,
\* send_heartbeat).
LEMMA MessagesAreTyped ==
    ASSUME NEW m \in Messages
    PROVE  /\ m.term \in Nat /\ m.prev_index \in Nat /\ m.commit \in Nat
           /\ m.entries \in Seq(Entry)
<1>1. PICK t \in DOMAIN LeaderLog :
          m \in {AppendEntries(t, s[1], s[2], commit) :
                    s \in Stretches(LeaderLog[t]), commit \in 0 .. LeaderCommit[t]}
  BY DEF Messages
<1>2. PICK s \in Stretches(LeaderLog[t]), commit \in 0 .. LeaderCommit[t] :
          m = AppendEntries(t, s[1], s[2], commit)
  BY <1>1
<1>3. /\ LeaderLog[t] \in Seq(Entry) /\ t \in Nat
      /\ LeaderCommit[t] \in 0 .. Len(LeaderLog[t])
  BY ZenonT(30), WorkersAssumption DEF Entry
<1>4. s[1] \in Nat /\ s[2] \in Nat /\ s[2] <= Len(LeaderLog[t])
  BY <1>3, LenProperties DEF Stretches
<1>5. SubSeq(LeaderLog[t], s[1] + 1, s[2]) \in Seq(Entry)
  BY SMTT(30), <1>3, <1>4, SubSeqIsLog
<1>6. commit \in Nat
  BY <1>3, LenProperties
<1> QED
  BY <1>2, <1>3, <1>4, <1>5, <1>6 DEF AppendEntries

\* The log reaches at least to the place of the first conflict.
LEMMA PlaceOfConflict ==
    ASSUME NEW E, NEW l \in Seq(E), NEW entries \in Seq(E), NEW prev \in Nat,
           NEW term, ContainsEntry(l, prev, term),
           NEW f \in Nat \ {0}, f <= Len(entries),
           \A n \in 1 .. f - 1 : n \notin Conflicts(l, prev, entries)
    PROVE  prev + f - 1 <= Len(l)
<1>1. CASE f = 1
  BY <1>1, LenProperties DEF ContainsEntry
<1>2. CASE f # 1
  <2>1. f - 1 \in 1 .. f - 1 /\ f - 1 \in 1 .. Len(entries)
    BY <1>2, LenProperties
  <2>2. prev + (f - 1) \in DOMAIN l
    BY <2>1, LenProperties DEF Conflicts
  <2> QED
    BY <2>2, LenProperties
<1> QED
  BY <1>1, <1>2

\* deleteEntriesStartingFrom leaves a prefix of the log.
LEMMA PrefixIsLog ==
    ASSUME NEW E, NEW l \in Seq(E), NEW n \in Nat, n <= Len(l)
    PROVE  /\ SubSeq(l, 1, n) \in Seq(E) /\ Len(SubSeq(l, 1, n)) = n
           /\ \A i \in 1 .. n : SubSeq(l, 1, n)[i] = l[i]
<1>1. SubSeq(l, 1, n) \in Seq(E)
  BY SubSeqIsLog
<1>2. \A i \in 1 .. n : l[i] \in E
  BY ElementOfSeq, LenProperties
<1> QED
  BY <1>1, <1>2, SubSeqProperties

\* At the end of the loop the log is what MergeEntries says.
LEMMA UntouchedIsMerged ==
    ASSUME NEW E, NEW l \in Seq(E), NEW entries \in Seq(E), NEW prev \in Nat,
           NEW new, Untouched(l, prev, entries, Len(entries) + 1, new)
    PROVE  new = MergeEntries(l, prev, entries)
<1>1. Conflicts(l, prev, entries) = {}
  <2>1. \A n \in 1 .. Len(entries) : n \notin Conflicts(l, prev, entries)
    BY LenProperties DEF Untouched
  <2> QED
    BY <2>1, LenProperties DEF Conflicts
<1> QED
  BY <1>1 DEF MergeEntries, Untouched

\* A log that is replaced up to the last entry is the one MergeEntries computes.
LEMMA ReplacedIsMerged ==
    ASSUME NEW E, NEW l \in Seq(E), NEW entries \in Seq(E), NEW prev \in Nat,
           NEW term, ContainsEntry(l, prev, term),
           NEW new \in Seq(E), Replaced(l, prev, entries, Len(entries) + 1, new)
    PROVE  new = MergeEntries(l, prev, entries)
<1> DEFINE C == Conflicts(l, prev, entries)
<1>1. PICK f \in 1 .. Len(entries) :
          /\ FirstConflict(l, prev, entries, f)
          /\ Len(new) = prev + Len(entries)
          /\ \A i \in 1 .. prev + f - 1 : new[i] = l[i]
          /\ \A n \in f .. Len(entries) : new[prev + n] = entries[n]
  <2>1. Len(entries) \in Nat
    BY LenProperties
  <2> QED
    BY <2>1 DEF Replaced
<1>2. f \in C /\ \A n \in C : f <= n
  BY <1>1 DEF FirstConflict
<1>3. C \subseteq 1 .. Len(entries) /\ C \subseteq Nat
  BY LenProperties DEF Conflicts
<1> HIDE DEF C
<1>4. f = CHOOSE n \in C : \A k \in C : n <= k
  <2>1. \A n \in C : (\A k \in C : n <= k) => n = f
    <3> SUFFICES ASSUME NEW n \in C, \A k \in C : n <= k
                 PROVE  n = f
      OBVIOUS
    <3>1. n <= f /\ f <= n /\ n \in Nat /\ f \in Nat
      BY <1>2, <1>3
    <3> QED
      BY <3>1
  <2> QED
    BY ZenonT(30), <1>2, <2>1
<1>5. MergeEntries(l, prev, entries) =
          SubSeq(l, 1, prev + f - 1) \o SubSeq(entries, f, Len(entries))
  BY ZenonT(30), <1>2, <1>4 DEF MergeEntries, C
<1> DEFINE A == SubSeq(l, 1, prev + f - 1)
           B == SubSeq(entries, f, Len(entries))
<1>6. prev + f - 1 <= Len(l)
  <2>1. \A n \in 1 .. f - 1 : n \notin C
    BY <1>2, <1>1, LenProperties
  <2>2. f \in Nat \ {0} /\ f <= Len(entries)
    BY <1>1, LenProperties
  <2> QED
    BY <2>1, <2>2, PlaceOfConflict DEF C
<1>7. /\ A \in Seq(E) /\ Len(A) = prev + f - 1
      /\ \A i \in 1 .. Len(A) : A[i] = l[i]
  <2>1. prev + f - 1 \in Nat
    BY <1>1, LenProperties
  <2> QED
    BY <1>6, <2>1, PrefixIsLog
<1>8. /\ B \in Seq(E) /\ Len(B) = Len(entries) - f + 1
      /\ \A i \in 1 .. Len(B) : B[i] = entries[f + i - 1]
  <2>1. f \in Nat /\ Len(entries) \in Nat /\ f >= 1 /\ f <= Len(entries)
    BY <1>1, LenProperties
  <2>2. B \in Seq(E)
    BY <2>1, SubSeqIsLog
  <2> QED
    BY <2>1, <2>2, SubSeqProperties, ElementOfSeq
<1> HIDE DEF A, B
<1>9. /\ A \o B \in Seq(E) /\ Len(A \o B) = prev + Len(entries)
      /\ \A i \in 1 .. prev + Len(entries) :
            (A \o B)[i] = IF i <= Len(A) THEN A[i] ELSE B[i - Len(A)]
  <2>1. Len(A) + Len(B) = prev + Len(entries)
    BY <1>7, <1>8, <1>1, LenProperties
  <2>2. /\ A \o B \in Seq(E) /\ Len(A \o B) = Len(A) + Len(B)
        /\ \A i \in 1 .. Len(A) + Len(B) :
              (A \o B)[i] = IF i <= Len(A) THEN A[i] ELSE B[i - Len(A)]
    <3>1. A \in Seq(E) /\ B \in Seq(E)
      BY <1>7, <1>8
    <3> QED
      BY <3>1, ConcatProperties, Zenon
  <2> QED
    BY <2>1, <2>2
<1>10. \A i \in 1 .. Len(new) : new[i] = (A \o B)[i]
  <2> SUFFICES ASSUME NEW i \in 1 .. Len(new)
               PROVE  new[i] = (A \o B)[i]
    BY ZenonT(30)
  <2>1. f \in Nat /\ f >= 1 /\ Len(entries) \in Nat /\ i \in Nat
    BY <1>1, LenProperties
  <2>2. CASE i <= prev + f - 1
    <3>1. i \in 1 .. prev + f - 1 /\ i \in 1 .. prev + Len(entries)
      BY <2>1, <2>2, <1>1
    <3>2. new[i] = l[i]
      BY SMTT(30), <3>1, <1>1
    <3>3. i \in 1 .. Len(A) /\ i <= Len(A)
      BY <3>1, <2>2, <1>7
    <3>4. A[i] = l[i]
      BY <3>3, <1>7
    <3> QED
      BY <3>1, <3>2, <3>3, <3>4, <1>9
  <2>3. CASE i > prev + f - 1
    <3>1. /\ i - prev \in f .. Len(entries)
          /\ i - Len(A) \in 1 .. Len(B)
          /\ f + (i - Len(A)) - 1 = i - prev
          /\ prev + (i - prev) = i
      BY <2>1, <2>3, <1>1, <1>7, <1>8
    <3>2. new[i] = entries[i - prev]
      BY ZenonT(30), <3>1, <1>1
    <3>3. B[i - Len(A)] = entries[i - prev]
      BY ZenonT(30), <3>1, <1>8
    <3>4. i \in 1 .. prev + Len(entries) /\ ~(i <= Len(A))
      BY SMTT(30), <1>1, <2>3, <1>7, <2>1
    <3>5. (A \o B)[i] = B[i - Len(A)]
      BY <3>4, <1>9
    <3> QED
      BY <3>2, <3>3, <3>5
  <2>4. i <= prev + f - 1 \/ i > prev + f - 1
    BY <2>1
  <2> QED
    BY ZenonT(30), <2>2, <2>3, <2>4
<1>11. new = A \o B
  BY ZenonT(30), <1>1, <1>9, <1>10, SeqEqual
<1> QED
  BY <1>5, <1>11 DEF A, B

\* appendEntry at the end of a log that was cut, or cut and filled, before.
LEMMA AppendContinues ==
    ASSUME NEW E, NEW l, NEW entries \in Seq(E), NEW prev \in Nat,
           NEW k \in Nat \ {0}, k <= Len(entries), NEW new \in Seq(E),
           \/ Cut(l, prev, entries, k, new)
           \/ Replaced(l, prev, entries, k, new)
    PROVE  /\ Append(new, entries[k]) \in Seq(E)
           /\ Replaced(l, prev, entries, k + 1, Append(new, entries[k]))
<1> DEFINE next == Append(new, entries[k])
<1>1. PICK f \in 1 .. k :
          /\ FirstConflict(l, prev, entries, f)
          /\ Len(new) = prev + k - 1
          /\ \A i \in 1 .. prev + f - 1 : new[i] = l[i]
          /\ \A n \in f .. k - 1 : new[prev + n] = entries[n]
  <2>1. CASE Cut(l, prev, entries, k, new)
    <3>1. k \in 1 .. k /\ k .. k - 1 = {}
      OBVIOUS
    <3> QED
      BY ZenonT(30), <2>1, <3>1 DEF Cut
  <2>2. CASE Replaced(l, prev, entries, k, new)
    <3>1. 1 .. k - 1 \subseteq 1 .. k
      OBVIOUS
    <3> QED
      BY <2>2, <3>1 DEF Replaced
  <2> QED
    BY <2>1, <2>2
<1>2. entries[k] \in E
  BY ElementOfSeq, LenProperties
<1>3. /\ next \in Seq(E) /\ Len(next) = Len(new) + 1
      /\ \A i \in 1 .. Len(new) : next[i] = new[i]
      /\ next[Len(new) + 1] = entries[k]
  BY <1>2, AppendProperties
<1> HIDE DEF next
<1>4. Len(next) = prev + (k + 1) - 1
  BY <1>1, <1>3
<1>5. ASSUME NEW i \in 1 .. prev + f - 1
      PROVE  next[i] = l[i]
  <2>1. i \in 1 .. Len(new)
    BY SMTT(30), <1>1
  <2> QED
    BY <2>1, <1>1, <1>3
<1>6. ASSUME NEW n \in f .. (k + 1) - 1
      PROVE  next[prev + n] = entries[n]
  <2>1. CASE n = k
    <3> Len(new) = prev + k - 1
      BY Zenon, <1>1
    <3>1. prev + n = Len(new) + 1
      BY SMTT(30), <2>1
    <3>2. next[Len(new) + 1] = entries[k]
      BY Zenon, <1>3
    <3> QED
      BY Zenon, <3>1, <3>2, <2>1
  <2>2. CASE n # k
    <3>1. n \in f .. k - 1 /\ prev + n \in 1 .. Len(new)
      BY SMTT(30), <2>2, <1>1
    <3> QED
      BY <3>1, <1>1, <1>3
  <2> QED
    BY <2>1, <2>2
<1>7. f \in 1 .. (k + 1) - 1
  BY <1>1
<1>8. Replaced(l, prev, entries, k + 1, next)
  BY SMTT(30), <1>1, <1>4, <1>5, <1>6, <1>7 DEF Replaced
<1> QED
  BY <1>3, <1>8 DEF next

\* getEntry finds the entry: the loop goes on with the log as it was.
LEMMA FoundContinues ==
    ASSUME NEW E, NEW l \in Seq(E), NEW entries \in Seq(E), NEW prev \in Nat,
           NEW k \in Nat \ {0}, k <= Len(entries),
           Untouched(l, prev, entries, k, l),
           prev + k <= Len(l), l[prev + k].term = entries[k].term
    PROVE  Untouched(l, prev, entries, k + 1, l)
<1>1. prev + k \in DOMAIN l
  BY LenProperties
<1>2. k \notin Conflicts(l, prev, entries)
  BY <1>1 DEF Conflicts
<1>3. ASSUME NEW n \in 1 .. (k + 1) - 1
      PROVE  n \notin Conflicts(l, prev, entries)
  <2>1. n = k \/ n \in 1 .. k - 1
    OBVIOUS
  <2> QED
    BY <1>2, <2>1 DEF Untouched
<1> QED
  BY <1>3 DEF Untouched

\* getEntry finds nothing, or another term: this is the first conflict.
LEMMA ConflictIsFirst ==
    ASSUME NEW E, NEW l \in Seq(E), NEW entries \in Seq(E), NEW prev \in Nat,
           NEW k \in Nat \ {0}, k <= Len(entries),
           Untouched(l, prev, entries, k, l),
           prev + k <= Len(l) => l[prev + k].term # entries[k].term
    PROVE  FirstConflict(l, prev, entries, k)
<1>1. k \in Conflicts(l, prev, entries)
  BY LenProperties DEF Conflicts
<1>2. ASSUME NEW n \in Conflicts(l, prev, entries)
      PROVE  k <= n
  <2>1. n \in Nat \ {0}
    BY SMTT(30), LenProperties DEF Conflicts
  <2>2. n \notin 1 .. k - 1
    BY DEF Untouched
  <2> QED
    BY <2>1, <2>2
<1> QED
  BY <1>1, <1>2 DEF FirstConflict
-----------------------------------------------------------------------------
Label == {"idle", "follow", "contains", "look", "delete", "append",
          "last", "store", "reply"}

TypeInv ==
    /\ current_term \in Nat /\ commitIndex \in Nat /\ log \in Seq(Entry)
    /\ pc \in [Worker -> Label] /\ pos \in [Worker -> Nat] /\ limit \in [Worker -> Nat]
    /\ msg \in [Worker -> Messages \union {<< >>}]
    /\ start.term \in Nat /\ start.commit \in Nat /\ start.log \in Seq(Entry)

\* What worker w may rely on at each place of the handler when it is alone:
\* what it has read and written outside the merge loop,
Entered(w) ==
    /\ pc[w] # "idle" => msg[w] \in Messages /\ start.term <= msg[w].term /\ pos[w] # 0
    /\ pc[w] = "follow" => current_term = start.term
    /\ pc[w] \in {"follow", "contains"} => log = start.log /\ pos[w] = 1
    /\ pc[w] \notin {"idle", "follow"} => current_term = msg[w].term
    /\ pc[w] \notin {"idle", "reply"} => commitIndex = start.commit
    /\ pc[w] \notin {"idle", "follow", "contains"} =>
           ContainsEntry(start.log, msg[w].prev_index, msg[w].prev_term)

\* what the merge loop has done so far,
Merging(w) ==
    LET m == msg[w]
        k == pos[w]
    IN  /\ pc[w] = "look" =>
               /\ k <= Len(m.entries) + 1
               /\ \/ Untouched(start.log, m.prev_index, m.entries, k, log)
                  \/ Replaced(start.log, m.prev_index, m.entries, k, log)
        /\ pc[w] = "delete" =>
               /\ k <= Len(m.entries)
               /\ FirstConflict(start.log, m.prev_index, m.entries, k)
               /\ log = start.log /\ m.prev_index + k <= Len(log)
        /\ pc[w] = "append" =>
               /\ k <= Len(m.entries)
               /\ \/ Cut(start.log, m.prev_index, m.entries, k, log)
                  \/ Replaced(start.log, m.prev_index, m.entries, k, log)

\* and what is left to do after it.
Merged(w) ==
    LET m == msg[w]
    IN  /\ pc[w] \in {"last", "store", "reply"} =>
               log = MergeEntries(start.log, m.prev_index, m.entries)
        /\ pc[w] \in {"last", "store"} => m.commit > commitIndex
        /\ pc[w] = "store" =>
               limit[w] = IF m.commit <= Len(log) THEN m.commit ELSE Len(log)
        /\ pc[w] = "reply" =>
               commitIndex = Atomic!Committed(start.commit, m.commit, Len(log))

HandlerInv(w) == Entered(w) /\ Merging(w) /\ Merged(w)

Inv == TypeInv /\ \A w \in Worker : HandlerInv(w)

\* Threads that have taken nothing satisfy the invariant.
LEMMA InitHolds ==
    Init => Inv
<1> SUFFICES ASSUME Init PROVE Inv
  OBVIOUS
<1>1. << >> \in Seq(Entry)
  BY EmptySeq
<1>2. TypeInv
  BY SMTT(30), <1>1 DEF Init, TypeInv, Label, Snapshot
<1>3. ASSUME NEW w \in Worker PROVE HandlerInv(w)
  <2>1. pc[w] = "idle"
    BY DEF Init
  <2> QED
    BY <2>1 DEF HandlerInv, Entered, Merging, Merged
<1> QED
  BY <1>2, <1>3 DEF Inv

\* So does the thread that has taken a message,
LEMMA TakeKeeps ==
    ASSUME NEW w, Worker = {w}, Inv, NEW m \in Messages, Take(w, m)
    PROVE  Inv'
<1>1. TypeInv /\ HandlerInv(w)
  BY DEF Inv
<1>2. TypeInv'
  <2>1. /\ current_term' \in Nat /\ commitIndex' \in Nat /\ log' \in Seq(Entry)
        /\ start'.term \in Nat /\ start'.commit \in Nat /\ start'.log \in Seq(Entry)
        /\ limit' \in [Worker -> Nat]
    BY <1>1 DEF TypeInv, Take, shared, Snapshot
  <2>2. /\ pc' \in [Worker -> Label] /\ pos' \in [Worker -> Nat]
        /\ msg' \in [Worker -> Messages \union {<< >>}]
    <3>1. CASE m.term < current_term
      BY <1>1, <3>1 DEF TypeInv, Take
    <3>2. CASE ~(m.term < current_term)
      BY <1>1, <3>2 DEF TypeInv, Label, Take, Goto
    <3> QED
      BY SMTT(30), <3>1, <3>2
  <2> QED
    BY SMTT(30), <2>1, <2>2 DEF TypeInv
<1>3. CASE m.term < current_term
  <2>1. pc'[w] = "idle"
    BY <1>3 DEF Take, At
  <2> QED
    BY ZenonT(30), <1>2, <2>1 DEF Inv, HandlerInv, Entered, Merging, Merged
<1>4. CASE ~(m.term < current_term)
  <2>1. /\ pc'[w] = "follow" /\ msg'[w] = m /\ pos'[w] = 1
        /\ current_term' = start'.term /\ log' = start'.log
        /\ commitIndex' = start'.commit /\ start'.term = current_term
    BY SMTT(30), <1>1, <1>4 DEF Take, Goto, shared, Snapshot, TypeInv
  <2>2. start'.term <= m.term
    BY <2>1, <1>1, <1>4, MessagesAreTyped DEF TypeInv
  <2>3. HandlerInv(w)'
    <3>e. Entered(w)'
      BY SMTT(30), <2>1, <2>2 DEF HandlerInv, Entered
    <3>m. Merging(w)'
      BY SMTT(30), <2>1, <2>2 DEF HandlerInv, Merging
    <3>d. Merged(w)'
      BY <2>1, <2>2 DEF HandlerInv, Merged
    <3> QED
      BY SMTT(30), <3>e, <3>m, <3>d DEF HandlerInv
  <2> QED
    BY SMTT(30), <1>2, <2>3 DEF Inv
<1> QED
  BY <1>3, <1>4

\* has followed its leader,
LEMMA FollowKeeps ==
    ASSUME NEW w, Worker = {w}, Inv, Follow(w)
    PROVE  Inv'
<1>1. TypeInv /\ HandlerInv(w) /\ pc[w] = "follow"
  BY DEF Inv, Follow, At
<1>2. msg[w] \in Messages /\ msg[w].term \in Nat
  BY SMTT(30), <1>1, MessagesAreTyped DEF HandlerInv, Entered
<1>3. TypeInv'
  BY <1>1, <1>2 DEF TypeInv, Label, Follow, Goto
<1>4. /\ pc'[w] = "contains" /\ current_term' = msg[w].term
      /\ UNCHANGED <<log, commitIndex, msg, pos, limit, start>>
  BY <1>1 DEF Follow, Goto, TypeInv
<1>5. HandlerInv(w)'
  <2>e. Entered(w)'
    BY <1>1, <1>4 DEF HandlerInv, Entered
  <2>m. Merging(w)'
    BY ZenonT(30), <1>1, <1>4 DEF HandlerInv, Merging
  <2>d. Merged(w)'
    BY ZenonT(30), <1>1, <1>4 DEF HandlerInv, Merged
  <2> QED
    BY SMTT(30), <2>e, <2>m, <2>d DEF HandlerInv
<1> QED
  BY <1>3, <1>5 DEF Inv

\* has returned,
LEMMA ReturnKeeps ==
    ASSUME NEW w, Worker = {w}, Inv, NEW success, NEW match,
           Return(w, success, match), UNCHANGED <<shared, start>>
    PROVE  Inv'
<1>1. TypeInv
  BY DEF Inv
<1>2. TypeInv'
  BY <1>1 DEF TypeInv, Label, Return, Goto, shared
<1>3. pc'[w] = "idle"
  BY <1>1 DEF TypeInv, Label, Return, Goto
<1> QED
  BY ZenonT(30), <1>2, <1>3 DEF Inv, HandlerInv, Entered, Merging, Merged

\* has looked for the previous entry,
LEMMA ContainsKeeps ==
    ASSUME NEW w, Worker = {w}, Inv, Contains(w)
    PROVE  Inv'
<1>1. TypeInv /\ HandlerInv(w) /\ pc[w] = "contains"
  BY DEF Inv, Contains, At
<1> DEFINE m == msg[w]
<1>2. CASE ContainsEntry(log, m.prev_index, m.prev_term)
  <2>1. /\ pc'[w] = "look"
        /\ UNCHANGED <<current_term, log, commitIndex, msg, pos, limit, start>>
    BY SMTT(30), <1>1, <1>2 DEF Contains, Goto, TypeInv, shared
  <2>2. TypeInv'
    BY <1>1, <1>2 DEF TypeInv, Label, Contains, Goto, shared
  <2>3. m.entries \in Seq(Entry)
    BY ZenonT(30), <1>1, MessagesAreTyped DEF HandlerInv, Entered
  <2>4. /\ pos[w] = 1 /\ log = start.log /\ pos[w] <= Len(m.entries) + 1
    <3>1. pos[w] = 1 /\ log = start.log
      BY ZenonT(30), <1>1 DEF HandlerInv, Entered
    <3>2. Len(m.entries) \in Nat
      BY <2>3, LenProperties
    <3> QED
      BY <3>1, <3>2
  <2>5. Untouched(start.log, m.prev_index, m.entries, pos[w], log)
    BY <2>4 DEF Untouched
  <2>6. HandlerInv(w)'
    <3>e. Entered(w)'
      BY ZenonT(30), <1>1, <1>2, <2>1, <2>4, <2>5 DEF HandlerInv, Entered
    <3>m. Merging(w)'
      BY ZenonT(30), <1>1, <1>2, <2>1, <2>4, <2>5 DEF HandlerInv, Merging
    <3>d. Merged(w)'
      BY ZenonT(30), <1>1, <1>2, <2>1, <2>4, <2>5 DEF HandlerInv, Merged
    <3> QED
      BY <3>e, <3>m, <3>d DEF HandlerInv
  <2> QED
    BY <2>2, <2>6 DEF Inv
<1>3. CASE ~ContainsEntry(log, m.prev_index, m.prev_term)
  BY ZenonT(30), <1>3, ReturnKeeps DEF Contains
<1> QED
  BY <1>2, <1>3

\* has looked at an entry,
LEMMA LookKeeps ==
    ASSUME NEW w, Worker = {w}, Inv, Look(w)
    PROVE  Inv'
<1> DEFINE m == msg[w]
           k == pos[w]
           l == start.log
<1>1. TypeInv /\ HandlerInv(w) /\ pc[w] = "look" /\ k <= Len(m.entries)
  BY SMTT(30) DEF Inv, Look, At
<1>2. /\ m \in Messages /\ m.prev_index \in Nat /\ m.entries \in Seq(Entry)
      /\ k \in Nat \ {0} /\ l \in Seq(Entry) /\ log \in Seq(Entry)
      /\ Len(log) \in Nat
  BY SMTT(30), <1>1, MessagesAreTyped, LenProperties DEF HandlerInv, Entered, TypeInv
<1>3. /\ ContainsEntry(l, m.prev_index, m.prev_term)
      /\ \/ Untouched(l, m.prev_index, m.entries, k, log)
         \/ Replaced(l, m.prev_index, m.entries, k, log)
  BY ZenonT(30), <1>1 DEF HandlerInv, Entered, Merging
<1>4. Replaced(l, m.prev_index, m.entries, k, log) => Len(log) = m.prev_index + k - 1
  BY SMTT(30) DEF Replaced
<1>5. UNCHANGED <<current_term, log, commitIndex, msg, limit, start>>
  BY DEF Look, shared
<1>6. TypeInv'
  <2>1. pc' \in [Worker -> Label] /\ pos' \in [Worker -> Nat]
    BY SMTT(30), <1>1 DEF TypeInv, Label, Look, Goto
  <2> QED
    BY SMTT(30), <1>1, <1>5, <2>1 DEF TypeInv
<1>7. HandlerInv(w)'
  <2>a. /\ pc \in [Worker -> Label] /\ pos \in [Worker -> Nat] /\ w \in Worker
        /\ Index(w) \in Nat /\ Len(log) \in Nat
    BY SMTT(30), <1>1, <1>2 DEF TypeInv, Index
  <2>1. CASE Index(w) > Len(log)
    <3>1. pc'[w] = "append" /\ pos' = pos
      <4>1. ~(Index(w) <= Len(log))
        BY ZenonT(30), <2>a, <2>1, Above
      <4> QED
        BY Zenon, <2>a, <4>1 DEF Look, Goto
    <3>2. Cut(l, m.prev_index, m.entries, k, log)
          \/ Replaced(l, m.prev_index, m.entries, k, log)
      <4>1. CASE Untouched(l, m.prev_index, m.entries, k, log)
        <5>1. log = l /\ \A n \in 1 .. k - 1 : n \notin Conflicts(l, m.prev_index, m.entries)
          BY SMTT(30), <4>1 DEF Untouched
        <5>2. m.prev_index + k > Len(l)
          BY <2>1, <5>1 DEF Index
        <5>3. m.prev_index + k - 1 <= Len(l)
          BY ZenonT(30), <1>1, <1>2, <1>3, <5>1, PlaceOfConflict
        <5>4. FirstConflict(l, m.prev_index, m.entries, k)
          BY SMTT(30), <1>1, <1>2, <4>1, <5>1, <5>2, ConflictIsFirst
        <5>5. Len(log) = m.prev_index + k - 1
          <6>1. Len(l) \in Nat /\ m.prev_index \in Nat /\ k \in Nat
            BY <1>2, <5>1
          <6>2. Len(l) = m.prev_index + k - 1
            BY SMTT(30), <5>2, <5>3, <6>1
          <6> QED
            BY <5>1, <6>2
        <5> QED
          BY SMTT(30), <5>1, <5>4, <5>5 DEF Cut
      <4> QED
        BY ZenonT(30), <1>3, <4>1
    <3> QED
      <4>e. Entered(w)'
        BY ZenonT(30), <1>1, <1>5, <3>1, <3>2 DEF HandlerInv, Entered
      <4>m. Merging(w)'
        BY ZenonT(30), <1>1, <1>5, <3>1, <3>2 DEF HandlerInv, Merging
      <4>d. Merged(w)'
        BY ZenonT(30), <1>1, <1>5, <3>1, <3>2 DEF HandlerInv, Merged
      <4> QED
        BY <4>e, <4>m, <4>d DEF HandlerInv
  <2>2. CASE Index(w) <= Len(log)
    <3>1. Untouched(l, m.prev_index, m.entries, k, log) /\ log = l
      BY SMTT(30), <1>2, <1>3, <1>4, <2>2 DEF Index, Untouched
    <3>2. CASE log[Index(w)].term # m.entries[k].term
      <4>1. pc'[w] = "delete" /\ pos' = pos
        <5>1. ~(Index(w) > Len(log))
          BY Zenon, <2>2, <2>a, AtMost
        <5> QED
          BY Zenon, <2>a, <3>2, <5>1 DEF Look, Goto
      <4>2. FirstConflict(l, m.prev_index, m.entries, k)
        BY ZenonT(30), <1>1, <1>2, <3>1, <3>2, ConflictIsFirst DEF Index
      <4> QED
        <5>e. Entered(w)'
          BY ZenonT(30), <1>1, <1>5, <2>2, <3>1, <4>1, <4>2
             DEF HandlerInv, Entered, Index
        <5>m. Merging(w)'
          BY ZenonT(30), <1>1, <1>5, <2>2, <3>1, <4>1, <4>2
             DEF HandlerInv, Merging, Index
        <5>d. Merged(w)'
          BY ZenonT(30), <1>1, <1>5, <2>2, <3>1, <4>1, <4>2
             DEF HandlerInv, Merged, Index
        <5> QED
          BY <5>e, <5>m, <5>d DEF HandlerInv
    <3>3. CASE log[Index(w)].term = m.entries[k].term
      <4>1. pc'[w] = "look" /\ pos'[w] = k + 1
        <5>1. ~(Index(w) > Len(log))
          BY Zenon, <2>2, <2>a, AtMost
        <5>2. pc' = pc /\ pos' = [pos EXCEPT ![w] = @ + 1]
          BY Zenon, <2>a, <3>3, <5>1 DEF Look
        <5> QED
          BY Zenon, <1>1, <2>a, <5>2
      <4>2. Untouched(l, m.prev_index, m.entries, k + 1, log)
        BY ZenonT(30), <1>1, <1>2, <2>2, <3>1, <3>3, FoundContinues DEF Index
      <4>3. k + 1 <= Len(m.entries) + 1 /\ k + 1 # 0
        BY SMTT(30), <1>1, <1>2, LenProperties
      <4> QED
        <5>e. Entered(w)'
          BY ZenonT(30), <1>1, <1>5, <4>1, <4>2, <4>3 DEF HandlerInv, Entered
        <5>m. Merging(w)'
          BY ZenonT(30), <1>1, <1>5, <4>1, <4>2, <4>3 DEF HandlerInv, Merging
        <5>d. Merged(w)'
          BY ZenonT(30), <1>1, <1>5, <4>1, <4>2, <4>3 DEF HandlerInv, Merged
        <5> QED
          BY <5>e, <5>m, <5>d DEF HandlerInv
    <3> QED
      BY <3>2, <3>3
  <2> QED
    BY <2>1, <2>2, <1>2 DEF Index
<1> QED
  BY <1>6, <1>7 DEF Inv
\* has cut the log,
LEMMA DeleteKeeps ==
    ASSUME NEW w, Worker = {w}, Inv, DeleteEntries(w)
    PROVE  Inv'
<1> DEFINE m == msg[w]
           k == pos[w]
           l == start.log
<1>1. TypeInv /\ HandlerInv(w) /\ pc[w] = "delete"
  BY DEF Inv, DeleteEntries, At
<1>2. /\ m \in Messages /\ m.prev_index \in Nat /\ m.entries \in Seq(Entry)
      /\ k \in Nat \ {0} /\ l \in Seq(Entry) /\ Len(l) \in Nat
  BY SMTT(30), <1>1, MessagesAreTyped, LenProperties DEF HandlerInv, Entered, TypeInv
<1>3. /\ k <= Len(m.entries) /\ log = l /\ m.prev_index + k <= Len(l)
      /\ FirstConflict(l, m.prev_index, m.entries, k)
  BY <1>1 DEF HandlerInv, Merging
<1>4. log' = SubSeq(l, 1, m.prev_index + k - 1)
  <2>1. Index(w) = m.prev_index + k /\ Index(w) <= Len(log)
    BY <1>3 DEF Index
  <2>2. log' = SubSeq(log, 1, Index(w) - 1)
    BY ZenonT(30), <2>1 DEF DeleteEntries
  <2>3. SubSeq(log, 1, Index(w) - 1) = SubSeq(l, 1, Index(w) - 1)
    BY SMTT(30), <1>3
  <2>4. Index(w) - 1 = m.prev_index + k - 1
    <3>1. m.prev_index \in Nat /\ k \in Nat
      BY SMTT(30), <1>2
    <3> QED
      BY <3>1 DEF Index
  <2> QED
    BY ZenonT(30), <2>2, <2>3, <2>4
<1>5. /\ log' \in Seq(Entry) /\ Len(log') = m.prev_index + k - 1
      /\ \A i \in 1 .. m.prev_index + k - 1 : log'[i] = l[i]
  <2>1. m.prev_index + k - 1 \in Nat /\ m.prev_index + k - 1 <= Len(l)
    <3>1. /\ m.prev_index \in Nat /\ k \in Nat \ {0} /\ Len(l) \in Nat
          /\ m.prev_index + k <= Len(l)
      BY SMTT(30), <1>2, <1>3
    <3> QED
      BY SMTT(30), <3>1
  <2> QED
    BY SMTT(30), <1>2, <1>4, <2>1, PrefixIsLog
<1>6. Cut(l, m.prev_index, m.entries, k, log')
  BY SMTT(30), <1>3, <1>5 DEF Cut
<1>7. /\ pc'[w] = "append" /\ pc' \in [Worker -> Label]
      /\ UNCHANGED <<current_term, commitIndex, msg, pos, limit, start>>
  BY SMTT(30), <1>1 DEF DeleteEntries, Goto, TypeInv, Label
<1>8. TypeInv'
  BY SMTT(30), <1>1, <1>5, <1>7 DEF TypeInv
<1>9. HandlerInv(w)'
  <2>e. Entered(w)'
    BY ZenonT(30), <1>1, <1>3, <1>6, <1>7 DEF HandlerInv, Entered
  <2>m. Merging(w)'
    BY ZenonT(30), <1>1, <1>3, <1>6, <1>7 DEF HandlerInv, Merging
  <2>d. Merged(w)'
    BY ZenonT(30), <1>1, <1>3, <1>6, <1>7 DEF HandlerInv, Merged
  <2> QED
    BY <2>e, <2>m, <2>d DEF HandlerInv
<1> QED
  BY <1>8, <1>9 DEF Inv

\* has appended an entry,
LEMMA AppendKeeps ==
    ASSUME NEW w, Worker = {w}, Inv, AppendEntry(w)
    PROVE  Inv'
<1> DEFINE m == msg[w]
           k == pos[w]
           l == start.log
<1>1. TypeInv /\ HandlerInv(w) /\ pc[w] = "append"
  BY DEF Inv, AppendEntry, At
<1>2. /\ m \in Messages /\ m.prev_index \in Nat /\ m.entries \in Seq(Entry)
      /\ k \in Nat \ {0} /\ log \in Seq(Entry) /\ Len(m.entries) \in Nat
  BY ZenonT(30), <1>1, MessagesAreTyped, LenProperties DEF HandlerInv, Entered, TypeInv
<1>3. /\ k <= Len(m.entries)
      /\ \/ Cut(l, m.prev_index, m.entries, k, log)
         \/ Replaced(l, m.prev_index, m.entries, k, log)
  BY ZenonT(30), <1>1 DEF HandlerInv, Merging
<1>4. log' = Append(log, m.entries[k])
  BY DEF AppendEntry
<1>5. log' \in Seq(Entry) /\ Replaced(l, m.prev_index, m.entries, k + 1, log')
  BY ZenonT(30), <1>2, <1>3, <1>4, AppendContinues
<1>6. /\ pc'[w] = "look" /\ pos'[w] = k + 1
      /\ pc' \in [Worker -> Label] /\ pos' \in [Worker -> Nat]
      /\ UNCHANGED <<current_term, commitIndex, msg, limit, start>>
  <2>1. pc \in [Worker -> Label] /\ pos \in [Worker -> Nat] /\ w \in Worker
    BY <1>1 DEF TypeInv
  <2>2. pc'[w] = "look" /\ pc' \in [Worker -> Label]
    BY <2>1 DEF AppendEntry, Goto, Label
  <2>3. pos'[w] = k + 1 /\ pos' \in [Worker -> Nat]
    BY <2>1 DEF AppendEntry
  <2> QED
    BY <2>2, <2>3 DEF AppendEntry
<1>7. k + 1 <= Len(m.entries) + 1 /\ k + 1 # 0
  BY Zenon, <1>2, <1>3, NextPosition
<1>8. TypeInv'
  BY SMTT(30), <1>1, <1>5, <1>6 DEF TypeInv
<1>9. HandlerInv(w)'
  <2>e. Entered(w)'
    BY ZenonT(30), <1>1, <1>5, <1>6, <1>7 DEF HandlerInv, Entered
  <2>m. Merging(w)'
    BY ZenonT(30), <1>1, <1>5, <1>6, <1>7 DEF HandlerInv, Merging
  <2>d. Merged(w)'
    BY ZenonT(30), <1>1, <1>5, <1>6, <1>7 DEF HandlerInv, Merged
  <2> QED
    BY <2>e, <2>m, <2>d DEF HandlerInv
<1> QED
  BY <1>8, <1>9 DEF Inv

\* has compared leader_commit,
LEMMA CompareKeeps ==
    ASSUME NEW w, Worker = {w}, Inv, CompareCommit(w)
    PROVE  Inv'
<1> DEFINE m == msg[w]
           l == start.log
<1>1. TypeInv /\ HandlerInv(w) /\ pc[w] = "look" /\ pos[w] > Len(m.entries)
  BY SMTT(30) DEF Inv, CompareCommit, At
<1>2. /\ m \in Messages /\ m.prev_index \in Nat /\ m.commit \in Nat
      /\ m.entries \in Seq(Entry) /\ l \in Seq(Entry) /\ log \in Seq(Entry)
      /\ pos[w] \in Nat /\ Len(m.entries) \in Nat /\ commitIndex \in Nat
  BY ZenonT(30), <1>1, MessagesAreTyped, LenProperties DEF HandlerInv, Entered, TypeInv
<1>3. pos[w] = Len(m.entries) + 1
  <2>1. pos[w] <= Len(m.entries) + 1
    BY ZenonT(30), <1>1 DEF HandlerInv, Merging
  <2> QED
    BY <1>1, <1>2, <2>1
<1>4. log = MergeEntries(l, m.prev_index, m.entries)
  <2>1. ContainsEntry(l, m.prev_index, m.prev_term)
    BY ZenonT(30), <1>1 DEF HandlerInv, Entered
  <2>2. CASE Untouched(l, m.prev_index, m.entries, Len(m.entries) + 1, log)
    BY ZenonT(30), <1>2, <2>2, UntouchedIsMerged
  <2>3. CASE Replaced(l, m.prev_index, m.entries, Len(m.entries) + 1, log)
    BY ZenonT(30), <1>2, <2>1, <2>3, ReplacedIsMerged
  <2> QED
    BY ZenonT(30), <1>1, <1>3, <2>2, <2>3 DEF HandlerInv, Merging
<1>5. /\ pc' \in [Worker -> Label]
      /\ pc'[w] = IF m.commit > commitIndex THEN "last" ELSE "reply"
      /\ UNCHANGED <<current_term, log, commitIndex, msg, pos, limit, start>>
  BY SMTT(30), <1>1 DEF CompareCommit, Goto, TypeInv, Label, shared
<1>6. TypeInv'
  BY SMTT(30), <1>1, <1>5 DEF TypeInv
<1>7. commitIndex = start.commit
  BY SMTT(30), <1>1 DEF HandlerInv, Entered
<1>8. ~(m.commit > commitIndex) =>
          commitIndex = Atomic!Committed(start.commit, m.commit, Len(log))
  BY <1>2, <1>7 DEF Atomic!Committed
<1>9. HandlerInv(w)'
  <2>e. Entered(w)'
    BY ZenonT(30), <1>1, <1>4, <1>5, <1>7, <1>8 DEF HandlerInv, Entered
  <2>m. Merging(w)'
    BY ZenonT(30), <1>1, <1>4, <1>5, <1>7, <1>8 DEF HandlerInv, Merging
  <2>d. Merged(w)'
    BY ZenonT(30), <1>1, <1>4, <1>5, <1>7, <1>8 DEF HandlerInv, Merged
  <2> QED
    BY <2>e, <2>m, <2>d DEF HandlerInv
<1> QED
  BY <1>6, <1>9 DEF Inv

\* has read the last index,
LEMMA ReadLastKeeps ==
    ASSUME NEW w, Worker = {w}, Inv, ReadLast(w)
    PROVE  Inv'
<1>1. TypeInv /\ HandlerInv(w) /\ pc[w] = "last"
  BY SMTT(30) DEF Inv, ReadLast, At
<1>2. msg[w] \in Messages /\ msg[w].commit \in Nat /\ Len(log) \in Nat
  BY SMTT(30), <1>1, MessagesAreTyped, LenProperties DEF HandlerInv, Entered, TypeInv
<1>3. /\ pc' \in [Worker -> Label] /\ pc'[w] = "store"
      /\ limit' \in [Worker -> Nat]
      /\ limit'[w] = IF msg[w].commit <= Len(log) THEN msg[w].commit ELSE Len(log)
      /\ UNCHANGED <<current_term, log, commitIndex, msg, pos, start>>
  BY SMTT(30), <1>1, <1>2 DEF ReadLast, Goto, TypeInv, Label, shared
<1>4. TypeInv'
  BY SMTT(30), <1>1, <1>3 DEF TypeInv
<1>5. HandlerInv(w)'
  <2>e. Entered(w)'
    BY <1>1, <1>3 DEF HandlerInv, Entered
  <2>m. Merging(w)'
    BY ZenonT(30), <1>1, <1>3 DEF HandlerInv, Merging
  <2>d. Merged(w)'
    BY ZenonT(30), <1>1, <1>3 DEF HandlerInv, Merged
  <2> QED
    BY <2>e, <2>m, <2>d DEF HandlerInv
<1> QED
  BY <1>4, <1>5 DEF Inv

\* has stored commitIndex,
LEMMA StoreKeeps ==
    ASSUME NEW w, Worker = {w}, Inv, StoreCommit(w)
    PROVE  Inv'
<1>1. TypeInv /\ HandlerInv(w) /\ pc[w] = "store"
  BY ZenonT(30) DEF Inv, StoreCommit, At
<1>2. msg[w] \in Messages /\ msg[w].commit \in Nat /\ Len(log) \in Nat
  BY ZenonT(30), <1>1, MessagesAreTyped, LenProperties DEF HandlerInv, Entered, TypeInv
<1>3. /\ pc' \in [Worker -> Label] /\ pc'[w] = "reply" /\ commitIndex' = limit[w]
      /\ commitIndex' \in Nat
      /\ UNCHANGED <<current_term, log, msg, pos, limit, start>>
  BY <1>1 DEF StoreCommit, Goto, TypeInv, Label
<1>4. TypeInv'
  BY SMTT(30), <1>1, <1>3 DEF TypeInv
<1>5. limit[w] = Atomic!Committed(start.commit, msg[w].commit, Len(log))
  <2>1. /\ msg[w].commit > start.commit /\ start.commit \in Nat
        /\ limit[w] = IF msg[w].commit <= Len(log) THEN msg[w].commit ELSE Len(log)
    BY ZenonT(30), <1>1 DEF HandlerInv, Entered, Merged, TypeInv
  <2> QED
    BY <1>2, <2>1 DEF Atomic!Committed
<1>6. HandlerInv(w)'
  <2>e. Entered(w)'
    BY ZenonT(30), <1>1, <1>3, <1>5 DEF HandlerInv, Entered
  <2>m. Merging(w)'
    BY ZenonT(30), <1>1, <1>3, <1>5 DEF HandlerInv, Merging
  <2>d. Merged(w)'
    BY ZenonT(30), <1>1, <1>3, <1>5 DEF HandlerInv, Merged
  <2> QED
    BY <2>e, <2>m, <2>d DEF HandlerInv
<1> QED
  BY <1>4, <1>6 DEF Inv

\* or the node whose election timer fires meanwhile.
LEMMA TimeoutKeeps ==
    ASSUME NEW w, Worker = {w}, Preempts = FALSE, Inv, ElectionTimeout
    PROVE  Inv'
<1>1. TypeInv /\ pc[w] = "idle"
  BY DEF Inv, ElectionTimeout, Busy, At
<1>2. TypeInv'
  BY <1>1 DEF TypeInv, ElectionTimeout
<1>3. pc'[w] = "idle"
  BY <1>1 DEF ElectionTimeout
<1> QED
  BY ZenonT(30), <1>2, <1>3 DEF Inv, HandlerInv, Entered, Merging, Merged

\* Every step keeps the invariant.
LEMMA NextKeeps ==
    ASSUME NEW w, Worker = {w}, Preempts = FALSE, Inv, [Next]_vars
    PROVE  Inv'
<1>1. ASSUME NEW m \in Messages, Take(w, m) PROVE Inv'
  BY <1>1, TakeKeeps
<1>2. CASE Reply(w)
  BY ZenonT(30), <1>2, ReturnKeeps DEF Reply
<1>3. CASE Step(w)
  BY <1>1, <1>2, <1>3, FollowKeeps, ContainsKeeps, LookKeeps, DeleteKeeps,
     AppendKeeps, CompareKeeps, ReadLastKeeps, StoreKeeps, Zenon DEF Step
<1>4. CASE UNCHANGED vars
  <2>1. UNCHANGED <<current_term, log, commitIndex, pc, msg, pos, limit, start>>
    BY <1>4 DEF vars, shared
  <2>2. TypeInv'
    BY <2>1 DEF Inv, TypeInv
  <2>3. ASSUME NEW x \in Worker PROVE HandlerInv(x)'
    <3>1. Entered(x) /\ Merging(x) /\ Merged(x)
      BY DEF Inv, HandlerInv
    <3>2. Entered(x)'
      BY ZenonT(30), <2>1, <3>1 DEF Entered
    <3>3. Merging(x)'
      BY ZenonT(30), <2>1, <3>1 DEF Merging
    <3>4. Merged(x)'
      BY ZenonT(30), <2>1, <3>1 DEF Merged
    <3> QED
      BY <3>2, <3>3, <3>4 DEF HandlerInv
  <2> QED
    BY <2>2, <2>3 DEF Inv
<1> QED
  BY ZenonT(30), <1>3, <1>4, TimeoutKeeps DEF Next

-----------------------------------------------------------------------------
\* Follower looks at logs with the same operators.
LEMMA SameLogOperators ==
    ASSUME NEW l, NEW prev, NEW term, NEW entries
    PROVE  /\ Atomic!ContainsEntry(l, prev, term) <=> ContainsEntry(l, prev, term)
           /\ Atomic!MergeEntries(l, prev, entries) = MergeEntries(l, prev, entries)
<1>1. Atomic!Conflicts(l, prev, entries) = Conflicts(l, prev, entries)
  BY DEF Atomic!Conflicts, Conflicts
<1> QED
  BY <1>1 DEF Atomic!ContainsEntry, ContainsEntry, Atomic!MergeEntries, MergeEntries

\* With one worker, every step of the handler is a step of Follower or leaves
\* its state alone: the message counts as handled when it is answered.
LEMMA StepsAreAtomic ==
    ASSUME NEW w, Worker = {w}, Preempts = FALSE, Inv, [Next]_vars
    PROVE  [Atomic!Next]_(Atomic!vars)
<1>1. Busy <=> pc[w] # "idle"
  BY DEF Busy, At
<1>2. Busy' <=> pc'[w] # "idle"
  BY DEF Busy, At
<1>3. TypeInv /\ HandlerInv(w) /\ Inv'
  BY ZenonT(30), NextKeeps DEF Inv
<1>4. ASSUME NEW m \in Messages, Take(w, m) PROVE [Atomic!Next]_(Atomic!vars)
  <2>1. ~Busy /\ UNCHANGED <<current_term, log, commitIndex>>
    BY <1>1, <1>4 DEF Take, At, shared
  <2>2. CASE m.term < current_term
    <3>1. ~Busy' /\ responses' = responses \union {Response(current_term, FALSE, 0)}
      BY ZenonT(30), <1>1, <1>2, <1>4, <2>1, <2>2 DEF Take
    <3>2. Atomic!Reject(m)
      BY <2>1, <2>2, <3>1 DEF Atomic!Reject, Atomic!Response, Response
    <3> QED
      BY <3>2 DEF Atomic!Next, Atomic!HandleAppendEntries
  <2>3. CASE ~(m.term < current_term)
    <3>1. pc'[w] = "follow" /\ UNCHANGED responses /\ start' = Snapshot
      BY SMTT(30), <1>3, <1>4, <2>3 DEF Take, Goto, TypeInv
    <3>2. UNCHANGED Atomic!vars
      BY SMTT(30), <1>2, <2>1, <3>1 DEF Atomic!vars, Snapshot
    <3> QED
      BY SMTT(30), <3>2
  <2> QED
    BY <2>2, <2>3
<1>5. ASSUME Follow(w) \/ Look(w) \/ DeleteEntries(w) \/ AppendEntry(w)
               \/ CompareCommit(w) \/ ReadLast(w) \/ StoreCommit(w)
      PROVE  [Atomic!Next]_(Atomic!vars)
  <2>1. Busy /\ UNCHANGED <<responses, start>>
    BY ZenonT(30), <1>1, <1>5
       DEF Follow, Look, DeleteEntries, AppendEntry, CompareCommit,
       ReadLast, StoreCommit, At
  <2>2. pc'[w] # "idle"
    BY ZenonT(30), <1>3, <1>5
       DEF Follow, Look, DeleteEntries, AppendEntry, CompareCommit,
       ReadLast, StoreCommit, At, Goto, TypeInv
  <2> QED
    BY <1>2, <2>1, <2>2 DEF Atomic!vars
<1>6. ASSUME NEW success, NEW match, Return(w, success, match)
      PROVE  /\ ~Busy'
             /\ responses' = responses \union {Response(current_term, success, match)}
  BY SMTT(30), <1>2, <1>3, <1>6 DEF Return, Goto, TypeInv
<1>7. CASE Contains(w)
  <2>1. Busy /\ pc[w] = "contains" /\ UNCHANGED <<current_term, log, commitIndex, start>>
    BY ZenonT(30), <1>1, <1>7 DEF Contains, At, shared
  <2>2. CASE ContainsEntry(log, msg[w].prev_index, msg[w].prev_term)
    <3>1. Busy' /\ UNCHANGED responses
      BY SMTT(30), <1>2, <1>3, <1>7, <2>2 DEF Contains, Goto, TypeInv
    <3> QED
      BY SMTT(30), <2>1, <3>1 DEF Atomic!vars
  <2>3. CASE ~ContainsEntry(log, msg[w].prev_index, msg[w].prev_term)
    <3>1. Return(w, FALSE, 0)
      BY ZenonT(30), <1>7, <2>3 DEF Contains
    <3>2. ~Busy' /\ responses' = responses \union {Response(current_term, FALSE, 0)}
      BY ZenonT(30), <1>6, <3>1
    <3>3. /\ msg[w] \in Messages /\ start.term <= msg[w].term /\ log = start.log
          /\ current_term = msg[w].term /\ commitIndex = start.commit
      BY ZenonT(30), <1>3, <2>1 DEF HandlerInv, Entered
    <3>4. msg[w].term \in Nat /\ start.term \in Nat
      BY <1>3, <3>3, MessagesAreTyped DEF TypeInv
    <3>5. /\ (IF Busy THEN start.term ELSE current_term) = start.term
          /\ (IF Busy THEN start.log ELSE log) = start.log
          /\ (IF Busy THEN start.commit ELSE commitIndex) = start.commit
      BY SMTT(30), <2>1
    <3>6. /\ (IF Busy THEN start.term ELSE current_term)' = msg[w].term
          /\ (IF Busy THEN start.log ELSE log)' = start.log
          /\ (IF Busy THEN start.commit ELSE commitIndex)' = start.commit
      BY <2>1, <3>2, <3>3
    <3>7. Atomic!Mismatch(msg[w])
      BY ZenonT(30), <2>3, <3>2, <3>3, <3>4, <3>5, <3>6, SameLogOperators
         DEF Atomic!Mismatch, Atomic!Response, Response
    <3> QED
      BY <3>3, <3>7 DEF Atomic!Next, Atomic!HandleAppendEntries
  <2> QED
    BY <2>2, <2>3
<1>8. CASE Reply(w)
  <2> DEFINE match == msg[w].prev_index + Len(msg[w].entries)
  <2>1. /\ Busy /\ pc[w] = "reply" /\ UNCHANGED <<current_term, log, commitIndex, start>>
        /\ Return(w, TRUE, match)
    BY ZenonT(30), <1>1, <1>8 DEF Reply, At, shared
  <2>2. ~Busy' /\ responses' = responses \union {Response(current_term, TRUE, match)}
    BY ZenonT(30), <1>6, <2>1
  <2>3. /\ msg[w] \in Messages /\ start.term <= msg[w].term
        /\ current_term = msg[w].term
        /\ ContainsEntry(start.log, msg[w].prev_index, msg[w].prev_term)
        /\ log = MergeEntries(start.log, msg[w].prev_index, msg[w].entries)
        /\ commitIndex = Atomic!Committed(start.commit, msg[w].commit, Len(log))
    BY ZenonT(30), <1>3, <2>1 DEF HandlerInv, Entered, Merged
  <2>4. msg[w].term \in Nat /\ start.term \in Nat
    BY ZenonT(30), <1>3, <2>3, MessagesAreTyped DEF TypeInv
  <2>5. /\ (IF Busy THEN start.term ELSE current_term) = start.term
        /\ (IF Busy THEN start.log ELSE log) = start.log
        /\ (IF Busy THEN start.commit ELSE commitIndex) = start.commit
    BY SMTT(30), <2>1
  <2>6. /\ (IF Busy THEN start.term ELSE current_term)' = current_term
        /\ (IF Busy THEN start.log ELSE log)' = log
        /\ (IF Busy THEN start.commit ELSE commitIndex)' = commitIndex
    BY <2>1, <2>2
  <2>7. Atomic!Accept(msg[w])
    BY ZenonT(30), <2>2, <2>3, <2>4, <2>5, <2>6, SameLogOperators
       DEF Atomic!Accept, Atomic!Response, Response
  <2> QED
    BY ZenonT(30), <2>3, <2>7 DEF Atomic!Next, Atomic!HandleAppendEntries
<1>9. CASE ElectionTimeout
  <2>1. /\ ~Busy /\ ~Busy' /\ current_term' = current_term + 1
        /\ UNCHANGED <<log, commitIndex, responses>>
    BY SMTT(30), <1>1, <1>2, <1>9 DEF ElectionTimeout
  <2>2. Atomic!ElectionTimeout
    BY <2>1 DEF Atomic!ElectionTimeout
  <2> QED
    BY <2>2 DEF Atomic!Next
<1>10. CASE UNCHANGED vars
  <2>1. Busy' <=> Busy
    BY <1>1, <1>2, <1>10 DEF vars
  <2> QED
    BY <1>10, <2>1 DEF vars, shared, Atomic!vars
<1> QED
  BY SMTT(30), <1>4, <1>5, <1>7, <1>8, <1>9, <1>10 DEF Next, Step

\* One worker thread and a timer that fires between two messages: the reads and
\* writes of handle_append_entries implement the atomic handler of Follower,
\* for any leaders' logs of any length.
THEOREM OneWorkerIsAtomic ==
    ASSUME NEW w, Worker = {w}, Preempts = FALSE
    PROVE  Spec => HandlersAreAtomic
<1>1. Init => Inv
  BY InitHolds
<1>2. Inv /\ [Next]_vars => Inv'
  BY ZenonT(30), NextKeeps
<1>3. Init => Atomic!Init
  <2> SUFFICES ASSUME Init PROVE Atomic!Init
    OBVIOUS
  <2>1. ~Busy
    BY DEF Init, Busy, At
  <2> QED
    BY <2>1 DEF Init, Atomic!Init
<1>4. Inv /\ [Next]_vars => [Atomic!Next]_(Atomic!vars)
  BY ZenonT(30), StepsAreAtomic
<1> QED
  BY <1>1, <1>2, <1>3, <1>4, PTL DEF Spec, HandlersAreAtomic, Atomic!Spec
=============================================================================
