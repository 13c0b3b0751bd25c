--------------------------- MODULE RaftLogProofs ---------------------------
(***************************************************************************)
(* Facts about the log operators of RaftLog, for logs of any length over   *)
(* any set E of entries with a field "term".                               *)
(***************************************************************************)
EXTENDS RaftLog, SequenceTheorems, WellFoundedInduction, TLAPS

\* A nonempty set of natural numbers has a least element: the CHOOSE in
\* MergeEntries finds the first position at which the merge loop cuts the log.
LEMMA LeastNatural ==
    ASSUME NEW S \in SUBSET Nat, S # {}
    PROVE  \E n \in S : \A m \in S : n <= m
<1> DEFINE Less == OpToRel(<, Nat)
<1>1. IsWellFoundedOn(Less, Nat)
  BY ZenonT(30), NatLessThanWellFounded
<1>2. \A m, n \in Nat : m < n => <<m, n>> \in Less
  BY DEF OpToRel
<1> HIDE DEF Less
<1>3. PICK n \in S : \A m \in S : <<m, n>> \notin Less
  BY ZenonT(30), <1>1, WFMin
<1>4. ASSUME NEW m \in S
      PROVE  n <= m
  <2>1. ~(m < n)
    BY ZenonT(30), <1>2, <1>3
  <2> QED
    BY <2>1
<1> QED
  BY <1>4

\* The part of a log from index a to index b is a log.
LEMMA SubSeqIsLog ==
    ASSUME NEW E, NEW l \in Seq(E), NEW a \in Int, NEW b \in Int,
           1 <= a, b <= Len(l)
    PROVE  SubSeq(l, a, b) \in Seq(E)
<1>1. \A i \in a .. b : l[i] \in E
  <2>1. \A i \in 1 .. Len(l) : l[i] \in E
    BY ElementOfSeq
  <2> QED
    BY <2>1, LenProperties
<1> QED
  BY <1>1, SubSeqProperties

\* r is the log l up to index cut, and behind it entries, which follow index
\* prev, each in its place.  An entry of l is dropped only for one of another
\* term, and the last one that is kept has the term of its counterpart.
CutAt(cut, l, prev, entries, r) ==
    /\ cut <= Len(r)
    /\ \A k \in 1 .. cut : r[k] = l[k]
    /\ \A k \in cut + 1 .. Len(r) :
           k - prev \in 1 .. Len(entries) /\ r[k] = entries[k - prev]
    /\ cut < Len(l) => /\ cut + 1 - prev \in 1 .. Len(entries)
                       /\ l[cut + 1].term # entries[cut + 1 - prev].term
    /\ prev < cut /\ cut < Len(r) => l[cut].term = entries[cut - prev].term

\* What the merge loop of handle_append_entries makes of a log, when
\* containsEntry finds the entry before the new ones: the log is cut nowhere or
\* where the first difference is, and has all the new entries.
LEMMA MergeEntriesCuts ==
    ASSUME NEW E, NEW l \in Seq(E), NEW entries \in Seq(E),
           NEW prev \in Nat, NEW term, ContainsEntry(l, prev, term),
           NEW r, r = MergeEntries(l, prev, entries)
    PROVE  /\ r \in Seq(E)
           /\ prev + Len(entries) <= Len(r)
           /\ \E cut \in prev .. Len(l) : CutAt(cut, l, prev, entries, r)
<1> DEFINE C == Conflicts(l, prev, entries)
           first == CHOOSE n \in C : \A m \in C : n <= m
<1>1. /\ Len(l) \in Nat /\ DOMAIN l = 1 .. Len(l)
      /\ Len(entries) \in Nat /\ DOMAIN entries = 1 .. Len(entries)
  BY LenProperties
<1>2. prev <= Len(l)
  BY <1>1 DEF ContainsEntry
<1>3. \A n \in 1 .. Len(entries) : n \notin C =>
          prev + n <= Len(l) /\ l[prev + n].term = entries[n].term
  BY <1>1 DEF Conflicts
<1>4. CASE C = {}
  <2>1. r = l
    BY <1>4 DEF MergeEntries
  <2>2. prev + Len(entries) <= Len(l)
    <3> HIDE DEF C
    <3>1. Len(entries) > 0 => Len(entries) \in 1 .. Len(entries)
      BY <1>1
    <3> QED
      BY <1>1, <1>2, <1>3, <1>4, <3>1
  <2>3. Len(l) \in prev .. Len(l)
    BY <1>1, <1>2
  <2>4. CutAt(Len(l), l, prev, entries, r)
    BY <1>1, <2>1 DEF CutAt
  <2> QED
    BY <2>1, <2>2, <2>3, <2>4
<1>5. CASE C # {}
  <2>1. C \in SUBSET Nat /\ C \subseteq 1 .. Len(entries)
    BY <1>1 DEF Conflicts
  <2>2. \A n \in C : prev + n <= Len(l) => l[prev + n].term # entries[n].term
    BY <1>1 DEF Conflicts
  <2>3. r = SubSeq(l, 1, prev + first - 1) \o SubSeq(entries, first, Len(entries))
    BY Zenon, <1>5 DEF MergeEntries
  <2> HIDE DEF C
  <2>4. first \in C /\ \A m \in C : first <= m
    BY Zenon, <1>5, <2>1, LeastNatural
  <2> HIDE DEF first
  <2>5. first \in 1 .. Len(entries)
    BY <2>1, <2>4
  <2>6. first > 1 => /\ prev + (first - 1) <= Len(l)
                     /\ l[prev + (first - 1)].term = entries[first - 1].term
    <3>1. first > 1 => first - 1 \in 1 .. Len(entries) /\ first - 1 \notin C
      BY <1>1, <2>4, <2>5
    <3> QED
      BY <1>3, <3>1
  <2> DEFINE cut == prev + first - 1
             a == SubSeq(l, 1, cut)
             b == SubSeq(entries, first, Len(entries))
  <2>7. cut \in prev .. Len(l) /\ cut \in Nat
    BY <1>1, <1>2, <2>5, <2>6
  <2> HIDE DEF cut
  <2>8. a \in Seq(E) /\ Len(a) = cut /\ \A k \in 1 .. cut : a[k] = l[k]
    <3>1. a \in Seq(E)
      BY <2>7, SubSeqIsLog
    <3> QED
      BY <1>1, <2>7, <3>1, SubSeqProperties
  <2>9. /\ b \in Seq(E) /\ Len(b) = Len(entries) - first + 1
        /\ \A n \in 1 .. Len(b) : b[n] = entries[first + n - 1]
    <3>1. b \in Seq(E)
      BY <1>1, <2>5, SubSeqIsLog
    <3> QED
      BY SMTT(30), <1>1, <2>5, <3>1, SubSeqProperties
  <2>10. r = a \o b
    BY <2>3 DEF cut
  <2> HIDE DEF a, b
  <2>11. /\ r \in Seq(E) /\ Len(r) = cut + Len(entries) - first + 1
         /\ \A k \in 1 .. cut : r[k] = a[k]
         /\ \A k \in cut + 1 .. Len(r) : r[k] = b[k - cut]
    <3>1. r \in Seq(E) /\ Len(r) = Len(a) + Len(b)
          /\ \A k \in 1 .. Len(a) + Len(b) :
                 r[k] = IF k <= Len(a) THEN a[k] ELSE b[k - Len(a)]
      BY SMTT(30), <2>8, <2>9, <2>10, ConcatProperties
    <3>2. Len(b) \in Nat /\ Len(a) = cut
      BY <1>1, <2>5, <2>8, <2>9
    <3>3. \A k \in 1 .. cut : k \in 1 .. cut + Len(b) /\ k <= cut
      BY <2>7, <3>2
    <3>4. \A k \in cut + 1 .. cut + Len(b) : k \in 1 .. cut + Len(b) /\ ~(k <= cut)
      BY <2>7, <3>2
    <3>5. cut + Len(b) = cut + Len(entries) - first + 1
      BY <1>1, <2>5, <2>7, <2>9
    <3> QED
      BY ZenonT(30), <3>1, <3>2, <3>3, <3>4, <3>5
  <2>12. Len(r) = prev + Len(entries)
    BY <1>1, <2>5, <2>11 DEF cut
  <2>13. \A k \in cut + 1 .. Len(r) :
             k - prev \in 1 .. Len(entries) /\ r[k] = entries[k - prev]
    <3> SUFFICES ASSUME NEW k \in cut + 1 .. Len(r)
                 PROVE  k - prev \in 1 .. Len(entries) /\ r[k] = entries[k - prev]
      OBVIOUS
    <3>1. k \in Nat /\ k - cut \in 1 .. Len(b) /\ first + (k - cut) - 1 = k - prev
          /\ k - prev \in 1 .. Len(entries)
      BY <1>1, <2>5, <2>7, <2>9, <2>12 DEF cut
    <3> QED
      BY <2>9, <2>11, <3>1
  <2>14. cut < Len(l) => /\ cut + 1 - prev \in 1 .. Len(entries)
                         /\ l[cut + 1].term # entries[cut + 1 - prev].term
    <3>1. cut + 1 = prev + first /\ cut + 1 - prev = first
      BY <2>5 DEF cut
    <3> QED
      BY <1>1, <2>2, <2>4, <2>5, <2>7, <3>1
  <2>15. prev < cut /\ cut < Len(r) => l[cut].term = entries[cut - prev].term
    <3>1. cut = prev + (first - 1) /\ cut - prev = first - 1 /\ (prev < cut => first > 1)
      BY <2>5 DEF cut
    <3> QED
      BY <2>6, <3>1
  <2>16. cut <= Len(r)
    BY <1>1, <2>5, <2>12 DEF cut
  <2>17. CutAt(cut, l, prev, entries, r)
    BY SMTT(30), <2>8, <2>11, <2>13, <2>14, <2>15, <2>16 DEF CutAt
  <2> QED
    BY <1>1, <2>7, <2>11, <2>12, <2>17
<1> QED
  BY <1>4, <1>5

\* In particular it is a log.
LEMMA MergeEntriesIsLog ==
    ASSUME NEW E, NEW l \in Seq(E), NEW entries \in Seq(E),
           NEW prev \in Nat, NEW term, ContainsEntry(l, prev, term)
    PROVE  MergeEntries(l, prev, entries) \in Seq(E)
BY Zenon, MergeEntriesCuts
-----------------------------------------------------------------------------
(* A log as a chain of links.  A link is an entry with its index and the term *)
(* of the entry before it: what containsEntry and the merge loop compare.     *)

\* The links of entries that follow index prev, where the entry has this term.
\* The links of a whole log follow index 0, and term 0.
Links(prev, term, entries) ==
    {<<prev + n, entries[n], IF n = 1 THEN term ELSE entries[n - 1].term>> :
         n \in 1 .. Len(entries)}

\* Every position of a stretch of entries has its link.
LEMMA LinkOf ==
    ASSUME NEW prev, NEW term, NEW entries, NEW n \in 1 .. Len(entries), NEW k, NEW t,
           k = prev + n, t = IF n = 1 THEN term ELSE entries[n - 1].term
    PROVE  <<k, entries[n], t>> \in Links(prev, term, entries)
BY Zenon DEF Links

\* A link of a log names an index of the log and the entry there.
LEMMA LinkAt ==
    ASSUME NEW l, NEW x \in Links(0, 0, l), Len(l) \in Nat
    PROVE  x[1] \in 1 .. Len(l) /\ x[2] = l[x[1]]
<1>1. PICK n \in 1 .. Len(l) :
          x = <<0 + n, l[n], IF n = 1 THEN 0 ELSE l[n - 1].term>>
  BY Zenon DEF Links
<1>2. x[1] = 0 + n /\ x[2] = l[n]
  BY Zenon, <1>1
<1>3. 0 + n = n
  OBVIOUS
<1> QED
  BY Zenon, <1>2, <1>3

\* The merge loop makes no new link: where it cuts the log, the last entry it
\* keeps has the term of the entry that the new one followed in its sender's log.
LEMMA MergeEntriesLinks ==
    ASSUME NEW E, NEW l \in Seq(E), NEW entries \in Seq(E),
           NEW prev \in Nat, NEW term, ContainsEntry(l, prev, term),
           prev = 0 => term = 0
    PROVE  Links(0, 0, MergeEntries(l, prev, entries))
               \subseteq Links(0, 0, l) \cup Links(prev, term, entries)
<1> DEFINE r == MergeEntries(l, prev, entries)
<1>1. r = MergeEntries(l, prev, entries)
  OBVIOUS
<1> HIDE DEF r
<1>2. PICK cut \in prev .. Len(l) : CutAt(cut, l, prev, entries, r)
  BY Zenon, <1>1, MergeEntriesCuts
<1>3. Len(r) \in Nat /\ Len(l) \in Nat /\ Len(entries) \in Nat
  <2>1. r \in Seq(E)
    BY Zenon, <1>1, MergeEntriesCuts
  <2> QED
    BY <2>1, LenProperties
<1>4. prev # 0 => l[prev].term = term
  BY DEF ContainsEntry
<1> SUFFICES ASSUME NEW k \in 1 .. Len(r)
             PROVE  <<0 + k, r[k], IF k = 1 THEN 0 ELSE r[k - 1].term>>
                        \in Links(0, 0, l) \cup Links(prev, term, entries)
  BY ZenonT(30) DEF r, Links
<1> DEFINE before == IF k = 1 THEN 0 ELSE r[k - 1].term
<1>5. CASE k <= cut
  <2>1. /\ k \in 1 .. Len(l) /\ r[k] = l[k]
        /\ k # 1 => r[k - 1] = l[k - 1]
    BY <1>2, <1>3, <1>5 DEF CutAt
  <2>2. before = IF k = 1 THEN 0 ELSE l[k - 1].term
    BY Zenon, <2>1
  <2> HIDE DEF before
  <2>3. <<0 + k, l[k], before>> \in Links(0, 0, l)
    BY Zenon, <2>1, <2>2, LinkOf
  <2> QED
    BY Zenon, <2>1, <2>3 DEF before
<1>6. CASE k > cut
  <2> DEFINE n == k - prev
  <2>1. n \in 1 .. Len(entries) /\ r[k] = entries[n] /\ 0 + k = prev + n
    BY <1>2, <1>3, <1>6 DEF CutAt
  <2>2. before = IF n = 1 THEN term ELSE entries[n - 1].term
    <3>1. CASE k = 1
      BY <1>2, <1>6, <3>1
    <3>2. CASE k # 1 /\ k - 1 > cut
      <4>1. k - 1 \in cut + 1 .. Len(r) /\ (k - 1) - prev = n - 1 /\ n # 1
        BY <1>2, <1>3, <3>2
      <4>2. r[k - 1] = entries[(k - 1) - prev]
        BY Zenon, <1>2, <4>1 DEF CutAt
      <4> QED
        BY Zenon, <3>2, <4>1, <4>2
    <3>3. CASE k # 1 /\ k - 1 = cut /\ cut = prev
      <4>1. n = 1 /\ prev # 0 /\ cut \in 1 .. cut
        BY <1>2, <3>3
      <4>2. r[cut] = l[cut]
        BY Zenon, <1>2, <4>1 DEF CutAt
      <4> QED
        BY Zenon, <1>4, <3>3, <4>1, <4>2
    <3>4. CASE k # 1 /\ k - 1 = cut /\ cut # prev
      <4>1. prev < cut /\ cut < Len(r) /\ cut - prev = n - 1 /\ n # 1 /\ cut \in 1 .. cut
        BY <1>2, <1>3, <3>4
      <4>2. r[cut] = l[cut] /\ l[cut].term = entries[cut - prev].term
        BY Zenon, <1>2, <4>1 DEF CutAt
      <4> QED
        BY Zenon, <3>4, <4>1, <4>2
    <3> QED
      BY <1>2, <1>6, <3>1, <3>2, <3>3, <3>4
  <2> HIDE DEF n, before
  <2>3. <<0 + k, entries[n], before>> \in Links(prev, term, entries)
    BY Zenon, <2>1, <2>2, LinkOf
  <2> QED
    BY Zenon, <2>1, <2>3 DEF before
<1> QED
  BY <1>2, <1>3, <1>5, <1>6

\* An appended entry adds one link, to the entry that was the last one.
LEMMA AppendLinks ==
    ASSUME NEW E, NEW l \in Seq(E), NEW e \in E
    PROVE  Links(0, 0, Append(l, e)) =
               Links(0, 0, l) \cup {<<Len(l) + 1, e, LastLogTerm(l)>>}
<1> DEFINE r == Append(l, e)
           new == <<Len(l) + 1, e, LastLogTerm(l)>>
<1>1. /\ Len(l) \in Nat /\ Len(r) = Len(l) + 1
      /\ r[Len(l) + 1] = e /\ \A k \in 1 .. Len(l) : r[k] = l[k]
  BY AppendProperties, LenProperties
<1>2. LastLogTerm(l) = IF Len(l) = 0 THEN 0 ELSE l[Len(l)].term
  BY EmptySeq DEF LastLogTerm
<1> HIDE DEF r
<1>3. ASSUME NEW k \in 1 .. Len(l)
      PROVE  <<0 + k, r[k], IF k = 1 THEN 0 ELSE r[k - 1].term>> =
                 <<0 + k, l[k], IF k = 1 THEN 0 ELSE l[k - 1].term>>
  <2>1. r[k] = l[k] /\ (k # 1 => r[k - 1] = l[k - 1])
    BY <1>1
  <2> QED
    BY Zenon, <2>1
<1>4. <<0 + Len(r), r[Len(r)], IF Len(r) = 1 THEN 0 ELSE r[Len(r) - 1].term>> = new
  <2>1. 0 + Len(r) = Len(l) + 1 /\ r[Len(r)] = e
    BY <1>1
  <2>2. (IF Len(r) = 1 THEN 0 ELSE r[Len(r) - 1].term) = LastLogTerm(l)
    BY <1>1, <1>2
  <2> QED
    BY Zenon, <2>1, <2>2
<1>5. 1 .. Len(r) = 1 .. Len(l) \cup {Len(r)} /\ Len(r) \in 1 .. Len(r)
  BY <1>1
<1> HIDE DEF new
<1>6. ASSUME NEW x \in Links(0, 0, r)
      PROVE  x \in Links(0, 0, l) \cup {new}
  <2>1. PICK k \in 1 .. Len(r) : x = <<0 + k, r[k], IF k = 1 THEN 0 ELSE r[k - 1].term>>
    BY Zenon DEF Links
  <2>2. CASE k \in 1 .. Len(l)
    BY Zenon, <1>3, <2>1, <2>2 DEF Links
  <2>3. CASE k = Len(r)
    BY Zenon, <1>4, <2>1, <2>3
  <2> QED
    BY Zenon, <1>5, <2>2, <2>3
<1>7. ASSUME NEW x \in Links(0, 0, l)
      PROVE  x \in Links(0, 0, r)
  <2>1. PICK k \in 1 .. Len(l) : x = <<0 + k, l[k], IF k = 1 THEN 0 ELSE l[k - 1].term>>
    BY Zenon DEF Links
  <2>2. x = <<0 + k, r[k], IF k = 1 THEN 0 ELSE r[k - 1].term>> /\ k \in 1 .. Len(r)
    BY Zenon, <1>3, <1>5, <2>1
  <2> QED
    BY Zenon, <2>2 DEF Links
<1>8. new \in Links(0, 0, r)
  BY Zenon, <1>4, <1>5 DEF Links
<1> QED
  BY Zenon, <1>6, <1>7, <1>8 DEF r, new

\* The entries that send_proposals_to_followers takes out of a log, sent with the
\* term that getEntry finds before them, are links of that log.
LEMMA SubSeqLinks ==
    ASSUME NEW E, NEW l \in Seq(E), NEW start \in Nat \ {0}, NEW last \in Int,
           last <= Len(l)
    PROVE  Links(start - 1, EntryTerm(l, start - 1), SubSeq(l, start, last))
               \subseteq Links(0, 0, l)
<1> DEFINE part == SubSeq(l, start, last)
<1>1. Len(l) \in Nat /\ DOMAIN l = 1 .. Len(l)
  BY LenProperties
<1>2. /\ Len(part) = IF start <= last THEN last - start + 1 ELSE 0
      /\ \A n \in 1 .. last - start + 1 : part[n] = l[start + n - 1]
  <2>1. \A k \in start .. last : l[k] \in E
    BY <1>1, ElementOfSeq
  <2> QED
    BY <2>1, SubSeqProperties
<1> HIDE DEF part
<1> DEFINE before(n) == IF n = 1 THEN EntryTerm(l, start - 1) ELSE part[n - 1].term
<1> SUFFICES ASSUME NEW n \in 1 .. Len(part)
             PROVE  <<start - 1 + n, part[n], before(n)>> \in Links(0, 0, l)
  BY Zenon DEF part, Links
<1> DEFINE k == start + n - 1
<1>3. k \in 1 .. Len(l) /\ part[n] = l[k] /\ start - 1 + n = 0 + k
  BY <1>1, <1>2
<1>4. before(n) = IF k = 1 THEN 0 ELSE l[k - 1].term
  <2>1. CASE n = 1
    BY <1>1, <1>3, <2>1 DEF EntryTerm
  <2>2. CASE n # 1
    <3>1. n - 1 \in 1 .. last - start + 1 /\ start + (n - 1) - 1 = k - 1 /\ k # 1
      BY <1>1, <1>2, <2>2
    <3>2. part[n - 1] = l[start + (n - 1) - 1]
      BY Zenon, <1>2, <3>1
    <3> QED
      BY Zenon, <2>2, <3>1, <3>2
  <2> QED
    BY <2>1, <2>2
<1> HIDE DEF k, before
<1> QED
  BY Zenon, <1>3, <1>4, LinkOf

\* When no link goes back in term, the terms in a log never decrease.
LEMMA LinksOrder ==
    ASSUME NEW E, NEW l \in Seq(E), \A e \in E : e.term \in Nat,
           \A x \in Links(0, 0, l) : x[3] <= x[2].term
    PROVE  \A k, n \in 1 .. Len(l) : k <= n => l[k].term <= l[n].term
<1>1. Len(l) \in Nat /\ \A n \in 1 .. Len(l) : l[n].term \in Nat
  BY LenProperties, ElementOfSeq
<1>2. ASSUME NEW n \in 1 .. Len(l), n # 1
      PROVE  l[n - 1].term <= l[n].term
  <2>1. <<0 + n, l[n], l[n - 1].term>> \in Links(0, 0, l)
    BY Zenon, <1>2, LinkOf
  <2> QED
    BY <2>1
<1> SUFFICES ASSUME NEW k \in 1 .. Len(l)
             PROVE  \A n \in 1 .. Len(l) : k <= n => l[k].term <= l[n].term
  OBVIOUS
<1> DEFINE S == {n \in k .. Len(l) : ~(l[k].term <= l[n].term)}
<1>3. CASE S = {}
  <2>1. \A n \in 1 .. Len(l) : k <= n => n \in k .. Len(l)
    BY <1>1
  <2> QED
    BY Zenon, <1>3, <2>1
<1>4. CASE S # {}
  <2>1. S \in SUBSET Nat
    BY <1>1
  <2>2. PICK n \in S : \A m \in S : n <= m
    <3> HIDE DEF S
    <3> QED
      BY Zenon, <1>4, <2>1, LeastNatural
  <2>3. n # k /\ n # 1 /\ n \in 1 .. Len(l)
    BY <1>1
  <2>4. n - 1 \in k .. Len(l) /\ n - 1 \in 1 .. Len(l) /\ ~(n <= n - 1)
    BY <1>1, <2>3
  <2>5. l[k].term <= l[n - 1].term
    BY Zenon, <2>2, <2>4
  <2> QED
    BY SMTT(30), <1>1, <1>2, <2>3, <2>4, <2>5
<1> QED
  BY <1>3, <1>4

\* In two logs an index and a term determine a link.
Determined(l, r) ==
    \A x \in Links(0, 0, l), y \in Links(0, 0, r) :
        x[1] = y[1] /\ x[2].term = y[2].term => x = y

\* When an index and a term determine a link, two logs with entries of the same
\* term at an index agree up to that index.
LEMMA LinksAgree ==
    ASSUME NEW E, NEW l \in Seq(E), NEW r \in Seq(E), Determined(l, r),
           NEW k \in 1 .. Len(l), k <= Len(r), l[k].term = r[k].term
    PROVE  SubSeq(l, 1, k) = SubSeq(r, 1, k)
<1>1. Len(l) \in Nat /\ Len(r) \in Nat
  BY LenProperties
<1>2. ASSUME NEW n \in 1 .. k, l[n].term = r[n].term
      PROVE  l[n] = r[n] /\ (n # 1 => l[n - 1].term = r[n - 1].term)
  <2> DEFINE x == <<0 + n, l[n], IF n = 1 THEN 0 ELSE l[n - 1].term>>
             y == <<0 + n, r[n], IF n = 1 THEN 0 ELSE r[n - 1].term>>
  <2>1. n \in 1 .. Len(l) /\ n \in 1 .. Len(r)
    BY <1>1
  <2>2. x \in Links(0, 0, l) /\ y \in Links(0, 0, r)
    BY Zenon, <2>1 DEF Links
  <2>3. x[1] = y[1] /\ x[2] = l[n] /\ y[2] = r[n]
    OBVIOUS
  <2>4. x = y
    BY Zenon, <1>2, <2>2, <2>3 DEF Determined
  <2> QED
    BY <2>4
<1> DEFINE S == {d \in 0 .. k - 1 : l[k - d].term # r[k - d].term}
<1>3. S = {}
  <2> SUFFICES ASSUME S # {} PROVE FALSE
    OBVIOUS
  <2>1. S \in SUBSET Nat
    BY <1>1
  <2>2. PICK d \in S : \A m \in S : d <= m
    <3> HIDE DEF S
    <3> QED
      BY Zenon, <2>1, LeastNatural
  <2>3. d # 0
    BY <1>1
  <2>4. d - 1 \in 0 .. k - 1 /\ ~(d <= d - 1) /\ k - (d - 1) \in 1 .. k
        /\ k - (d - 1) # 1 /\ k - (d - 1) - 1 = k - d
    BY <2>3
  <2>5. l[k - (d - 1)].term = r[k - (d - 1)].term
    BY Zenon, <2>2, <2>4
  <2>6. l[k - d].term = r[k - d].term
    BY Zenon, <1>2, <2>4, <2>5
  <2> QED
    BY <2>6
<1>4. ASSUME NEW n \in 1 .. k PROVE l[n] = r[n]
  <2>1. k - n \in 0 .. k - 1 /\ k - (k - n) = n
    OBVIOUS
  <2>2. l[n].term = r[n].term
    BY Zenon, <1>3, <2>1
  <2> QED
    BY Zenon, <1>2, <2>2
<1> HIDE DEF S
<1> QED
  BY <1>1, <1>4, SubSeqProperties
=============================================================================
