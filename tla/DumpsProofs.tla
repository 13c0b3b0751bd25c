----------------------------- MODULE DumpsProofs ----------------------------
(***************************************************************************)
(* verify_consistency.py never reports an inconsistency of a clean         *)
(* experiment, for every odd number of nodes, every length of the logs and *)
(* every number of experiments: the file a node writes is a prefix of the  *)
(* leader's log, so at each index the nodes fall into those that have the  *)
(* leader's entry and those that have none, and one of the two parts is a  *)
(* quorum.                                                                 *)
(***************************************************************************)
EXTENDS Dumps, FiniteSetTheorems, SequenceTheorems, TLAPS

\* A file of this experiment is a prefix of the leader's log as it is now.
PrefixOfLog(n) ==
    /\ Len(dumps[n].entries) <= Len(log)
    /\ \A i \in 1..Len(dumps[n].entries) : dumps[n].entries[i] = log[i]

DumpInv ==
    /\ run \in Nat \ {0}
    /\ log \in Seq(Commands)
    /\ last \in [Node -> Nat]
    /\ \A n \in Node : last[n] <= Len(log)
    /\ dumps \in [Node -> [run : Nat, entries : Seq(Commands)]]
    /\ \A n \in Node : dumps[n].run <= run
    /\ \A n \in Node : dumps[n].run = run => PrefixOfLog(n)
-----------------------------------------------------------------------------
\* Of a set of odd size and a part of it, the part or the rest is a quorum: the
\* arithmetic behind QUORUM = N_NODES // 2 + 1.
LEMMA OddSplit ==
    ASSUME NEW S \in SUBSET Node
    PROVE  Cardinality(S) >= QUORUM \/ Cardinality(Node \ S) >= QUORUM
<1>1. IsFiniteSet(Node) /\ Cardinality(Node) \in Nat /\ Cardinality(Node) % 2 = 1
    BY FS_CardinalityType, DumpsAssumption
<1>2. IsFiniteSet(S) /\ Cardinality(S) \in Nat
    BY <1>1, FS_Subset, FS_CardinalityType
<1>3. /\ IsFiniteSet(Node \ S) /\ Cardinality(Node \ S) \in Nat
      /\ Cardinality(Node \ S) = Cardinality(Node) - Cardinality(Node \cap S)
    BY ZenonT(30), <1>1, <1>2, FS_Difference, FS_Subset, FS_CardinalityType
<1>4. Node \cap S = S
    OBVIOUS
<1>5. Cardinality(Node) = 2 * (Cardinality(Node) \div 2) + 1
    BY <1>1, SMTT(30)
<1>6. Cardinality(Node) \div 2 \in Nat
    BY <1>1, SMTT(30)
<1>7. QUORUM = Cardinality(Node) \div 2 + 1
    BY DEF QUORUM
<1>8. \A a, b, c, h \in Nat :
          a = 2 * h + 1 /\ b = a - c => c >= h + 1 \/ b >= h + 1
    BY SMTT(30)
<1>9. Cardinality(Node \ S) = Cardinality(Node) - Cardinality(S)
    BY ZenonT(30), <1>3, <1>4
<1> QED
    BY <1>1, <1>2, <1>3, <1>5, <1>6, <1>7, <1>8, <1>9

\* A set of nodes that share an opinion agrees on it when it is a quorum.
LEMMA QuorumAgrees ==
    ASSUME NEW d, NEW i, NEW v, NEW S \in SUBSET Node,
           \A n \in S : Opinion(d, n, i) = v, Cardinality(S) >= QUORUM
    PROVE  Agreed(d, i, v)
<1>1. IsFiniteSet(Node) /\ Cardinality(Node) \in Nat
    BY FS_CardinalityType, DumpsAssumption
<1>2. S \subseteq Votes(d, i, v) /\ Votes(d, i, v) \subseteq Node
    BY DEF Votes
<1>3. IsFiniteSet(Votes(d, i, v)) /\ Cardinality(Votes(d, i, v)) \in Nat
    BY <1>1, <1>2, FS_Subset, FS_CardinalityType
<1>4. Cardinality(S) <= Cardinality(Votes(d, i, v)) /\ Cardinality(S) \in Nat
    BY <1>2, <1>3, FS_Subset, FS_CardinalityType
<1>5. QUORUM \in Int
    BY <1>1, SMTT(30) DEF QUORUM
<1> QED
    BY <1>3, <1>4, <1>5 DEF Agreed

\* A quorum is not empty.
LEMMA QuorumInhabited ==
    ASSUME NEW S \in SUBSET Node, Cardinality(S) >= QUORUM
    PROVE  \E n \in S : TRUE
<1>1. IsFiniteSet(Node) /\ Cardinality(Node) \in Nat
    BY FS_CardinalityType, DumpsAssumption
<1>2. QUORUM \in Int /\ QUORUM >= 1
    BY <1>1, SMTT(30) DEF QUORUM
<1>3. Cardinality({}) = 0
    BY FS_EmptySet
<1>4. S # {}
    BY <1>2, <1>3
<1> QED
    BY <1>4
-----------------------------------------------------------------------------
\* Files that are prefixes of one log are consistent at every index.
LEMMA PrefixesAreConsistent ==
    ASSUME DumpInv, \A n \in Node : OfThisRun(n)
    PROVE  majority_consistent(dumps)
<1> SUFFICES ASSUME NEW i \in all_indices(dumps)
             PROVE  \E v \in {Opinion(dumps, n, i) : n \in Node} : Agreed(dumps, i, v)
    BY DEF majority_consistent
<1> DEFINE Have == {n \in Node : i \in 1..Len(dumps[n].entries)}
<1>1. ASSUME NEW n \in Have PROVE Opinion(dumps, n, i) = log[i]
    <2>1. n \in Node /\ i \in 1..Len(dumps[n].entries)
        OBVIOUS
    <2>2. CASE dumps[n] = NoFile
        <3>1. Len(dumps[n].entries) = 0
            BY <2>2 DEF NoFile
        <3> QED
            BY <2>1, <3>1
    <2>3. CASE dumps[n].run = run
        BY <2>1, <2>3 DEF DumpInv, PrefixOfLog, Opinion
    <2> QED
        BY <2>1, <2>2, <2>3 DEF OfThisRun
<1>2. ASSUME NEW n \in Node \ Have PROVE Opinion(dumps, n, i) = Missing
    BY <1>2 DEF Opinion
<1>3. Have \in SUBSET Node /\ Node \ Have \in SUBSET Node
    OBVIOUS
<1> HIDE DEF Have
<1>4. CASE Cardinality(Have) >= QUORUM
    <2>1. PICK n \in Have : TRUE
        BY <1>3, <1>4, QuorumInhabited
    <2>2. Agreed(dumps, i, log[i])
        BY <1>1, <1>3, <1>4, QuorumAgrees
    <2>3. log[i] \in {Opinion(dumps, m, i) : m \in Node}
        BY <1>1, <1>3, <2>1
    <2> QED
        BY <2>2, <2>3
<1>5. CASE Cardinality(Node \ Have) >= QUORUM
    <2>1. PICK n \in Node \ Have : TRUE
        BY <1>3, <1>5, QuorumInhabited
    <2>2. Agreed(dumps, i, Missing)
        BY <1>2, <1>3, <1>5, QuorumAgrees
    <2>3. Missing \in {Opinion(dumps, m, i) : m \in Node}
        BY <1>2, <1>3, <2>1
    <2> QED
        BY <2>2, <2>3
<1> QED
    BY <1>3, <1>4, <1>5, OddSplit
-----------------------------------------------------------------------------
\* The initial state satisfies the invariant: no file is of this experiment.
LEMMA InitDump == Init => DumpInv
BY EmptySeq DEF Init, DumpInv, PrefixOfLog, NoFile

\* An appended request leaves every file a prefix.
LEMMA AppendKeeps ==
    ASSUME DumpInv, NEW c \in Commands, AppendRequest(c)
    PROVE  DumpInv'
<1>1. /\ log' \in Seq(Commands) /\ Len(log') = Len(log) + 1 /\ Len(log) \in Nat
      /\ \A i \in 1..Len(log) : log'[i] = log[i]
    BY AppendProperties, LenProperties DEF DumpInv, AppendRequest
<1>2. /\ last' = [last EXCEPT ![Leader] = Len(log) + 1]
      /\ dumps' = dumps /\ run' = run
    BY DEF AppendRequest
<1>3. last' \in [Node -> Nat] /\ \A n \in Node : last'[n] <= Len(log')
    <2>1. last \in [Node -> Nat] /\ \A n \in Node : last[n] \in Nat /\ last[n] <= Len(log)
        BY DEF DumpInv
    <2>2. \A n \in Node : last'[n] = IF n = Leader THEN Len(log) + 1 ELSE last[n]
        BY <1>2, <2>1
    <2>3. Len(log) + 1 \in Nat
        BY <1>1
    <2>4. last' \in [Node -> Nat]
        BY ZenonT(30), <1>2, <2>1, <2>3
    <2> QED
        BY <1>1, <2>1, <2>2, <2>4
<1>4. ASSUME NEW n \in Node, dumps[n].run = run PROVE PrefixOfLog(n)'
    <2>1. PrefixOfLog(n) /\ dumps[n].entries \in Seq(Commands)
        BY <1>4 DEF DumpInv
    <2>2. Len(dumps[n].entries) \in Nat
        BY <2>1, LenProperties
    <2> QED
        BY <1>1, <1>2, <2>1, <2>2 DEF PrefixOfLog
<1> QED
    BY <1>1, <1>2, <1>3, <1>4 DEF DumpInv

\* Replication changes no file and no entry.
LEMMA ReplicateKeeps ==
    ASSUME DumpInv, NEW n \in Node, NEW i \in 1..MaxLog, Replicate(n, i)
    PROVE  DumpInv'
<1>1. /\ last' = [last EXCEPT ![n] = i] /\ i <= Len(log)
      /\ log' = log /\ dumps' = dumps /\ run' = run
    BY DEF Replicate
<1>2. last' \in [Node -> Nat] /\ \A m \in Node : last'[m] <= Len(log)
    BY <1>1 DEF DumpInv
<1>3. \A m \in Node : PrefixOfLog(m)' <=> PrefixOfLog(m)
    BY <1>1 DEF PrefixOfLog
<1> QED
    BY <1>1, <1>2, <1>3 DEF DumpInv

\* A node that stops writes the entries it has, a prefix of the leader's log.
LEMMA ShutdownKeeps ==
    ASSUME DumpInv, NEW n \in Node, Shutdown(n)
    PROVE  DumpInv'
<1> DEFINE file == [run |-> run, entries |-> SubSeq(log, 1, last[n])]
<1>1. /\ dumps' = [dumps EXCEPT ![n] = file]
      /\ log' = log /\ last' = last /\ run' = run
    BY DEF Shutdown, dumpRaftLogToFile
<1>2. log \in Seq(Commands) /\ last[n] \in Nat /\ last[n] <= Len(log)
    BY DEF DumpInv
<1>3. /\ SubSeq(log, 1, last[n]) \in Seq(Commands)
      /\ Len(SubSeq(log, 1, last[n])) = last[n]
      /\ \A i \in 1..last[n] : SubSeq(log, 1, last[n])[i] = log[i]
    BY <1>2, SMTT(30)
<1>4. file \in [run : Nat, entries : Seq(Commands)]
    BY <1>3 DEF DumpInv
<1>5. dumps' \in [Node -> [run : Nat, entries : Seq(Commands)]]
    BY <1>1, <1>4 DEF DumpInv
<1>6. dumps'[n] = file /\ \A m \in Node \ {n} : dumps'[m] = dumps[m]
    BY <1>1 DEF DumpInv
<1>7. PrefixOfLog(n)'
    BY <1>1, <1>2, <1>3, <1>6 DEF PrefixOfLog
<1>8. \A m \in Node \ {n} : PrefixOfLog(m)' <=> PrefixOfLog(m)
    BY <1>1, <1>6 DEF PrefixOfLog
<1>9. \A m \in Node : dumps'[m].run <= run'
    BY <1>1, <1>6 DEF DumpInv
<1> QED
    BY <1>1, <1>5, <1>6, <1>7, <1>8, <1>9 DEF DumpInv

\* The files that are left over are of earlier experiments than the new one.
LEMMA NextExperimentKeeps ==
    ASSUME DumpInv, NextExperiment
    PROVE  DumpInv'
<1>1. /\ run' = run + 1 /\ log' = <<>> /\ dumps' = dumps
      /\ last' = [n \in Node |-> 0]
    BY DEF NextExperiment
<1>2. \A n \in Node : dumps'[n].run < run'
    BY <1>1 DEF DumpInv
<1>3. log' \in Seq(Commands) /\ Len(log') = 0
    BY <1>1, EmptySeq
<1>4. run' \in Nat \ {0} /\ dumps' \in [Node -> [run : Nat, entries : Seq(Commands)]]
    BY <1>1 DEF DumpInv
<1>5. \A n \in Node : dumps'[n].run # run' /\ dumps'[n].run <= run'
    BY <1>2, <1>4
<1>6. last' \in [Node -> Nat] /\ \A n \in Node : last'[n] <= Len(log')
    BY <1>1, <1>3
<1> QED
    BY <1>3, <1>4, <1>5, <1>6 DEF DumpInv

\* Every step keeps the invariant.
LEMMA NextDump == DumpInv /\ [Next]_vars => DumpInv'
<1> SUFFICES ASSUME DumpInv, [Next]_vars PROVE DumpInv'
    OBVIOUS
<1>1. ASSUME NEW c \in Commands, AppendRequest(c) PROVE DumpInv'
    BY <1>1, AppendKeeps
<1>2. ASSUME NEW n \in Node, NEW i \in 1..MaxLog, Replicate(n, i) PROVE DumpInv'
    BY <1>2, ReplicateKeeps
<1>3. ASSUME NEW n \in Node, Shutdown(n) PROVE DumpInv'
    BY <1>3, ShutdownKeeps
<1>4. ASSUME NEW n \in Node, NoDump(n) PROVE DumpInv'
    <2>1. log' = log /\ last' = last /\ dumps' = dumps /\ run' = run
        BY <1>4 DEF NoDump
    <2> QED
        BY <2>1 DEF DumpInv, PrefixOfLog
<1>5. CASE NextExperiment
    BY <1>5, NextExperimentKeeps
<1>6. CASE UNCHANGED vars
    <2>1. log' = log /\ last' = last /\ dumps' = dumps /\ run' = run
        BY <1>6 DEF vars
    <2> QED
        BY <2>1 DEF DumpInv, PrefixOfLog
<1> QED
    BY <1>1, <1>2, <1>3, <1>4, <1>5, <1>6 DEF Next

\* majority_consistent accepts the files of every experiment that left none of an
\* earlier one behind, whenever its nodes stopped and whichever were killed.
THEOREM CleanRunsAlwaysPass == Spec => []CleanRunsPass
<1>1. DumpInv => CleanRunsPass
    BY PrefixesAreConsistent DEF CleanRunsPass
<1> QED
    BY InitDump, NextDump, <1>1, PTL DEF Spec
-----------------------------------------------------------------------------
(* The script sees what was committed *)

\* The nodes that have the entries up to index i
Having(l, i) == {n \in Node : l[n] >= i}

\* A quorum has the committed entries, and a node that has stopped and written its
\* file has written all the entries it has.
CommitInv ==
    /\ committed \in Nat /\ committed <= Len(log)
    /\ committed # 0 => Cardinality(Having(last, committed)) >= QUORUM
    /\ clean \subseteq Node /\ clean \cap up = {}
    /\ \A n \in clean : dumps[n].run = run /\ Len(dumps[n].entries) = last[n]

\* A nonempty set of indices has a greatest element, the one Advance chooses.
LEMMA GreatestIndex ==
    ASSUME NEW k \in Nat, NEW S \in SUBSET (1..k), S # {}
    PROVE  \E i \in S : \A j \in S : j <= i
<1> DEFINE Less == OpToRel(<, Nat)
           Below == {b \in Nat : k - b \in S}
<1>1. IsWellFoundedOn(Less, Nat)
    BY ZenonT(30), NatLessThanWellFounded
<1>2. \A m, n \in Nat : m < n => <<m, n>> \in Less
    BY DEF OpToRel
<1>3. Below \subseteq Nat
    OBVIOUS
<1>4. \A i \in S : i \in 1..k /\ k - i \in Nat /\ k - (k - i) = i
    OBVIOUS
<1>5. Below # {}
    BY ZenonT(30), <1>4
<1> HIDE DEF Less
<1>6. PICK b \in Below : \A a \in Below : <<a, b>> \notin Less
    <2> HIDE DEF Below
    <2> QED
        BY ZenonT(30), <1>1, <1>3, <1>5, WFMin
<1>7. b \in Nat /\ k - b \in S
    OBVIOUS
<1>8. ASSUME NEW j \in S PROVE j <= k - b
    <2>1. k - j \in Below
        BY <1>4
    <2>2. ~(k - j < b)
        BY ZenonT(30), <1>2, <1>3, <1>6, <2>1
    <2> QED
        BY <1>4, <1>7, <2>2
<1> QED
    BY <1>7, <1>8

\* As more nodes get the entries, a quorum stays one.
LEMMA HavingGrows ==
    ASSUME NEW l \in [Node -> Nat], NEW r \in [Node -> Nat], NEW i \in Nat,
           \A n \in Node : l[n] <= r[n], Cardinality(Having(l, i)) >= QUORUM
    PROVE  Cardinality(Having(r, i)) >= QUORUM
<1>1. IsFiniteSet(Node) /\ Cardinality(Node) \in Nat
    BY FS_CardinalityType, DumpsAssumption
<1>2. Having(l, i) \subseteq Having(r, i) /\ Having(r, i) \subseteq Node
    BY DEF Having
<1>3. IsFiniteSet(Having(r, i)) /\ Cardinality(Having(r, i)) \in Nat
    BY <1>1, <1>2, FS_Subset, FS_CardinalityType
<1>4. Cardinality(Having(l, i)) <= Cardinality(Having(r, i)) /\ Cardinality(Having(l, i)) \in Nat
    BY <1>2, <1>3, FS_Subset, FS_CardinalityType
<1>5. QUORUM \in Int
    BY <1>1, SMTT(30) DEF QUORUM
<1> QED
    BY <1>3, <1>4, <1>5

\* Only a node that is up gets more entries, and only Advance commits.
LEMMA NextCommit == DumpInv /\ CommitInv /\ [Next]_vars => CommitInv'
<1> SUFFICES ASSUME DumpInv, CommitInv, [Next]_vars PROVE CommitInv'
    OBVIOUS
<1>1. /\ last \in [Node -> Nat] /\ Len(log) \in Nat /\ run \in Nat
      /\ dumps \in [Node -> [run : Nat, entries : Seq(Commands)]]
    BY LenProperties DEF DumpInv
<1>2. last' \in [Node -> Nat]
    BY NextDump DEF DumpInv
<1>3. ASSUME NEW c \in Commands, AppendRequest(c) PROVE CommitInv'
    <2>1. /\ last' = [last EXCEPT ![Leader] = Len(log) + 1] /\ Leader \in up
          /\ committed' = committed /\ clean' = clean /\ up' = up /\ dumps' = dumps
          /\ run' = run
        BY <1>3 DEF AppendRequest
    <2>2. Len(log') = Len(log) + 1
        BY <1>3, AppendProperties DEF DumpInv, AppendRequest
    <2>3. \A n \in Node : last[n] <= last'[n]
        BY <1>1, <2>1 DEF DumpInv
    <2>4. \A n \in clean : last'[n] = last[n]
        BY <1>1, <2>1 DEF CommitInv
    <2>5. committed # 0 => Cardinality(Having(last', committed)) >= QUORUM
        BY ZenonT(30), <1>1, <1>2, <2>3, HavingGrows DEF CommitInv
    <2>6. committed' \in Nat /\ committed' <= Len(log')
        BY <1>1, <2>1, <2>2 DEF CommitInv
    <2> QED
        BY ZenonT(30), <2>1, <2>4, <2>5, <2>6 DEF CommitInv, Having, QUORUM
<1>4. ASSUME NEW n \in Node, NEW i \in 1..MaxLog, Replicate(n, i) PROVE CommitInv'
    <2>1. /\ last' = [last EXCEPT ![n] = i] /\ n \in up /\ i > last[n]
          /\ log' = log /\ clean' = clean /\ up' = up /\ dumps' = dumps /\ run' = run
          /\ Advance(last')
        BY <1>4 DEF Replicate
    <2>2. \A k \in Node : last[k] <= last'[k]
        BY <1>1, <2>1
    <2>3. \A k \in clean : last'[k] = last[k]
        BY <1>1, <2>1 DEF CommitInv
    <2>4. CASE committed' = committed
        <3>1. committed # 0 => Cardinality(Having(last', committed)) >= QUORUM
            BY ZenonT(30), <1>1, <1>2, <2>2, HavingGrows DEF CommitInv
        <3> QED
            BY ZenonT(30), <2>1, <2>3, <2>4, <3>1 DEF CommitInv, Having, QUORUM
    <2>5. CASE committed' # committed
        <3> DEFINE S == Majority(last')
        <3>1. committed' = (CHOOSE k \in S : \A j \in S : j <= k) /\ S # {}
            BY ZenonT(30), <2>1, <2>5 DEF Advance
        <3>2. S \in SUBSET (1..Len(log))
            BY DEF Majority
        <3>3. \E k \in S : \A j \in S : j <= k
            <4> HIDE DEF S
            <4> QED
                BY ZenonT(30), <1>1, <3>1, <3>2, GreatestIndex
        <3>4. committed' \in S
            BY ZenonT(30), <3>1, <3>3
        <3>5. /\ committed' \in 1..Len(log)
              /\ Cardinality(Having(last', committed')) >= QUORUM
            BY ZenonT(30), <3>4 DEF Majority, Having
        <3>6. committed' \in Nat /\ committed' <= Len(log')
            BY <1>1, <2>1, <3>5
        <3> QED
            BY ZenonT(30), <2>1, <2>3, <3>5, <3>6 DEF CommitInv, Having, QUORUM
    <2> QED
        BY <2>4, <2>5
<1>5. ASSUME NEW n \in Node, Shutdown(n) PROVE CommitInv'
    <2> DEFINE file == [run |-> run, entries |-> SubSeq(log, 1, last[n])]
    <2>1. /\ dumps' = [dumps EXCEPT ![n] = file] /\ n \in up
          /\ log' = log /\ last' = last /\ run' = run /\ committed' = committed
          /\ up' = up \ {n} /\ clean' = clean \cup {n}
        BY <1>5 DEF Shutdown, dumpRaftLogToFile
    <2>2. dumps'[n] = file /\ \A k \in Node : k # n => dumps'[k] = dumps[k]
        BY <1>1, <2>1
    <2>3. Len(SubSeq(log, 1, last[n])) = last[n]
        BY SMTT(30) DEF DumpInv
    <2>4. dumps'[n].run = run' /\ Len(dumps'[n].entries) = last'[n]
        <3>1. file.run = run /\ file.entries = SubSeq(log, 1, last[n])
            BY Zenon
        <3> HIDE DEF file
        <3> QED
            BY ZenonT(30), <2>1, <2>2, <2>3, <3>1
    <2>5. \A k \in clean : k # n /\ k \in Node
        BY <2>1 DEF CommitInv
    <2>6. \A k \in clean' : dumps'[k].run = run' /\ Len(dumps'[k].entries) = last'[k]
        BY ZenonT(30), <2>1, <2>2, <2>4, <2>5 DEF CommitInv
    <2>7. clean' \subseteq Node /\ clean' \cap up' = {}
        BY <2>1 DEF CommitInv
    <2> QED
        BY ZenonT(30), <2>1, <2>6, <2>7 DEF CommitInv, Having, QUORUM
<1>6. ASSUME NEW n \in Node, NoDump(n) PROVE CommitInv'
    <2>1. /\ log' = log /\ last' = last /\ dumps' = dumps /\ run' = run
          /\ committed' = committed /\ clean' = clean /\ up' = up \ {n}
        BY <1>6 DEF NoDump
    <2>2. clean' \cap up' = {}
        BY <2>1 DEF CommitInv
    <2> QED
        BY ZenonT(30), <2>1, <2>2 DEF CommitInv, Having, QUORUM
<1>7. CASE NextExperiment
    <2>1. log' = <<>> /\ committed' = 0 /\ clean' = {}
        BY <1>7 DEF NextExperiment
    <2> QED
        BY <2>1 DEF CommitInv
<1>8. CASE UNCHANGED vars
    <2>1. /\ log' = log /\ last' = last /\ dumps' = dumps /\ run' = run
          /\ committed' = committed /\ clean' = clean /\ up' = up
        BY <1>8 DEF vars
    <2> QED
        BY ZenonT(30), <2>1 DEF CommitInv, Having, QUORUM
<1> QED
    BY <1>3, <1>4, <1>5, <1>6, <1>7, <1>8 DEF Next

\* When every node has written its file, a quorum's files hold each committed entry.
LEMMA CommitsAgree == DumpInv /\ CommitInv => CommittedIsAgreed
<1> SUFFICES ASSUME DumpInv, CommitInv, clean = Node, NEW i \in 1..committed
             PROVE  Agreed(dumps, i, log[i])
    BY DEF CommittedIsAgreed
<1>1. committed \in Nat /\ last \in [Node -> Nat]
    BY DEF CommitInv, DumpInv
<1> DEFINE S == Having(last, committed)
<1>2. S \in SUBSET Node /\ Cardinality(S) >= QUORUM
    BY <1>1 DEF CommitInv, Having
<1>3. ASSUME NEW n \in S PROVE Opinion(dumps, n, i) = log[i]
    <2>1. n \in Node /\ last[n] >= committed
        BY DEF Having
    <2>2. Len(dumps[n].entries) = last[n] /\ PrefixOfLog(n)
        BY <2>1 DEF CommitInv, DumpInv
    <2>3. i \in 1..Len(dumps[n].entries)
        BY <1>1, <2>1, <2>2
    <2> QED
        BY ZenonT(30), <2>2, <2>3 DEF Opinion, PrefixOfLog
<1> HIDE DEF S
<1> QED
    BY ZenonT(30), <1>2, <1>3, QuorumAgrees

\* When every node of an experiment has written its file, verify_consistency.py finds
\* a quorum for the leader's entry at every index that a majority had.
THEOREM CommittedAlwaysAgreed == Spec => []CommittedIsAgreed
<1>1. Init => CommitInv
    BY DEF Init, CommitInv
<1> QED
    BY InitDump, NextDump, NextCommit, CommitsAgree, <1>1, PTL DEF Spec
=============================================================================
