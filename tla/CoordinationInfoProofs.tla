------------------------ MODULE CoordinationInfoProofs ------------------------
(***************************************************************************)
(* What the functions of CoordinationInfo do to one entry, for every set   *)
(* of transactions.                                                        *)
(***************************************************************************)
EXTENDS CoordinationInfo, WellFoundedInduction, TLAPS

\* A nonempty set of naturals has a least element, which Min returns.
LEMMA MinOfNaturals ==
  ASSUME NEW S \in SUBSET Nat, S # {}
  PROVE  /\ Min(S) \in S
         /\ \A y \in S : Min(S) <= y
<1> DEFINE R == {p \in Nat \X Nat : p[1] < p[2]}
<1>1. IsWellFoundedOn(R, Nat)
  BY NatLessThanWellFounded DEF OpToRel
<1>a. \A y, z \in Nat : y < z => <<y, z>> \in R
  OBVIOUS
<1> HIDE DEF R
<1>2. PICK x \in S : \A y \in S : <<y, x>> \notin R
  BY <1>1, WFMin
<1>3. ASSUME NEW y \in S PROVE x <= y
  <2>1. x \in Nat /\ y \in Nat
    OBVIOUS
  <2>2. ~(y < x)
    BY <1>2, <1>a, <2>1, Zenon
  <2> QED BY <2>1, <2>2
<1> QED BY <1>2, <1>3 DEF Min

-----------------------------------------------------------------------------
(* The bookkeeping of one database name.                                   *)

\* The readers' loop takes readers only and stops in front of a writer.
LEMMA ReaderPrefixLengthProperties ==
  ASSUME NEW queue \in Seq(Transactions)
  PROVE  LET n == ReaderPrefixLength(queue) IN
         /\ n \in 0..Len(queue)
         /\ \A i \in 1..n : queue[i] \in ReadOnly
         /\ n < Len(queue) => queue[n + 1] \notin ReadOnly
<1> DEFINE S == {n \in 0..Len(queue) : n < Len(queue) => queue[n + 1] \notin ReadOnly}
           n == ReaderPrefixLength(queue)
<1>0. Len(queue) \in Nat
  OBVIOUS
<1>1. S \in SUBSET Nat /\ Len(queue) \in S
  BY <1>0
<1>2. n \in S /\ \A y \in S : n <= y
  <2>1. S # {}
    BY <1>1
  <2>2. Min(S) \in S /\ \A y \in S : Min(S) <= y
    <3> HIDE DEF S
    <3> QED BY <1>1, <2>1, MinOfNaturals
  <2> QED BY <2>2 DEF ReaderPrefixLength
<1> HIDE DEF n
<1>3. ASSUME NEW i \in 1..n PROVE queue[i] \in ReadOnly
  <2>1. n \in Nat /\ n <= Len(queue)
    BY <1>0, <1>2
  <2>2. i - 1 \in 0..Len(queue) /\ i - 1 < n /\ i - 1 + 1 = i
    BY <2>1, <1>0
  <2>3. i - 1 \notin S
    <3> HIDE DEF S
    <3>1. i - 1 \in S => n <= i - 1
      BY <1>2, Zenon
    <3> QED BY <3>1, <2>1, <2>2
  <2> QED BY <2>2, <2>3
<1> QED BY <1>2, <1>3 DEF n

\* Everything below the queue's length can be counted on.
LEMMA GrantCountProperties ==
  ASSUME NEW info \in CoordinationInfos
  PROVE  LET n == GrantCount(info)  queue == info.pendingTransactions IN
         /\ n \in 0..Len(queue)
         /\ n > 0 => info.activeWriteTransaction = NoTransaction /\ queue # << >>
         /\ n > 0 /\ Head(queue) \notin ReadOnly =>
              n = 1 /\ info.activeReadTransactions = {}
         /\ n > 0 /\ Head(queue) \in ReadOnly => \A i \in 1..n : queue[i] \in ReadOnly
<1> DEFINE queue == info.pendingTransactions
           n == GrantCount(info)
           k == ReaderPrefixLength(queue)
<1>1. queue \in Seq(Transactions) /\ Len(queue) \in Nat
  BY DEF CoordinationInfos
<1>2. /\ k \in 0..Len(queue)
      /\ \A i \in 1..k : queue[i] \in ReadOnly
  BY <1>1, ReaderPrefixLengthProperties
<1>3. queue # << >> => Len(queue) >= 1
  BY <1>1
<1>4. \/ n = 0
      \/ /\ info.activeWriteTransaction = NoTransaction
         /\ queue # << >>
         /\ \/ Head(queue) \in ReadOnly /\ n = k
            \/ Head(queue) \notin ReadOnly /\ info.activeReadTransactions = {} /\ n = 1
  BY DEF GrantCount
<1> HIDE DEF k, n, queue
<1> QED BY <1>1, <1>2, <1>3, <1>4 DEF n, queue

\* What processPendingTransactions does to one entry: the granted become
\* active, nobody else moves, exclusion is kept and no grant is missed.
LEMMA ProcessPendingProperties ==
  ASSUME NEW info \in CoordinationInfos,
         ExclusiveInfo(info),
         DistinctInfo(info)
  PROVE  LET after == ProcessPendingTransactions(info) IN
         /\ after \in CoordinationInfos
         /\ ExclusiveInfo(after)
         /\ DistinctInfo(after)
         /\ NoMissedGrantInfo(after)
         /\ Active(after) = Active(info) \cup GrantedSet(info)
         /\ Pending(after) = Pending(info) \ GrantedSet(info)
         /\ GrantedSet(info) \subseteq Pending(info)
<1> DEFINE queue   == info.pendingTransactions
           readers == info.activeReadTransactions
           writer  == info.activeWriteTransaction
           n       == GrantCount(info)
           G       == GrantedSet(info)
           after   == ProcessPendingTransactions(info)
           rest    == SubSeq(queue, n + 1, Len(queue))
<1>1. /\ queue \in Seq(Transactions) /\ Len(queue) \in Nat
      /\ readers \subseteq Transactions
      /\ writer \in Transactions \cup {NoTransaction}
  BY DEF CoordinationInfos
<1>2. /\ n \in 0..Len(queue)
      /\ n > 0 => writer = NoTransaction /\ queue # << >>
      /\ n > 0 /\ Head(queue) \notin ReadOnly => n = 1 /\ readers = {}
      /\ n > 0 /\ Head(queue) \in ReadOnly => \A i \in 1..n : queue[i] \in ReadOnly
  BY GrantCountProperties
<1>3. G = {queue[i] : i \in 1..n}
  BY DEF GrantedSet
<1>4. /\ rest \in Seq(Transactions)
      /\ Len(rest) = Len(queue) - n
      /\ \A i \in 1..Len(rest) : rest[i] = queue[i + n]
  <2> HIDE DEF queue, n
  <2> QED BY <1>1, <1>2
<1>5. /\ after.pendingTransactions = rest
      /\ after.activeReadTransactions = readers \cup (G \cap ReadOnly)
      /\ after.activeWriteTransaction =
           IF n > 0 /\ Head(queue) \notin ReadOnly THEN Head(queue) ELSE writer
      /\ after = [pendingTransactions |-> rest,
                  activeReadTransactions |-> readers \cup (G \cap ReadOnly),
                  activeWriteTransaction |->
                    IF n > 0 /\ Head(queue) \notin ReadOnly THEN Head(queue) ELSE writer]
  BY DEF ProcessPendingTransactions
<1> HIDE DEF n, G, after, rest
<1>6. queue # << >> => /\ Len(queue) >= 1
                       /\ Head(queue) = queue[1]
                       /\ queue[1] \in Transactions
  <2> HIDE DEF queue
  <2> QED BY <1>1
<1>7. \/ /\ n = 0 /\ G = {}
         /\ after.activeReadTransactions = readers
         /\ after.activeWriteTransaction = writer
      \/ /\ n = 1 /\ G = {queue[1]}
         /\ queue # << >> /\ queue[1] \notin ReadOnly
         /\ readers = {} /\ writer = NoTransaction
         /\ after.activeReadTransactions = {}
         /\ after.activeWriteTransaction = queue[1]
      \/ /\ n > 0 /\ G \subseteq ReadOnly /\ queue[1] \in G
         /\ queue # << >> /\ queue[1] \in ReadOnly
         /\ writer = NoTransaction
         /\ after.activeReadTransactions = readers \cup G
         /\ after.activeWriteTransaction = NoTransaction
  <2> HIDE DEF queue, readers, writer
  <2>1. CASE n = 0
    <3>1. G = {}
      BY <1>3, <2>1
    <3> QED BY <2>1, <3>1, <1>5
  <2>2. CASE n > 0 /\ Head(queue) \notin ReadOnly
    <3>1. n = 1 /\ G = {queue[1]}
      BY <1>2, <1>3, <2>2
    <3> QED BY <2>2, <3>1, <1>2, <1>5, <1>6
  <2>3. CASE n > 0 /\ Head(queue) \in ReadOnly
    <3>1. G \subseteq ReadOnly /\ queue[1] \in G
      BY <1>2, <1>3, <2>3
    <3> QED BY <2>3, <3>1, <1>2, <1>5, <1>6
  <2> QED BY <1>2, <2>1, <2>2, <2>3
<1>8. G \subseteq Pending(info) /\ G \subseteq Transactions
  <2> HIDE DEF queue
  <2>1. \A i \in 1..n : i \in DOMAIN queue /\ queue[i] \in Transactions
    BY <1>1, <1>2
  <2> QED BY <1>3, <2>1 DEF Pending, queue
<1>9. after \in CoordinationInfos
  <2>1. /\ after.activeReadTransactions \subseteq Transactions
        /\ after.activeWriteTransaction \in Transactions \cup {NoTransaction}
    BY <1>1, <1>6, <1>7, <1>8
  <2> QED BY <1>4, <1>5, <2>1 DEF CoordinationInfos
<1>10. Active(after) = Active(info) \cup G
  <2>1. queue # << >> => queue[1] # NoTransaction
    BY <1>6, NoTransactionAssumption
  <2> QED BY <1>7, <2>1 DEF Active
<1>11. ExclusiveInfo(after)
  BY <1>7 DEF ExclusiveInfo
<1>12. \A i, j \in 1..Len(queue) : queue[i] = queue[j] => i = j
  BY <1>1 DEF DistinctInfo
<1>13. \A i \in 1..Len(queue) : queue[i] \in G <=> i <= n
  <2> HIDE DEF queue
  <2> QED BY <1>1, <1>2, <1>3, <1>12
<1>14. Pending(info) = {queue[i] : i \in 1..Len(queue)}
  BY <1>1 DEF Pending
<1>15. Pending(after) = {rest[i] : i \in 1..Len(rest)}
  BY <1>4, <1>5 DEF Pending
<1>16. Pending(after) = Pending(info) \ G
  <2> HIDE DEF queue
  <2>1. ASSUME NEW t \in Pending(after) PROVE t \in Pending(info) \ G
    <3>1. PICK i \in 1..Len(rest) : t = rest[i]
      BY <1>15
    <3>2. i + n \in 1..Len(queue) /\ t = queue[i + n] /\ ~(i + n <= n)
      BY <3>1, <1>1, <1>2, <1>4
    <3> QED BY <3>2, <1>13, <1>14
  <2>2. ASSUME NEW t \in Pending(info) \ G PROVE t \in Pending(after)
    <3>1. PICK i \in 1..Len(queue) : t = queue[i]
      BY <1>14
    <3>2. ~(i <= n)
      BY <3>1, <1>13
    <3>3. i - n \in 1..Len(rest) /\ i - n + n = i
      BY <3>1, <3>2, <1>1, <1>2, <1>4
    <3>4. rest[i - n] = queue[i]
      BY <3>3, <1>4
    <3> QED BY <3>1, <3>3, <3>4, <1>15
  <2> QED BY <2>1, <2>2
<1>17. DistinctInfo(after)
  <2>1. ASSUME NEW i \in 1..Len(rest), NEW j \in 1..Len(rest), rest[i] = rest[j]
        PROVE  i = j
    <3> HIDE DEF queue
    <3>1. /\ i + n \in 1..Len(queue) /\ j + n \in 1..Len(queue)
          /\ queue[i + n] = queue[j + n]
      BY <2>1, <1>1, <1>2, <1>4
    <3>2. i + n = j + n
      BY <3>1, <1>12
    <3> QED BY <3>2, <1>1, <1>2, <1>4
  <2>2. ASSUME NEW i \in 1..Len(rest) PROVE rest[i] \notin Active(after)
    <3>1. rest[i] \in Pending(info) \ G
      BY <1>15, <1>16
    <3>2. rest[i] \notin Active(info)
      BY <3>1 DEF DistinctInfo, Pending
    <3> QED BY <3>1, <3>2, <1>10
  <2>3. DOMAIN rest = 1..Len(rest)
    BY <1>4
  <2> QED BY <1>5, <2>1, <2>2, <2>3 DEF DistinctInfo
<1>18. NoMissedGrantInfo(after)
  <2> DEFINE k == ReaderPrefixLength(queue)
  <2>1. /\ k \in 0..Len(queue)
        /\ k < Len(queue) => queue[k + 1] \notin ReadOnly
    BY <1>1, ReaderPrefixLengthProperties
  <2>2. SUFFICES ASSUME rest # << >>, after.activeWriteTransaction = NoTransaction
                 PROVE  Head(rest) \notin ReadOnly /\ after.activeReadTransactions # {}
    BY <1>5 DEF NoMissedGrantInfo
  <2>3. /\ n < Len(queue) /\ Head(rest) = queue[n + 1] /\ queue # << >>
    <3> HIDE DEF queue
    <3>1. Len(rest) >= 1 /\ Head(rest) = rest[1]
      BY <2>2, <1>4
    <3> QED BY <3>1, <1>1, <1>2, <1>4
  <2>4. n = 0 => writer = NoTransaction
    BY <1>7, <2>2
  <2>5. CASE n = 0
    <3>1. \/ queue[1] \in ReadOnly /\ k = 0
          \/ queue[1] \notin ReadOnly /\ readers # {}
      BY <2>3, <2>4, <2>5, <1>6 DEF GrantCount, n
    <3>2. ~(queue[1] \in ReadOnly /\ k = 0)
      BY <2>1, <2>3, <2>5
    <3> QED BY <1>7, <2>3, <2>5, <3>1, <3>2
  <2>6. CASE n > 0
    <3>1. /\ queue[1] \in ReadOnly /\ queue[1] \in G
          /\ after.activeReadTransactions = readers \cup G
      BY <1>7, <2>2, <2>6, <1>6, NoTransactionAssumption
    <3>2. n = k
      BY <3>1, <2>3, <2>6, <1>2, <1>6 DEF GrantCount, n
    <3> QED BY <3>1, <3>2, <2>1, <2>3
  <2> QED BY <2>5, <2>6, <1>2
<1> QED BY <1>8, <1>9, <1>10, <1>11, <1>16, <1>17, <1>18 DEF after, G

\* The two updates in front of processPendingTransactions.
LEMMA EnqueueProperties ==
  ASSUME NEW info \in CoordinationInfos, NEW t \in Transactions,
         ExclusiveInfo(info), DistinctInfo(info),
         t \notin Pending(info), t \notin Active(info)
  PROVE  LET new == Enqueue(info, t) IN
         /\ new \in CoordinationInfos
         /\ ExclusiveInfo(new)
         /\ DistinctInfo(new)
         /\ Pending(new) = Pending(info) \cup {t}
         /\ Active(new) = Active(info)
<1> DEFINE queue == info.pendingTransactions
           new   == Enqueue(info, t)
           longer == Append(queue, t)
<1>1. queue \in Seq(Transactions) /\ Len(queue) \in Nat
  BY DEF CoordinationInfos
<1>2. /\ new \in CoordinationInfos
      /\ new.pendingTransactions = longer
      /\ new.activeReadTransactions = info.activeReadTransactions
      /\ new.activeWriteTransaction = info.activeWriteTransaction
  BY <1>1, SMTT(30) DEF Enqueue, CoordinationInfos
<1>3. Active(new) = Active(info) /\ ExclusiveInfo(new)
  BY <1>2 DEF Active, ExclusiveInfo
<1>4. /\ DOMAIN longer = 1..(Len(queue) + 1)
      /\ \A i \in 1..Len(queue) : longer[i] = queue[i]
      /\ longer[Len(queue) + 1] = t
      /\ DOMAIN queue = 1..Len(queue)
  <2> HIDE DEF queue
  <2> QED BY <1>1
<1> HIDE DEF new, longer
<1>5. \A i \in DOMAIN queue : queue[i] # t /\ queue[i] \in Pending(info)
  BY DEF Pending
<1>6. Pending(new) = Pending(info) \cup {t}
  <2>1. Pending(new) = {longer[i] : i \in 1..(Len(queue) + 1)}
    BY <1>2, <1>4 DEF Pending
  <2>2. Pending(info) = {queue[i] : i \in 1..Len(queue)}
    BY <1>4 DEF Pending
  <2> HIDE DEF queue
  <2>3. \A i \in 1..(Len(queue) + 1) : i \in 1..Len(queue) \/ i = Len(queue) + 1
    BY <1>1
  <2>4. 1..Len(queue) \subseteq 1..(Len(queue) + 1) /\ Len(queue) + 1 \in 1..(Len(queue) + 1)
    BY <1>1
  <2>5. ASSUME NEW u \in Pending(new) PROVE u \in Pending(info) \cup {t}
    BY <2>1, <2>2, <2>3, <1>4
  <2>6. ASSUME NEW u \in Pending(info) \cup {t} PROVE u \in Pending(new)
    <3>1. CASE u = t
      BY <3>1, <2>1, <2>4, <1>4
    <3>2. CASE u \in Pending(info)
      BY <3>2, <2>1, <2>2, <2>4, <1>4
    <3> QED BY <3>1, <3>2
  <2> QED BY <2>5, <2>6
<1>7. DistinctInfo(new)
  <2>1. ASSUME NEW i \in DOMAIN longer, NEW j \in DOMAIN longer, longer[i] = longer[j]
        PROVE  i = j
    <3>0. \A x, y \in DOMAIN queue : queue[x] = queue[y] => x = y
      BY DEF DistinctInfo
    <3> HIDE DEF queue
    <3>1. /\ i \in 1..Len(queue) \/ i = Len(queue) + 1
          /\ j \in 1..Len(queue) \/ j = Len(queue) + 1
      BY <1>1, <1>4
    <3> QED BY <3>0, <3>1, <2>1, <1>4, <1>5
  <2>2. ASSUME NEW i \in DOMAIN longer PROVE longer[i] \notin Active(new)
    <3>1. longer[i] \in Pending(info) \cup {t}
      BY <1>2, <1>6 DEF Pending
    <3>2. \A u \in Pending(info) : u \notin Active(info)
      BY DEF DistinctInfo, Pending
    <3> QED BY <3>1, <3>2, <1>3
  <2> QED BY <1>2, <2>1, <2>2 DEF DistinctInfo
<1> QED BY <1>2, <1>3, <1>6, <1>7 DEF new

\* releaseLock takes one transaction out of the active ones.
LEMMA DeactivateProperties ==
  ASSUME NEW info \in CoordinationInfos, NEW t \in Active(info),
         ExclusiveInfo(info), DistinctInfo(info)
  PROVE  LET new == Deactivate(info, t) IN
         /\ new \in CoordinationInfos
         /\ ExclusiveInfo(new)
         /\ DistinctInfo(new)
         /\ Pending(new) = Pending(info)
         /\ Active(new) = Active(info) \ {t}
<1> DEFINE new == Deactivate(info, t)
<1>1. /\ new \in CoordinationInfos
      /\ new.pendingTransactions = info.pendingTransactions
      /\ new.activeReadTransactions =
           IF t \in ReadOnly THEN info.activeReadTransactions \ {t}
                             ELSE info.activeReadTransactions
      /\ new.activeWriteTransaction =
           IF t \in ReadOnly THEN info.activeWriteTransaction ELSE NoTransaction
  BY DEF Deactivate, CoordinationInfos
<1> HIDE DEF new
<1>2. t \notin ReadOnly => t = info.activeWriteTransaction /\ info.activeReadTransactions = {}
  BY DEF Active, ExclusiveInfo
<1>3. t \in ReadOnly => info.activeWriteTransaction = NoTransaction
  BY DEF Active, ExclusiveInfo
<1>4. Active(new) = Active(info) \ {t}
  BY <1>1, <1>2, <1>3 DEF Active
<1>5. ExclusiveInfo(new)
  BY <1>1, <1>2, <1>3 DEF ExclusiveInfo
<1>6. DistinctInfo(new)
  BY <1>1, <1>4 DEF DistinctInfo
<1>7. Pending(new) = Pending(info)
  BY <1>1 DEF Pending
<1> QED BY <1>1, <1>4, <1>5, <1>6, <1>7 DEF new

\* The entry of a name that is new.
LEMMA NewInfoProperties ==
  /\ NewCoordinationInfo \in CoordinationInfos
  /\ Pending(NewCoordinationInfo) = {} /\ Active(NewCoordinationInfo) = {}
  /\ ExclusiveInfo(NewCoordinationInfo) /\ DistinctInfo(NewCoordinationInfo)
<1>1. NewCoordinationInfo \in CoordinationInfos
  BY DEF NewCoordinationInfo, CoordinationInfos
<1>2. Pending(NewCoordinationInfo) = {} /\ Active(NewCoordinationInfo) = {}
  BY DEF NewCoordinationInfo, Pending, Active
<1>3. ExclusiveInfo(NewCoordinationInfo) /\ DistinctInfo(NewCoordinationInfo)
  BY DEF NewCoordinationInfo, ExclusiveInfo, DistinctInfo
<1> QED BY <1>1, <1>2, <1>3

\* The calls of lockAcquired are for different transactions.
LEMMA GrantedProperties ==
  ASSUME NEW info \in CoordinationInfos, DistinctInfo(info)
  PROVE  /\ Granted(info) \in Seq(Transactions)
         /\ GrantedSet(info) = {Granted(info)[i] : i \in DOMAIN Granted(info)}
         /\ \A i, j \in DOMAIN Granted(info) : Granted(info)[i] = Granted(info)[j] => i = j
<1> DEFINE queue == info.pendingTransactions
           n == GrantCount(info)
<1>1. queue \in Seq(Transactions) /\ Len(queue) \in Nat
  BY DEF CoordinationInfos
<1>2. n \in 0..Len(queue)
  BY GrantCountProperties
<1>3. \A i, j \in 1..Len(queue) : queue[i] = queue[j] => i = j
  BY <1>1 DEF DistinctInfo
<1>4. Granted(info) = SubSeq(queue, 1, n) /\ GrantedSet(info) = {queue[i] : i \in 1..n}
  BY DEF Granted, GrantedSet
<1> HIDE DEF queue, n
<1>5. /\ SubSeq(queue, 1, n) \in Seq(Transactions) /\ DOMAIN SubSeq(queue, 1, n) = 1..n
      /\ \A i \in 1..n : SubSeq(queue, 1, n)[i] = queue[i]
  BY <1>1, <1>2
<1>6. \A i \in 1..n : i \in 1..Len(queue)
  BY <1>1, <1>2
<1>7. {SubSeq(queue, 1, n)[i] : i \in DOMAIN SubSeq(queue, 1, n)} = {queue[i] : i \in 1..n}
  BY <1>5
<1>8. \A i, j \in DOMAIN SubSeq(queue, 1, n) :
        SubSeq(queue, 1, n)[i] = SubSeq(queue, 1, n)[j] => i = j
  BY <1>3, <1>5, <1>6
<1> QED BY <1>4, <1>5, <1>7, <1>8
=============================================================================
