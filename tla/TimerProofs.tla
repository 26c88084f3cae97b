----------------------------- MODULE TimerProofs -----------------------------
(***************************************************************************)
(* Proofs about the timer handler and the timed function blocks: types,    *)
(* that entries are triggered at exactly their tick, and that every START  *)
(* is registered exactly once.                                             *)
(***************************************************************************)
EXTENDS TimedFBs, SequenceTheorems, FiniteSetTheorems, TLAPS

-----------------------------------------------------------------------------
(* The sorted list *)

\* The entries of a list are in the order of their times.
Sorted(list) ==
    \A i, j \in 1 .. Len(list) : i < j => list[i].mTimeOut <= list[j].mTimeOut

\* Nothing on the list is due at the time given.
Later(list, time) == \A i \in 1 .. Len(list) : list[i].mTimeOut > time

\* A set of natural numbers that is not empty has a least element.
LEMMA LeastNumber ==
    ASSUME NEW T, T \subseteq Nat, T # {}
    PROVE  \E x \in T : \A y \in T : x <= y
  <1> DEFINE R == OpToRel(<, Nat)
  <1>1. IsWellFoundedOn(R, Nat)
    BY NatLessThanWellFounded
  <1>2. PICK x \in T : \A y \in T : ~ (<<y, x>> \in R)
    <2> HIDE DEF R
    <2> QED
      BY <1>1, WFMin
  <1>3. \A y \in T : ~ (y < x)
    BY <1>2 DEF OpToRel
  <1> QED
    BY <1>3

\* The fields of what is on a list of entries.
LEMMA ListFields ==
    ASSUME NEW list \in Seq(Entry), NEW i \in 1 .. Len(list)
    PROVE  /\ list[i] \in Entry
           /\ list[i].mTimedFB \in FB
           /\ list[i].mTimeOut \in Nat
           /\ list[i].mInterval \in Nat
  <1>1. list[i] \in Entry
    BY ElementOfSeq
  <1> QED
    BY <1>1 DEF Entry

\* A list cut in two, position by position.
LEMMA Split ==
    ASSUME NEW list \in Seq(Entry), NEW k \in 0 .. Len(list)
    PROVE  LET a == SubSeq(list, 1, k)
               b == SubSeq(list, k + 1, Len(list))
           IN  /\ a \in Seq(Entry)
               /\ Len(a) = k
               /\ \A i \in 1 .. k : a[i] = list[i]
               /\ b \in Seq(Entry)
               /\ Len(b) = Len(list) - k
               /\ \A i \in 1 .. Len(list) - k : b[i] = list[k + i]
  <1> DEFINE a == SubSeq(list, 1, k)
             b == SubSeq(list, k + 1, Len(list))
  <1>4. Len(list) \in Nat /\ k \in Nat /\ k <= Len(list)
    BY LenProperties
  <1>5. \A i \in 1 .. Len(list) : list[i] \in Entry
    BY ElementOfSeq
  <1>6. /\ a \in Seq(Entry)
        /\ Len(a) = k
        /\ \A i \in 1 .. k : a[i] = list[i]
    <2>1. \A i \in 1 .. k : list[i] \in Entry
      BY <1>4, <1>5
    <2>2. /\ a \in Seq(Entry)
          /\ Len(a) = IF 1 <= k THEN k - 1 + 1 ELSE 0
          /\ \A i \in 1 .. k - 1 + 1 : a[i] = list[1 + i - 1]
      BY <2>1, <1>4, SubSeqProperties
    <2> HIDE DEF a
    <2> QED
      BY <2>2, <1>4
  <1>7. /\ b \in Seq(Entry)
        /\ Len(b) = Len(list) - k
        /\ \A i \in 1 .. Len(list) - k : b[i] = list[k + i]
    <2>1. \A i \in k + 1 .. Len(list) : list[i] \in Entry
      BY <1>4, <1>5
    <2>2. /\ b \in Seq(Entry)
          /\ Len(b) = IF k + 1 <= Len(list) THEN Len(list) - (k + 1) + 1 ELSE 0
          /\ \A i \in 1 .. Len(list) - (k + 1) + 1 : b[i] = list[k + 1 + i - 1]
      BY <2>1, <1>4, SubSeqProperties
    <2> HIDE DEF b
    <2> QED
      BY <2>2, <1>4
  <1> QED
    BY <1>6, <1>7

\* upperBound is the position at which std::upper_bound ends its search; there is one,
\* whether the list is sorted or not.
LEMMA UpperBound ==
    ASSUME NEW list \in Seq(Entry), NEW time \in Nat
    PROVE  LET k == upperBound(list, time)
           IN  /\ k \in 0 .. Len(list)
               /\ \A i \in 1 .. k : list[i].mTimeOut <= time
               /\ k < Len(list) => list[k + 1].mTimeOut > time
  <1> DEFINE P(k) == /\ \A i \in 1 .. k : list[i].mTimeOut <= time
                     /\ k < Len(list) => list[k + 1].mTimeOut > time
  <1> DEFINE T == {i \in 1 .. Len(list) : list[i].mTimeOut > time}
  <1>1. Len(list) \in Nat
    BY LenProperties
  <1>2. \A i \in 1 .. Len(list) : list[i].mTimeOut \in Nat
    BY ListFields
  <1>3. \E k \in 0 .. Len(list) : P(k)
    <2>1. CASE T = {}
      <3>1. \A i \in 1 .. Len(list) : list[i].mTimeOut <= time
        BY <2>1, <1>2
      <3> QED
        BY <3>1, <1>1
    <2>2. CASE T # {}
      <3>1. PICK x \in T : \A y \in T : x <= y
        <4>1. T \subseteq Nat
          BY <1>1
        <4> QED
          BY <2>2, <4>1, LeastNumber
      <3>2. x - 1 \in 0 .. Len(list) /\ (x - 1) + 1 = x
        BY <1>1
      <3>3. \A i \in 1 .. (x - 1) : list[i].mTimeOut <= time
        BY <3>1, <3>2, <1>1, <1>2
      <3> QED
        BY <3>2, <3>3
    <2> QED
      BY <2>1, <2>2
  <1> QED
    BY <1>3 DEF upperBound

\* What addTimedFBEntry builds, position by position.
LEMMA AddEntry ==
    ASSUME NEW list \in Seq(Entry), NEW entry \in Entry
    PROVE  LET k == upperBound(list, entry.mTimeOut)
               r == addTimedFBEntry(list, entry)
           IN  /\ k \in 0 .. Len(list)
               /\ r \in Seq(Entry)
               /\ Len(r) = Len(list) + 1
               /\ \A i \in 1 .. k : r[i] = list[i]
               /\ r[k + 1] = entry
               /\ \A i \in k + 2 .. Len(list) + 1 : r[i] = list[i - 1]
  <1> DEFINE k == upperBound(list, entry.mTimeOut)
             r == addTimedFBEntry(list, entry)
             a == SubSeq(list, 1, k)
             b == SubSeq(list, k + 1, Len(list))
  <1>1. entry.mTimeOut \in Nat
    BY DEF Entry
  <1>2. k \in 0 .. Len(list)
    BY <1>1, UpperBound
  <1>3. r = (a \o <<entry>>) \o b
    BY DEF addTimedFBEntry
  <1> HIDE DEF k, r
  <1>4. Len(list) \in Nat /\ k \in Nat /\ k <= Len(list)
    BY <1>2, LenProperties
  <1>5. \A i \in 1 .. Len(list) : list[i] \in Entry
    BY ElementOfSeq
  <1>6. /\ a \in Seq(Entry)
        /\ Len(a) = k
        /\ \A i \in 1 .. k : a[i] = list[i]
        /\ b \in Seq(Entry)
        /\ Len(b) = Len(list) - k
        /\ \A i \in 1 .. Len(list) - k : b[i] = list[k + i]
    BY <1>2, Split
  <1>7. Len(a) = k /\ Len(b) = Len(list) - k
    BY <1>6
  <1> HIDE DEF a, b
  <1> DEFINE e == <<entry>>
             ae == a \o e
  <1>8. e \in Seq(Entry) /\ Len(e) = 1 /\ e[1] = entry
    OBVIOUS
  <1>9. r = ae \o b
    BY <1>3
  <1> HIDE DEF e
  <1>10. /\ ae \in Seq(Entry)
         /\ Len(ae) = Len(a) + Len(e)
         /\ \A i \in 1 .. Len(a) + Len(e) : ae[i] = IF i <= Len(a) THEN a[i] ELSE e[i - Len(a)]
    <2>1. a \in Seq(Entry)
      BY <1>6
    <2>2. e \in Seq(Entry)
      BY <1>8
    <2> QED
      BY <2>1, <2>2, ConcatProperties
  <1> HIDE DEF ae
  <1>11. /\ r \in Seq(Entry)
         /\ Len(r) = Len(ae) + Len(b)
         /\ \A i \in 1 .. Len(ae) + Len(b) : r[i] = IF i <= Len(ae) THEN ae[i] ELSE b[i - Len(ae)]
    <2>1. ae \in Seq(Entry)
      BY <1>10
    <2>2. b \in Seq(Entry)
      BY <1>6
    <2> QED
      BY <2>1, <2>2, <1>9, ConcatProperties
  <1>12. Len(ae) = k + 1 /\ Len(r) = Len(list) + 1
    BY <1>4, <1>7, <1>8, <1>10, <1>11
  <1>13. \A i \in 1 .. k : r[i] = list[i]
    <2> SUFFICES ASSUME NEW i \in 1 .. k
                 PROVE  r[i] = list[i]
      OBVIOUS
    <2>1. i \in 1 .. Len(ae) + Len(b) /\ i <= Len(ae) /\ i \in 1 .. Len(a) + Len(e) /\ i <= Len(a)
      BY <1>4, <1>7, <1>8, <1>12
    <2>2. r[i] = ae[i]
      BY <2>1, <1>11
    <2>3. ae[i] = a[i]
      BY <2>1, <1>10
    <2> QED
      BY <2>2, <2>3, <1>6
  <1>14. r[k + 1] = entry
    <2>1. k + 1 \in 1 .. Len(ae) + Len(b) /\ k + 1 <= Len(ae)
      BY <1>4, <1>7, <1>12
    <2>2. k + 1 \in 1 .. Len(a) + Len(e) /\ ~(k + 1 <= Len(a)) /\ k + 1 - Len(a) = 1
      <3>1. Len(a) = k /\ Len(e) = 1 /\ k \in Nat
        BY <1>4, <1>7, <1>8
      <3> QED
        BY <3>1
    <2>3. r[k + 1] = ae[k + 1]
      BY <2>1, <1>11
    <2>4. ae[k + 1] = e[k + 1 - Len(a)]
      <3>1. \A i \in 1 .. Len(a) + Len(e) : ~(i <= Len(a)) => ae[i] = e[i - Len(a)]
        BY <1>10
      <3> QED
        BY <3>1, <2>2, <1>4
    <2> QED
      BY <2>2, <2>3, <2>4, <1>8
  <1>15. \A i \in k + 2 .. Len(list) + 1 : r[i] = list[i - 1]
    <2> SUFFICES ASSUME NEW i \in k + 2 .. Len(list) + 1
                 PROVE  r[i] = list[i - 1]
      OBVIOUS
    <2>1. /\ i \in 1 .. Len(ae) + Len(b) /\ ~(i <= Len(ae)) /\ i - Len(ae) = i - (k + 1)
          /\ i - (k + 1) \in 1 .. Len(list) - k /\ k + (i - (k + 1)) = i - 1
      BY <1>4, <1>7, <1>12
    <2>2. b[i - (k + 1)] = list[k + (i - (k + 1))]
      BY <2>1, <1>6
    <2>3. r[i] = b[i - Len(ae)]
      BY <2>1, <1>11
    <2> QED
      BY <2>1, <2>2, <2>3
  <1>16. r \in Seq(Entry)
    BY <1>11
  <1> QED
    BY <1>2, <1>12, <1>13, <1>14, <1>15, <1>16 DEF k, r

\* addTimedFBEntry keeps the list sorted, and an entry that is later than a time does not
\* make anything on the list due at that time.
LEMMA AddEntryOrder ==
    ASSUME NEW list \in Seq(Entry), NEW entry \in Entry, Sorted(list)
    PROVE  /\ Sorted(addTimedFBEntry(list, entry))
           /\ \A time \in Nat : Later(list, time) /\ entry.mTimeOut > time
                                   => Later(addTimedFBEntry(list, entry), time)
  <1> DEFINE k == upperBound(list, entry.mTimeOut)
             r == addTimedFBEntry(list, entry)
  <1>1. /\ k \in 0 .. Len(list)
        /\ r \in Seq(Entry)
        /\ Len(r) = Len(list) + 1
        /\ \A i \in 1 .. k : r[i] = list[i]
        /\ r[k + 1] = entry
        /\ \A i \in k + 2 .. Len(list) + 1 : r[i] = list[i - 1]
    BY AddEntry
  <1>2. entry.mTimeOut \in Nat
    BY DEF Entry
  <1>3. /\ \A i \in 1 .. k : list[i].mTimeOut <= entry.mTimeOut
        /\ k < Len(list) => list[k + 1].mTimeOut > entry.mTimeOut
    BY <1>2, UpperBound
  <1> HIDE DEF k, r
  <1>4. Len(list) \in Nat
    BY LenProperties
  <1>5. \A i \in 1 .. Len(list) : list[i].mTimeOut \in Nat
    BY ListFields
  <1>6. \A i \in k + 1 .. Len(list) : list[i].mTimeOut > entry.mTimeOut
    <2> SUFFICES ASSUME NEW i \in k + 1 .. Len(list)
                 PROVE  list[i].mTimeOut > entry.mTimeOut
      OBVIOUS
    <2>1. /\ k + 1 \in 1 .. Len(list) /\ i \in 1 .. Len(list) /\ k < Len(list)
          /\ i = k + 1 \/ k + 1 < i
      BY <1>1, <1>4
    <2>2. list[k + 1].mTimeOut <= list[i].mTimeOut
      BY <2>1, <1>5 DEF Sorted
    <2> QED
      BY <2>1, <2>2, <1>2, <1>3, <1>5
  <1>7. Sorted(r)
    <2> SUFFICES ASSUME NEW i \in 1 .. Len(r), NEW j \in 1 .. Len(r), i < j
                 PROVE  r[i].mTimeOut <= r[j].mTimeOut
      BY DEF Sorted
    <2>1. CASE j <= k
      <3>1. i \in 1 .. k /\ j \in 1 .. k /\ i \in 1 .. Len(list) /\ j \in 1 .. Len(list)
        BY <2>1, <1>1, <1>4
      <3> QED
        BY <3>1, <1>1 DEF Sorted
    <2>2. CASE j = k + 1
      <3>1. i \in 1 .. k
        BY <2>2, <1>1, <1>4
      <3> QED
        BY <3>1, <2>2, <1>1, <1>3
    <2>3. CASE j > k + 1 /\ i <= k
      <3>1. i \in 1 .. k /\ i \in 1 .. Len(list) /\ j - 1 \in 1 .. Len(list) /\ i < j - 1
              /\ j \in k + 2 .. Len(list) + 1
        BY <2>3, <1>1, <1>4
      <3>2. list[i].mTimeOut <= list[j - 1].mTimeOut
        BY <3>1 DEF Sorted
      <3> QED
        BY <3>1, <3>2, <1>1
    <2>4. CASE j > k + 1 /\ i = k + 1
      <3>1. j - 1 \in k + 1 .. Len(list) /\ j \in k + 2 .. Len(list) + 1 /\ j - 1 \in 1 .. Len(list)
        BY <2>4, <1>1, <1>4
      <3>2. list[j - 1].mTimeOut > entry.mTimeOut
        BY <3>1, <1>6
      <3> QED
        BY <3>1, <3>2, <2>4, <1>1, <1>2, <1>5
    <2>5. CASE i > k + 1
      <3>1. /\ i - 1 \in 1 .. Len(list) /\ j - 1 \in 1 .. Len(list) /\ i - 1 < j - 1
            /\ i \in k + 2 .. Len(list) + 1 /\ j \in k + 2 .. Len(list) + 1
        BY <2>5, <1>1, <1>4
      <3>2. list[i - 1].mTimeOut <= list[j - 1].mTimeOut
        BY <3>1 DEF Sorted
      <3> QED
        BY <3>1, <3>2, <1>1
    <2>6. i \in Int /\ j \in Int /\ k \in Int
      BY <1>1, <1>4
    <2> QED
      BY <2>1, <2>2, <2>3, <2>4, <2>5, <2>6
  <1>8. ASSUME NEW time \in Nat, Later(list, time), entry.mTimeOut > time
        PROVE  Later(r, time)
    <2> SUFFICES ASSUME NEW i \in 1 .. Len(r)
                 PROVE  r[i].mTimeOut > time
      BY DEF Later
    <2>1. CASE i <= k
      <3>1. i \in 1 .. k /\ i \in 1 .. Len(list)
        BY <2>1, <1>1, <1>4
      <3> QED
        BY <3>1, <1>1, <1>8 DEF Later
    <2>2. CASE i = k + 1
      BY <2>2, <1>1, <1>8
    <2>3. CASE i > k + 1
      <3>1. i \in k + 2 .. Len(list) + 1 /\ i - 1 \in 1 .. Len(list)
        BY <2>3, <1>1, <1>4
      <3> QED
        BY <3>1, <1>1, <1>8 DEF Later
    <2>4. i \in Int /\ k \in Int
      BY <1>1, <1>4
    <2> QED
      BY <2>1, <2>2, <2>3, <2>4
  <1> QED
    BY <1>7, <1>8 DEF r

-----------------------------------------------------------------------------
(* The steps of the timer thread *)

\* What triggerTimedFB does to the list of the executing thread and to the sorted list: a
\* periodic block comes back later than now.
LEMMA Trigger ==
    ASSUME TypeOK, Sorted(mTimedFBList), NEW entry \in Entry, triggerTimedFB(entry)
    PROVE  /\ chains' \in Seq(FB) /\ Len(chains') <= ChainCap
           /\ overrun' \subseteq FB
           /\ mTimedFBList' \in Seq(Entry)
           /\ Sorted(mTimedFBList')
           /\ Later(mTimedFBList, mForteTime) => Later(mTimedFBList', mForteTime)
  <1> DEFINE again == [entry EXCEPT !.mTimeOut = mForteTime + entry.mInterval]
  <1>1. /\ chains \in Seq(FB) /\ Len(chains) <= ChainCap /\ overrun \subseteq FB
        /\ mTimedFBList \in Seq(Entry)
    BY DEF TypeOK, TimerTypeOK
  <1>2. mForteTime \in Nat
    BY TimerAssumption DEF TypeOK, TimerTypeOK
  <1>3. entry.mTimedFB \in FB /\ entry.mTimeOut \in Nat /\ entry.mInterval \in Nat
    BY DEF Entry
  <1>4. chains' \in Seq(FB) /\ Len(chains') <= ChainCap /\ overrun' \subseteq FB
    <2>1. CASE Len(chains) < ChainCap
      <3>1. chains' = Append(chains, entry.mTimedFB) /\ overrun' = overrun
        BY <2>1 DEF triggerTimedFB, startNewEventChain
      <3>2. chains' \in Seq(FB) /\ Len(chains') = Len(chains) + 1
        BY <3>1, <1>1, <1>3, AppendProperties
      <3>3. Len(chains') <= ChainCap
        <4>1. Len(chains) \in Nat
          BY <1>1, LenProperties
        <4> QED
          BY <4>1, <3>2, <2>1, TimerAssumption
      <3> QED
        BY <3>1, <3>2, <3>3, <1>1
    <2>2. CASE ~(Len(chains) < ChainCap)
      BY <2>2, <1>1, <1>3 DEF triggerTimedFB, startNewEventChain
    <2> QED
      BY <2>1, <2>2
  <1>5. CASE entry.mInterval = OneShot
    <2>1. mTimedFBList' = mTimedFBList
      BY <1>5 DEF triggerTimedFB
    <2> QED
      BY <2>1, <1>1, <1>4
  <1>6. CASE entry.mInterval # OneShot
    <2>1. mTimedFBList' = addTimedFBEntry(mTimedFBList, again)
      BY <1>6 DEF triggerTimedFB
    <2>2. again \in Entry /\ again.mTimeOut > mForteTime
      <3>1. mForteTime + entry.mInterval \in Nat /\ mForteTime + entry.mInterval > mForteTime
        BY <1>2, <1>3, <1>6 DEF OneShot
      <3>2. again \in Entry
        BY <3>1 DEF Entry
      <3>3. again.mTimeOut = mForteTime + entry.mInterval
        BY DEF Entry
      <3> QED
        BY <3>1, <3>2, <3>3
    <2> HIDE DEF again
    <2>3. mTimedFBList' \in Seq(Entry)
      BY <2>1, <2>2, <1>1, AddEntry
    <2>4. /\ Sorted(mTimedFBList')
          /\ Later(mTimedFBList, mForteTime) => Later(mTimedFBList', mForteTime)
      BY <2>1, <2>2, <1>1, <1>2, AddEntryOrder
    <2> QED
      BY <2>3, <2>4, <1>4
  <1> QED
    BY <1>5, <1>6

\* Removing keeps the order and brings nothing new: every entry left over was on the list.
LEMMA Remove ==
    ASSUME mTimedFBList \in Seq(Entry), Sorted(mTimedFBList), processRemoveList
    PROVE  /\ mTimedFBList' \in Seq(Entry)
           /\ Sorted(mTimedFBList')
           /\ \A i \in 1 .. Len(mTimedFBList') :
                 \E j \in 1 .. Len(mTimedFBList) : mTimedFBList'[i] = mTimedFBList[j]
  <1> DEFINE n == Cardinality(staying)
  <1>1. Len(mTimedFBList) \in Nat
    BY LenProperties
  <1>2. staying \subseteq 1 .. Len(mTimedFBList)
    BY DEF staying
  <1>3. n \in Nat
    <2>1. IsFiniteSet(1 .. Len(mTimedFBList))
      BY <1>1, FS_Interval
    <2>2. IsFiniteSet(staying)
      BY <2>1, <1>2, FS_Subset
    <2> QED
      BY <2>2, FS_CardinalityType
  <1>4. PICK pos \in [1 .. n -> staying] :
            /\ \A i, j \in DOMAIN pos : i < j => pos[i] < pos[j]
            /\ mTimedFBList' = [i \in DOMAIN pos |-> mTimedFBList[pos[i]]]
    BY DEF processRemoveList
  <1> HIDE DEF n
  <1>5. /\ DOMAIN pos = 1 .. n
        /\ \A i \in 1 .. n : pos[i] \in 1 .. Len(mTimedFBList)
    BY <1>2, <1>4
  <1>6. mTimedFBList' = [i \in 1 .. n |-> mTimedFBList[pos[i]]]
    BY <1>4, <1>5
  <1>7. \A i \in 1 .. n : mTimedFBList[pos[i]] \in Entry
    BY <1>5, ElementOfSeq
  <1>8. mTimedFBList' \in Seq(Entry) /\ Len(mTimedFBList') = n
    <2>1. mTimedFBList' \in [1 .. n -> Entry]
      BY <1>6, <1>7
    <2> QED
      BY <2>1, <1>3, SeqDef, LenProperties
  <1>9. \A i \in 1 .. n : mTimedFBList'[i] = mTimedFBList[pos[i]]
    BY <1>6
  <1>10. Sorted(mTimedFBList')
    <2> SUFFICES ASSUME NEW i \in 1 .. n, NEW j \in 1 .. n, i < j
                 PROVE  mTimedFBList'[i].mTimeOut <= mTimedFBList'[j].mTimeOut
      BY <1>8 DEF Sorted
    <2>1. pos[i] < pos[j]
      BY <1>4, <1>5
    <2>2. mTimedFBList[pos[i]].mTimeOut <= mTimedFBList[pos[j]].mTimeOut
      BY <2>1, <1>5 DEF Sorted
    <2> QED
      BY <2>2, <1>9
  <1>11. \A i \in 1 .. n :
            \E j \in 1 .. Len(mTimedFBList) : mTimedFBList'[i] = mTimedFBList[j]
    BY <1>5, <1>9
  <1> QED
    BY <1>8, <1>10, <1>11

\* The list is sorted at every step.  From the tick on, until the entries that are due are
\* taken off, nothing on it is earlier than now; at all other times everything on it is
\* later.  What has been taken off is due now, and is all triggered when the thread moves on.
TickOrder ==
    /\ Sorted(mTimedFBList)
    /\ kpc \in {"sleep", "trigger", "adding"} => Later(mTimedFBList, mForteTime)
    /\ kpc \in {"remove", "timed"} =>
          \A i \in 1 .. Len(mTimedFBList) : mTimedFBList[i].mTimeOut >= mForteTime
    /\ \A i \in 1 .. Len(triggered) : triggered[i].mTimeOut = mForteTime
    /\ kpc # "trigger" => triggered = <<>>

\* No entry waits in mAddFBList for more than one tick: the thread goes to sleep only when
\* it has found the list empty or has emptied it.
WaitOK ==
    mAddFBList # <<>> =>
        mForteTime <= IF kpc = "sleep" THEN waitingSince ELSE waitingSince + 1

TickInv == TypeOK /\ TickOrder /\ WaitOK

\* The timer thread leaves the variables of the blocks alone.
LEMMA TimerStepTypes ==
    ASSUME TypeOK, UNCHANGED fbVars, TimerTypeOK'
    PROVE  TypeOK'
  BY DEF TypeOK, fbVars

\* The blocks leave the clock and the sorted list alone.
LEMMA BlocksKeepOrder ==
    ASSUME TickInv, UNCHANGED <<mForteTime, mTimedFBList, triggered, kpc>>, TypeOK', WaitOK'
    PROVE  TickInv'
  BY DEF TickInv, TickOrder, Sorted, Later

\* An entry waits as long as before while the clock and the list of requests stand still
\* and the timer thread does not lie down to sleep.
LEMMA WaitFrame ==
    ASSUME TickInv, UNCHANGED <<mForteTime, mAddFBList, waitingSince>>,
           kpc' = kpc \/ kpc' # "sleep"
    PROVE  WaitOK'
  <1>1. mForteTime \in Nat /\ waitingSince \in Nat
    BY TimerAssumption DEF TickInv, TypeOK, TimerTypeOK
  <1> QED
    BY <1>1 DEF TickInv, WaitOK

LEMMA TickInit == Init => TickInv
  <1> SUFFICES ASSUME Init PROVE TickInv
    OBVIOUS
  <1>1. Len(<<>>) = 0 /\ 1 .. 0 = {}
    OBVIOUS
  <1>2. TimerTypeOK
    <2>1. 0 \in 0 .. MaxTime /\ 0 <= ChainCap
      BY TimerAssumption
    <2> QED
      BY <2>1, <1>1, EmptySeq DEF Init, TimerInit, TimerTypeOK
  <1>3. TypeOK
    <2>1. 0 \in 0 .. MaxEvents /\ 0 \in 0 .. MaxCommands
      BY TimedAssumption
    <2> QED
      BY <2>1, <1>2 DEF Init, TypeOK
  <1>4. TickOrder /\ WaitOK
    BY <1>1 DEF Init, TimerInit, TickOrder, WaitOK, Sorted, Later
  <1> QED
    BY <1>3, <1>4 DEF TickInv

LEMMA TickNextTick ==
    ASSUME TickInv, nextTick, UNCHANGED fbVars
    PROVE  TickInv'
  <1>1. /\ mForteTime' = mForteTime + 1 /\ mForteTime < MaxTime
        /\ kpc = "sleep" /\ kpc' = "remove"
        /\ UNCHANGED <<mTimedFBList, mAddFBList, waitingSince, mRemoveFBList, triggered, call, chains, overrun>>
    BY DEF nextTick
  <1>2. TimerTypeOK /\ mForteTime \in Nat
    BY TimerAssumption DEF TickInv, TypeOK, TimerTypeOK
  <1>3. mForteTime' \in 0 .. MaxTime
    BY <1>1, <1>2, TimerAssumption
  <1>4. TimerTypeOK'
    BY <1>1, <1>2, <1>3 DEF TimerTypeOK
  <1>5. TypeOK'
    BY <1>4, TimerStepTypes DEF TickInv
  <1>6. triggered = <<>> /\ Sorted(mTimedFBList) /\ Later(mTimedFBList, mForteTime)
    BY <1>1 DEF TickInv, TickOrder
  <1>7. \A i \in 1 .. Len(mTimedFBList') : mTimedFBList'[i].mTimeOut >= mForteTime'
    <2> SUFFICES ASSUME NEW i \in 1 .. Len(mTimedFBList)
                 PROVE  mTimedFBList[i].mTimeOut >= mForteTime + 1
      BY <1>1
    <2>1. mTimedFBList[i].mTimeOut \in Nat
      BY <1>2, ListFields DEF TimerTypeOK
    <2>2. mTimedFBList[i].mTimeOut > mForteTime
      BY <1>6 DEF Later
    <2> QED
      BY <2>1, <2>2, <1>2
  <1>8. \A i \in 1 .. Len(triggered') : triggered'[i].mTimeOut = mForteTime'
    BY <1>1, <1>6
  <1>9. Sorted(mTimedFBList')
    BY <1>1, <1>6
  <1>10. WaitOK'
    <2>1. waitingSince \in Nat /\ kpc' # "sleep"
      BY <1>1, <1>2, TimerAssumption DEF TimerTypeOK
    <2> QED
      BY <1>1, <1>2, <2>1 DEF TickInv, WaitOK
  <1> QED
    BY <1>1, <1>5, <1>6, <1>7, <1>8, <1>9, <1>10 DEF TickInv, TickOrder

LEMMA TickRemove ==
    ASSUME TickInv, processRemoveList, UNCHANGED fbVars
    PROVE  TickInv'
  <1>1. /\ kpc = "remove" /\ kpc' = "timed" /\ mRemoveFBList' = <<>>
        /\ UNCHANGED <<mForteTime, mAddFBList, waitingSince, triggered, call, chains, overrun>>
    BY DEF processRemoveList
  <1>2. TimerTypeOK /\ Sorted(mTimedFBList)
    BY DEF TickInv, TypeOK, TickOrder
  <1>3. /\ mTimedFBList' \in Seq(Entry)
        /\ Sorted(mTimedFBList')
        /\ \A i \in 1 .. Len(mTimedFBList') :
              \E j \in 1 .. Len(mTimedFBList) : mTimedFBList'[i] = mTimedFBList[j]
    BY <1>2, Remove DEF TimerTypeOK
  <1>4. TimerTypeOK'
    <2>1. <<>> \in Seq(FB)
      BY EmptySeq
    <2> QED
      BY <1>1, <1>2, <1>3, <2>1 DEF TimerTypeOK
  <1>5. TypeOK'
    BY <1>4, TimerStepTypes DEF TickInv
  <1>6. \A i \in 1 .. Len(mTimedFBList') : mTimedFBList'[i].mTimeOut >= mForteTime'
    BY <1>1, <1>3 DEF TickInv, TickOrder
  <1>7. triggered' = <<>> /\ \A i \in 1 .. Len(triggered') : triggered'[i].mTimeOut = mForteTime'
    BY <1>1 DEF TickInv, TickOrder
  <1>8. WaitOK'
    BY <1>1, WaitFrame
  <1> QED
    BY <1>1, <1>3, <1>5, <1>6, <1>7, <1>8 DEF TickInv, TickOrder

LEMMA TickTimed ==
    ASSUME TickInv, processTimedFBList, UNCHANGED fbVars
    PROVE  TickInv'
  <1> DEFINE k == upperBound(mTimedFBList, mForteTime)
             a == SubSeq(mTimedFBList, 1, k)
             b == SubSeq(mTimedFBList, k + 1, Len(mTimedFBList))
  <1>1. /\ kpc = "timed" /\ kpc' = "trigger" /\ triggered' = a /\ mTimedFBList' = b
        /\ UNCHANGED <<mForteTime, mAddFBList, waitingSince, mRemoveFBList, call, chains, overrun>>
    BY DEF processTimedFBList
  <1>2. TimerTypeOK /\ Sorted(mTimedFBList) /\ mForteTime \in Nat /\ mTimedFBList \in Seq(Entry)
    BY TimerAssumption DEF TickInv, TypeOK, TickOrder, TimerTypeOK
  <1>3. /\ k \in 0 .. Len(mTimedFBList)
        /\ \A i \in 1 .. k : mTimedFBList[i].mTimeOut <= mForteTime
        /\ k < Len(mTimedFBList) => mTimedFBList[k + 1].mTimeOut > mForteTime
    BY <1>2, UpperBound
  <1> HIDE DEF k
  <1>4. /\ a \in Seq(Entry)
        /\ Len(a) = k
        /\ \A i \in 1 .. k : a[i] = mTimedFBList[i]
        /\ b \in Seq(Entry)
        /\ Len(b) = Len(mTimedFBList) - k
        /\ \A i \in 1 .. Len(mTimedFBList) - k : b[i] = mTimedFBList[k + i]
    BY <1>2, <1>3, Split
  <1> HIDE DEF a, b
  <1>5. Len(mTimedFBList) \in Nat /\ k \in Nat /\ k <= Len(mTimedFBList)
    BY <1>2, <1>3, LenProperties
  <1>6. \A i \in 1 .. Len(mTimedFBList) : mTimedFBList[i].mTimeOut \in Nat
    BY <1>2, ListFields
  <1>7. TimerTypeOK'
    BY <1>1, <1>2, <1>4 DEF TimerTypeOK
  <1>8. TypeOK'
    BY <1>7, TimerStepTypes DEF TickInv
  <1>9. \A i \in 1 .. Len(triggered') : triggered'[i].mTimeOut = mForteTime'
    <2> SUFFICES ASSUME NEW i \in 1 .. k
                 PROVE  mTimedFBList[i].mTimeOut = mForteTime
      BY <1>1, <1>4
    <2>1. i \in 1 .. Len(mTimedFBList)
      BY <1>5
    <2>2. mTimedFBList[i].mTimeOut >= mForteTime
      BY <2>1, <1>1 DEF TickInv, TickOrder
    <2> QED
      BY <2>1, <2>2, <1>2, <1>3, <1>6
  <1>10. ASSUME NEW i \in 1 .. Len(b)
         PROVE  /\ k + i \in 1 .. Len(mTimedFBList) /\ k + 1 \in 1 .. Len(mTimedFBList)
                /\ k < Len(mTimedFBList) /\ b[i] = mTimedFBList[k + i]
    <2>1. i \in 1 .. Len(mTimedFBList) - k
      BY <1>4
    <2>2. b[i] = mTimedFBList[k + i]
      BY <2>1, <1>4
    <2> QED
      BY <2>1, <2>2, <1>5
  <1>11. Sorted(b)
    <2> SUFFICES ASSUME NEW i \in 1 .. Len(b), NEW j \in 1 .. Len(b), i < j
                 PROVE  b[i].mTimeOut <= b[j].mTimeOut
      BY DEF Sorted
    <2>1. k + i < k + j
      BY <1>5
    <2>2. mTimedFBList[k + i].mTimeOut <= mTimedFBList[k + j].mTimeOut
      BY <2>1, <1>2, <1>10 DEF Sorted
    <2> QED
      BY <2>2, <1>10
  <1>12. Later(b, mForteTime)
    <2> SUFFICES ASSUME NEW i \in 1 .. Len(b)
                 PROVE  b[i].mTimeOut > mForteTime
      BY DEF Later
    <2>1. i = 1 \/ k + 1 < k + i
      BY <1>5
    <2>2. mTimedFBList[k + 1].mTimeOut > mForteTime
      BY <1>3, <1>10
    <2>3. mTimedFBList[k + 1].mTimeOut <= mTimedFBList[k + i].mTimeOut
      BY <2>1, <1>2, <1>6, <1>10 DEF Sorted
    <2>4. mTimedFBList[k + 1].mTimeOut \in Nat /\ mTimedFBList[k + i].mTimeOut \in Nat
      BY <1>6, <1>10
    <2>5. mTimedFBList[k + i].mTimeOut > mForteTime
      BY <2>2, <2>3, <2>4, <1>2
    <2> QED
      BY <2>5, <1>10
  <1>13. WaitOK'
    BY <1>1, WaitFrame
  <1> QED
    BY <1>1, <1>8, <1>9, <1>11, <1>12, <1>13 DEF TickInv, TickOrder

LEMMA TickTrigger ==
    ASSUME TickInv, triggerNext, UNCHANGED fbVars
    PROVE  TickInv'
  <1>1. /\ kpc = "trigger" /\ kpc' = kpc /\ triggered # <<>> /\ triggered' = Tail(triggered)
        /\ triggerTimedFB(Head(triggered))
        /\ UNCHANGED <<mForteTime, mAddFBList, waitingSince, mRemoveFBList, call>>
    BY DEF triggerNext
  <1>2. TypeOK /\ TimerTypeOK /\ Sorted(mTimedFBList) /\ triggered \in Seq(Entry)
    BY DEF TickInv, TypeOK, TickOrder, TimerTypeOK
  <1>3. /\ Head(triggered) \in Entry
        /\ Tail(triggered) \in Seq(Entry)
        /\ Len(Tail(triggered)) = Len(triggered) - 1
        /\ \A i \in 1 .. Len(Tail(triggered)) : Tail(triggered)[i] = triggered[i + 1]
    BY <1>1, <1>2, HeadTailProperties
  <1>4. /\ chains' \in Seq(FB) /\ Len(chains') <= ChainCap
        /\ overrun' \subseteq FB
        /\ mTimedFBList' \in Seq(Entry)
        /\ Sorted(mTimedFBList')
        /\ Later(mTimedFBList, mForteTime) => Later(mTimedFBList', mForteTime)
    BY <1>1, <1>2, <1>3, Trigger
  <1>5. TimerTypeOK'
    BY <1>1, <1>2, <1>3, <1>4 DEF TimerTypeOK
  <1>6. TypeOK'
    BY <1>5, TimerStepTypes DEF TickInv
  <1>7. \A i \in 1 .. Len(triggered') : triggered'[i].mTimeOut = mForteTime'
    <2> SUFFICES ASSUME NEW i \in 1 .. Len(Tail(triggered))
                 PROVE  Tail(triggered)[i].mTimeOut = mForteTime
      BY <1>1
    <2>1. i + 1 \in 1 .. Len(triggered)
      <3>1. Len(triggered) \in Nat
        BY <1>2, LenProperties
      <3> QED
        BY <3>1, <1>3
    <2> QED
      BY <2>1, <1>3 DEF TickInv, TickOrder
  <1>8. Later(mTimedFBList', mForteTime')
    BY <1>1, <1>4 DEF TickInv, TickOrder
  <1>9. WaitOK'
    BY <1>1, WaitFrame
  <1> QED
    BY <1>1, <1>4, <1>6, <1>7, <1>8, <1>9 DEF TickInv, TickOrder

LEMMA TickCheckAdd ==
    ASSUME TickInv, checkAddList, UNCHANGED fbVars
    PROVE  TickInv'
  <1>1. /\ kpc = "trigger" /\ kpc' \in {"sleep", "adding"} /\ triggered = <<>>
        /\ UNCHANGED <<mForteTime, mTimedFBList, mAddFBList, waitingSince, mRemoveFBList, triggered, call,
                       chains, overrun>>
    BY DEF checkAddList
  <1>2. TimerTypeOK'
    BY <1>1 DEF TickInv, TypeOK, TimerTypeOK
  <1>3. TypeOK'
    BY <1>2, TimerStepTypes DEF TickInv
  <1>4. TickOrder'
    BY <1>1 DEF TickInv, TickOrder, Later, Sorted
  <1>5. WaitOK'
    <2>1. CASE mAddFBList = <<>>
      BY <1>1, <2>1 DEF WaitOK
    <2>2. CASE mAddFBList # <<>>
      <3>1. kpc' # "sleep"
        BY <2>2 DEF checkAddList
      <3> QED
        BY <1>1, <3>1, WaitFrame
    <2> QED
      BY <2>1, <2>2
  <1> QED
    BY <1>3, <1>4, <1>5 DEF TickInv

LEMMA TickAdd ==
    ASSUME TickInv, processAddList, UNCHANGED fbVars
    PROVE  TickInv'
  <1> DEFINE entry == Head(mAddFBList)
  <1>1. /\ kpc = "adding" /\ kpc' \in {"sleep", "adding"} /\ mAddFBList # <<>>
        /\ mAddFBList' = Tail(mAddFBList)
        /\ UNCHANGED <<mForteTime, mRemoveFBList, triggered, call>>
    BY DEF processAddList
  <1>2. /\ TypeOK /\ TimerTypeOK /\ Sorted(mTimedFBList) /\ mAddFBList \in Seq(Entry)
        /\ mTimedFBList \in Seq(Entry) /\ mForteTime \in Nat
    BY TimerAssumption DEF TickInv, TypeOK, TickOrder, TimerTypeOK
  <1>3. entry \in Entry /\ Tail(mAddFBList) \in Seq(Entry)
    BY <1>1, <1>2, HeadTailProperties
  <1>4. Later(mTimedFBList, mForteTime)
    BY <1>1 DEF TickInv, TickOrder
  <1>5. /\ chains' \in Seq(FB) /\ Len(chains') <= ChainCap
        /\ overrun' \subseteq FB
        /\ mTimedFBList' \in Seq(Entry)
        /\ Sorted(mTimedFBList')
        /\ Later(mTimedFBList', mForteTime)
    <2>1. CASE isDue(entry)
      <3>1. triggerTimedFB(entry)
        BY <2>1 DEF processAddList
      <3> HIDE DEF entry
      <3> QED
        BY <3>1, <1>2, <1>3, <1>4, Trigger
    <2>2. CASE ~isDue(entry)
      <3>1. mTimedFBList' = addTimedFBEntry(mTimedFBList, entry) /\ UNCHANGED <<chains, overrun>>
        BY <2>2 DEF processAddList
      <3> HIDE DEF entry
      <3>2. entry.mTimeOut > mForteTime
        <4>1. entry.mTimeOut \in Nat
          BY <1>3 DEF Entry
        <4> QED
          BY <4>1, <2>2, <1>2 DEF isDue
      <3>3. mTimedFBList' \in Seq(Entry)
        BY <3>1, <1>2, <1>3, AddEntry
      <3>4. Sorted(mTimedFBList') /\ Later(mTimedFBList', mForteTime)
        BY <3>1, <3>2, <1>2, <1>3, <1>4, AddEntryOrder
      <3> QED
        BY <3>1, <3>3, <3>4, <1>2 DEF TimerTypeOK
    <2> QED
      BY <2>1, <2>2
  <1>6. TimerTypeOK'
    <2>1. waitingSince' \in 0 .. MaxTime
      BY <1>2, TimerAssumption DEF processAddList, TimerTypeOK
    <2> QED
      BY <1>1, <1>2, <1>3, <1>5, <2>1 DEF TimerTypeOK
  <1>7. TypeOK'
    BY <1>6, TimerStepTypes DEF TickInv
  <1>8. triggered' = <<>> /\ \A i \in 1 .. Len(triggered') : triggered'[i].mTimeOut = mForteTime'
    BY <1>1 DEF TickInv, TickOrder
  <1>9. WaitOK'
    <2>1. CASE Len(mAddFBList) = 1
      <3>1. mAddFBList' = <<>>
        <4>1. mAddFBList' \in Seq(Entry) /\ Len(mAddFBList') = 0
          BY <1>1, <1>2, <2>1, HeadTailProperties
        <4> QED
          BY <4>1, EmptySeq
      <3> QED
        BY <3>1 DEF WaitOK
    <2>2. CASE Len(mAddFBList) # 1
      <3>1. kpc' = "adding" /\ waitingSince' = waitingSince
        BY <2>2 DEF processAddList
      <3>2. mForteTime <= waitingSince + 1
        BY <1>1 DEF TickInv, WaitOK
      <3> QED
        BY <1>1, <3>1, <3>2 DEF WaitOK
    <2> QED
      BY <2>1, <2>2
  <1> QED
    BY <1>1, <1>5, <1>7, <1>8, <1>9 DEF TickInv, TickOrder

-----------------------------------------------------------------------------
(* The steps of the blocks *)

\* An interval is a whole number of ticks.
LEMMA Interval ==
    ASSUME NEW t \in Int
    PROVE  convertIntervalToTimerHandlerUnits(t) \in Nat
  <1> DEFINE interval == t \div UnitsPerTick
  <1>1. interval \in Int
    BY TimerAssumption
  <1> HIDE DEF interval
  <1>2. interval % UInt32 \in Nat
    BY <1>1, TimerAssumption
  <1> QED
    BY <1>2 DEF convertIntervalToTimerHandlerUnits, interval

LEMMA TickSTART ==
    ASSUME TickInv, NEW fb \in FB, START(fb)
    PROVE  TickInv'
  <1>1. TypeOK /\ TimerTypeOK
    BY DEF TickInv, TypeOK
  <1>2. mRemoveFBList' \in Seq(FB) /\ touched' \subseteq FB
    <2>1. mRemoveFBList \in Seq(FB) /\ touched \subseteq FB
      BY <1>1 DEF TypeOK, TimerTypeOK
    <2>2. CASE mActive[fb]
      <3>1. mRemoveFBList' = Append(mRemoveFBList, fb) /\ touched' = touched \cup {fb}
        BY <2>2 DEF START, unregisterTimedFB
      <3> QED
        BY <3>1, <2>1, AppendProperties
    <2>3. CASE ~mActive[fb]
      BY <2>1, <2>3 DEF START
    <2> QED
      BY <2>2, <2>3
  <1>3. events' \in 0 .. MaxEvents
    <2>1. events \in Nat
      BY <1>1, TimedAssumption DEF TypeOK
    <2>2. events' = events + 1 /\ events < MaxEvents
      BY DEF START
    <2> QED
      BY <2>1, <2>2, TimedAssumption
  <1>4. TimerTypeOK'
    BY <1>1, <1>2 DEF START, TimerTypeOK
  <1>5. TypeOK'
    BY <1>1, <1>2, <1>3, <1>4 DEF START, TypeOK
  <1>6. UNCHANGED <<mForteTime, mTimedFBList, mAddFBList, waitingSince, triggered, kpc>>
    BY DEF START
  <1>7. WaitOK'
    BY <1>6, WaitFrame
  <1> QED
    BY <1>5, <1>6, <1>7, BlocksKeepOrder

LEMMA TickSTARTregister ==
    ASSUME TickInv, STARTregister
    PROVE  TickInv'
  <1>1. TypeOK /\ TimerTypeOK
    BY DEF TickInv, TypeOK
  <1>2. PICK t \in DT : registerTimedFB(starting, t, Kind[starting] = "E_CYCLE")
    BY DEF STARTregister
  <1> DEFINE interval == convertIntervalToTimerHandlerUnits(t)
  <1>3. interval \in Nat
    <2>1. t \in Int
      BY TimedAssumption
    <2> QED
      BY <2>1, Interval
  <1>4. call' = [mTimedFB |-> starting, mTimeOut |-> mForteTime + interval,
                 mInterval |-> IF Kind[starting] = "E_CYCLE" THEN interval ELSE OneShot]
    BY <1>2 DEF registerTimedFB
  <1> HIDE DEF interval
  <1>5. call' \in Entry
    <2>1. starting \in FB
      BY <1>1 DEF STARTregister, TypeOK
    <2>2. mForteTime + interval \in Nat
      BY <1>1, <1>3, TimerAssumption DEF TimerTypeOK
    <2>3. (IF Kind[starting] = "E_CYCLE" THEN interval ELSE OneShot) \in Nat
      BY <1>3 DEF OneShot
    <2> QED
      BY <1>4, <2>1, <2>2, <2>3 DEF Entry
  <1>6. /\ UNCHANGED <<mForteTime, mTimedFBList, mAddFBList, waitingSince, triggered, kpc, chains, overrun>>
        /\ UNCHANGED <<mRemoveFBList, fbVars>>
    BY <1>2 DEF STARTregister, registerTimedFB
  <1>7. TimerTypeOK'
    BY <1>1, <1>5, <1>6 DEF TimerTypeOK
  <1>8. TypeOK'
    BY <1>1, <1>6, <1>7, TimerStepTypes
  <1>9. WaitOK'
    BY <1>6, WaitFrame
  <1> QED
    BY <1>6, <1>8, <1>9, BlocksKeepOrder

LEMMA TickSTARTactive ==
    ASSUME TickInv, STARTactive
    PROVE  TickInv'
  <1>1. TypeOK /\ TimerTypeOK
    BY DEF TickInv, TypeOK
  <1>2. /\ call # NoEntry /\ mAddFBList' = Append(mAddFBList, call) /\ call' = NoEntry
        /\ UNCHANGED <<mForteTime, mTimedFBList, mRemoveFBList, triggered, kpc, chains, overrun>>
    BY DEF STARTactive, addToAddFBList
  <1>3. mAddFBList' \in Seq(Entry)
    <2>1. call \in Entry /\ mAddFBList \in Seq(Entry)
      BY <1>1, <1>2 DEF TimerTypeOK
    <2> QED
      BY <2>1, <1>2, AppendProperties
  <1>4. TimerTypeOK'
    <2>1. waitingSince' \in 0 .. MaxTime
      BY <1>1 DEF STARTactive, addToAddFBList, TimerTypeOK
    <2> QED
      BY <1>1, <1>2, <1>3, <2>1 DEF TimerTypeOK
  <1>5. mActive' \in [FB -> BOOLEAN]
    BY <1>1 DEF STARTactive, TypeOK
  <1>6. TypeOK'
    BY <1>1, <1>4, <1>5 DEF STARTactive, TypeOK
  <1>7. WaitOK'
    <2>1. mForteTime \in Nat /\ waitingSince \in Nat
      BY <1>1, TimerAssumption DEF TimerTypeOK
    <2>2. CASE mAddFBList = <<>>
      <3>1. waitingSince' = mForteTime
        BY <2>2 DEF STARTactive, addToAddFBList
      <3> QED
        BY <1>2, <2>1, <3>1 DEF WaitOK
    <2>3. CASE mAddFBList # <<>>
      <3>1. waitingSince' = waitingSince
        BY <2>3 DEF STARTactive, addToAddFBList
      <3> QED
        BY <1>2, <2>1, <2>3, <3>1 DEF TickInv, WaitOK
    <2> QED
      BY <2>2, <2>3
  <1> QED
    BY <1>2, <1>6, <1>7, BlocksKeepOrder

LEMMA TickSTOP ==
    ASSUME TickInv, NEW fb \in FB, STOP(fb)
    PROVE  TickInv'
  <1>1. TypeOK /\ TimerTypeOK
    BY DEF TickInv, TypeOK
  <1>2. mRemoveFBList' \in Seq(FB)
    <2>1. mRemoveFBList \in Seq(FB) /\ mRemoveFBList' = Append(mRemoveFBList, fb)
      BY <1>1 DEF TimerTypeOK, STOP, unregisterTimedFB
    <2> QED
      BY <2>1, AppendProperties
  <1>3. events' \in 0 .. MaxEvents
    <2>1. events \in Nat
      BY <1>1, TimedAssumption DEF TypeOK
    <2>2. events' = events + 1 /\ events < MaxEvents
      BY DEF STOP
    <2> QED
      BY <2>1, <2>2, TimedAssumption
  <1>4. TimerTypeOK'
    BY <1>1, <1>2 DEF STOP, TimerTypeOK
  <1>5. mActive' \in [FB -> BOOLEAN]
    BY <1>1 DEF STOP, TypeOK
  <1>6. TypeOK'
    BY <1>1, <1>3, <1>4, <1>5 DEF STOP, TypeOK
  <1>7. UNCHANGED <<mForteTime, mTimedFBList, mAddFBList, waitingSince, triggered, kpc>>
    BY DEF STOP
  <1>8. WaitOK'
    BY <1>7, WaitFrame
  <1> QED
    BY <1>6, <1>7, <1>8, BlocksKeepOrder

LEMMA TickExternalEvent ==
    ASSUME TickInv, externalEvent
    PROVE  TickInv'
  <1>1. TypeOK /\ TimerTypeOK
    BY DEF TickInv, TypeOK
  <1>2. chains' \in Seq(FB) /\ Len(chains') <= ChainCap
    <2>1. chains \in Seq(FB) /\ chains # <<>> /\ chains' = Tail(chains) /\ Len(chains) <= ChainCap
      BY <1>1 DEF externalEvent, TimerTypeOK
    <2>2. chains' \in Seq(FB) /\ Len(chains') = Len(chains) - 1
      BY <2>1, HeadTailProperties
    <2>3. Len(chains) \in Nat
      BY <2>1, LenProperties
    <2> QED
      BY <2>1, <2>2, <2>3, TimerAssumption
  <1>3. TimerTypeOK'
    BY <1>1, <1>2 DEF externalEvent, TimerTypeOK
  <1>4. mActive' \in [FB -> BOOLEAN]
    <2>1. mActive' = mActive \/ \E fb : mActive' = [mActive EXCEPT ![fb] = FALSE]
      BY DEF externalEvent
    <2> QED
      BY <2>1, <1>1 DEF TypeOK
  <1>5. TypeOK'
    BY <1>1, <1>3, <1>4 DEF externalEvent, TypeOK
  <1>6. UNCHANGED <<mForteTime, mTimedFBList, mAddFBList, waitingSince, triggered, kpc>>
    BY DEF externalEvent
  <1>7. WaitOK'
    BY <1>6, WaitFrame
  <1> QED
    BY <1>5, <1>6, <1>7, BlocksKeepOrder

LEMMA TickStopFB ==
    ASSUME TickInv, NEW fb \in FB, stopFB(fb) \/ startFB(fb)
    PROVE  TickInv'
  <1>1. TypeOK /\ TimerTypeOK
    BY DEF TickInv, TypeOK
  <1>2. commands' \in 0 .. MaxCommands
    <2>1. commands \in Nat
      BY <1>1, TimedAssumption DEF TypeOK
    <2>2. commands' = commands + 1 /\ commands < MaxCommands
      BY DEF stopFB, startFB
    <2> QED
      BY <2>1, <2>2, TimedAssumption
  <1>3. UNCHANGED timerVars
    BY DEF stopFB, startFB
  <1>4. TimerTypeOK'
    BY <1>1, <1>3 DEF timerVars, TimerTypeOK
  <1>5. TypeOK'
    BY <1>1, <1>2, <1>4 DEF stopFB, startFB, TypeOK
  <1>6. WaitOK'
    BY <1>3, WaitFrame DEF timerVars
  <1> QED
    BY <1>3, <1>5, <1>6, BlocksKeepOrder DEF timerVars

LEMMA TickStopTimedFB ==
    ASSUME TickInv, stopTimedFB
    PROVE  TickInv'
  <1>1. TypeOK /\ TimerTypeOK
    BY DEF TickInv, TypeOK
  <1>2. mRemoveFBList' \in Seq(FB) /\ mActive' \in [FB -> BOOLEAN]
    <2>1. mRemoveFBList \in Seq(FB) /\ stopping \in FB /\ mActive \in [FB -> BOOLEAN]
      BY <1>1 DEF TypeOK, TimerTypeOK, stopTimedFB
    <2>2. CASE mActive[stopping]
      <3>1. /\ mRemoveFBList' = Append(mRemoveFBList, stopping)
            /\ mActive' = [mActive EXCEPT ![stopping] = FALSE]
        BY <2>2 DEF stopTimedFB, unregisterTimedFB
      <3>2. mRemoveFBList' \in Seq(FB)
        BY <3>1, <2>1, AppendProperties
      <3>3. mActive' \in [FB -> BOOLEAN]
        BY <3>1, <2>1
      <3> QED
        BY <3>2, <3>3
    <2>3. CASE ~mActive[stopping]
      BY <2>1, <2>3 DEF stopTimedFB
    <2> QED
      BY <2>2, <2>3
  <1>3. TimerTypeOK'
    BY <1>1, <1>2 DEF stopTimedFB, TimerTypeOK
  <1>4. TypeOK'
    BY <1>1, <1>2, <1>3 DEF stopTimedFB, TypeOK
  <1>5. UNCHANGED <<mForteTime, mTimedFBList, mAddFBList, waitingSince, triggered, kpc>>
    BY DEF stopTimedFB
  <1>6. WaitOK'
    BY <1>5, WaitFrame
  <1> QED
    BY <1>4, <1>5, <1>6, BlocksKeepOrder

\* TickInv is an invariant of the timer handler with its blocks.
THEOREM TimerInductive == Spec => []TickInv
  <1>1. Init => TickInv
    BY TickInit
  <1>2. TickInv /\ [Next]_vars => TickInv'
    <2> SUFFICES ASSUME TickInv, [Next]_vars PROVE TickInv'
      OBVIOUS
    <2>1. CASE TimerStep /\ UNCHANGED fbVars
      BY <2>1, TickNextTick, TickRemove, TickTimed, TickTrigger, TickCheckAdd, TickAdd
         DEF TimerStep
    <2>2. CASE STARTregister
      BY <2>2, TickSTARTregister
    <2>3. CASE STARTactive
      BY <2>3, TickSTARTactive
    <2>4. CASE externalEvent
      BY <2>4, TickExternalEvent
    <2>5. CASE stopTimedFB
      BY <2>5, TickStopTimedFB
    <2>6. ASSUME NEW fb \in FB, START(fb) \/ STOP(fb) \/ stopFB(fb) \/ startFB(fb)
          PROVE  TickInv'
      BY <2>6, TickSTART, TickSTOP, TickStopFB
    <2>7. CASE UNCHANGED vars
      <3>1. UNCHANGED timerVars /\ UNCHANGED fbVars
        BY <2>7 DEF vars
      <3>2. TimerTypeOK'
        BY <3>1 DEF TickInv, TypeOK, TimerTypeOK, timerVars
      <3>3. TypeOK'
        BY <3>1, <3>2, TimerStepTypes DEF TickInv
      <3>4. WaitOK'
        BY <3>1, WaitFrame DEF timerVars
      <3> QED
        BY <3>1, <3>3, <3>4, BlocksKeepOrder DEF timerVars
    <2> QED
      BY <2>1, <2>2, <2>3, <2>4, <2>5, <2>6, <2>7 DEF Next
  <1> QED
    BY <1>1, <1>2, PTL DEF Spec

\* CTimerHandler and the timed blocks keep the types of their lists and flags, and the
\* executing thread never holds more started chains than it has room for.
THEOREM TimerTypeCorrect == Spec => []TypeOK
  <1>1. TickInv => TypeOK
    BY DEF TickInv
  <1> QED
    BY <1>1, TimerInductive, PTL

\* nextTick triggers what it takes off the sorted list at exactly its tick and leaves nothing
\* overdue on it, and it works off a handed-over entry in the tick after the hand-over at
\* the latest, so that one whose time came before is late by its hand-over and one tick;
\* whatever is registered and unregistered between the phases of a tick.
THEOREM TimerOnTick == Spec => []OnTick
  <1>1. TickInv => OnTick
    BY DEF TickInv, TickOrder, WaitOK, OnTick, Later
  <1> QED
    BY <1>1, TimerInductive, PTL

-----------------------------------------------------------------------------
(* Counting the registrations of a block *)

\* The positions of a list that stands behind m other entries.
Behind(m, B) == {m + j : j \in B}

\* Positions of a list and, behind it, of another one.
LEMMA Positions ==
    ASSUME NEW m \in Nat, NEW A, IsFiniteSet(A), NEW B \in SUBSET Int, IsFiniteSet(B),
           A \cap Behind(m, B) = {}
    PROVE  /\ Cardinality(A) \in Nat
           /\ Cardinality(B) \in Nat
           /\ Cardinality(A \cup Behind(m, B)) = Cardinality(A) + Cardinality(B)
  <1> DEFINE C == Behind(m, B)
             f == [j \in B |-> m + j]
  <1>2. Cardinality(A) \in Nat /\ Cardinality(B) \in Nat
    BY FS_CardinalityType
  <1>3. IsFiniteSet(C) /\ Cardinality(C) = Cardinality(B)
    <2>1. f \in [B -> C]
      BY DEF Behind
    <2>2. \A i, j \in B : f[i] = f[j] => i = j
      OBVIOUS
    <2>3. \A c \in C : \E j \in B : f[j] = c
      BY DEF Behind
    <2>4. f \in Bijection(B, C)
      <3> HIDE DEF f, C
      <3> QED
        BY <2>1, <2>2, <2>3 DEF Bijection, Injection, Surjection, IsInjective
    <2>5. ExistsBijection(B, C)
      <3> HIDE DEF f, C
      <3> QED
        BY <2>4 DEF ExistsBijection
    <2> HIDE DEF C
    <2> QED
      BY <2>5, FS_Bijection
  <1>4. A \cap C = {}
    OBVIOUS
  <1> HIDE DEF C
  <1>5. Cardinality(A \cup C) = Cardinality(A) + Cardinality(C) - Cardinality(A \cap C)
    BY <1>3, FS_Union
  <1>6. Cardinality(A \cap C) = 0
    BY <1>4, FS_EmptySet
  <1> QED
    BY <1>2, <1>3, <1>5, <1>6 DEF C

\* One entry for the block, or none.
One(entry, fb) == IF entry.mTimedFB = fb THEN 1 ELSE 0

LEMMA CountConcat ==
    ASSUME NEW s \in Seq(Entry), NEW t \in Seq(Entry), NEW fb
    PROVE  /\ Count(s, fb) \in Nat
           /\ Count(t, fb) \in Nat
           /\ Count(s \o t, fb) = Count(s, fb) + Count(t, fb)
  <1> DEFINE A == {i \in 1 .. Len(s) : s[i].mTimedFB = fb}
             B == {i \in 1 .. Len(t) : t[i].mTimedFB = fb}
             st == s \o t
             C == {i \in 1 .. Len(st) : st[i].mTimedFB = fb}
  <1>1. Len(s) \in Nat /\ Len(t) \in Nat
    BY LenProperties
  <1>2. /\ Len(st) = Len(s) + Len(t)
        /\ \A i \in 1 .. Len(s) + Len(t) : st[i] = IF i <= Len(s) THEN s[i] ELSE t[i - Len(s)]
    BY ConcatProperties
  <1> HIDE DEF st
  <1>3. C = A \cup Behind(Len(s), B)
    <2>1. ASSUME NEW i \in C PROVE i \in A \cup Behind(Len(s), B)
      <3>1. i \in 1 .. Len(s) + Len(t) /\ st[i].mTimedFB = fb
        BY <1>2
      <3>2. CASE i <= Len(s)
        <4>1. i \in 1 .. Len(s) /\ st[i] = s[i]
          BY <3>1, <3>2, <1>1, <1>2
        <4> QED
          BY <4>1, <3>1
      <3>3. CASE ~(i <= Len(s))
        <4>1. i - Len(s) \in 1 .. Len(t) /\ i = Len(s) + (i - Len(s))
          BY <3>1, <3>3, <1>1
        <4>2. st[i] = t[i - Len(s)]
          BY <3>1, <3>3, <1>2
        <4>3. i - Len(s) \in B
          BY <4>1, <4>2, <3>1
        <4> QED
          BY <4>1, <4>3 DEF Behind
      <3> QED
        BY <3>2, <3>3
    <2>2. ASSUME NEW i \in A PROVE i \in C
      <3>1. i \in 1 .. Len(s) + Len(t) /\ i <= Len(s)
        BY <1>1
      <3> QED
        BY <3>1, <1>2
    <2>3. ASSUME NEW j \in B PROVE Len(s) + j \in C
      <3>1. /\ Len(s) + j \in 1 .. Len(s) + Len(t) /\ ~(Len(s) + j <= Len(s))
            /\ Len(s) + j - Len(s) = j
        BY <1>1
      <3>2. st[Len(s) + j] = t[j]
        BY <3>1, <1>2
      <3> QED
        BY <3>1, <3>2, <1>2
    <2> HIDE DEF A, B, C
    <2> QED
      BY <2>1, <2>2, <2>3 DEF Behind
  <1>4. A \subseteq 1 .. Len(s) /\ B \subseteq 1 .. Len(t)
    OBVIOUS
  <1>5. Count(s, fb) = Cardinality(A) /\ Count(t, fb) = Cardinality(B) /\ Count(st, fb) = Cardinality(C)
    BY DEF Count
  <1> HIDE DEF A, B, C
  <1>6. /\ Cardinality(A) \in Nat
        /\ Cardinality(B) \in Nat
        /\ Cardinality(A \cup Behind(Len(s), B)) = Cardinality(A) + Cardinality(B)
    <2>1. IsFiniteSet(1 .. Len(s)) /\ IsFiniteSet(1 .. Len(t))
      BY <1>1, FS_Interval
    <2>2. IsFiniteSet(A) /\ IsFiniteSet(B)
      BY <2>1, <1>4, FS_Subset
    <2>3. A \cap Behind(Len(s), B) = {}
      BY <1>1, <1>4 DEF Behind
    <2>4. B \in SUBSET Int
      BY <1>1, <1>4
    <2> QED
      BY <2>2, <2>3, <2>4, <1>1, Positions
  <1> QED
    BY <1>3, <1>5, <1>6 DEF st

LEMMA CountOne ==
    ASSUME NEW entry \in Entry, NEW fb
    PROVE  <<entry>> \in Seq(Entry) /\ Count(<<entry>>, fb) = One(entry, fb)
  <1> DEFINE e == <<entry>>
  <1>1. e \in Seq(Entry) /\ Len(e) = 1 /\ e[1] = entry
    OBVIOUS
  <1> HIDE DEF e
  <1>2. CASE entry.mTimedFB = fb
    <2>1. {i \in 1 .. Len(e) : e[i].mTimedFB = fb} = {1}
      BY <1>1, <1>2
    <2> QED
      BY <2>1, <1>1, <1>2, FS_Singleton DEF Count, One, e
  <1>3. CASE entry.mTimedFB # fb
    <2>1. {i \in 1 .. Len(e) : e[i].mTimedFB = fb} = {}
      BY <1>1, <1>3
    <2> QED
      BY <2>1, <1>1, <1>3, FS_EmptySet DEF Count, One, e
  <1> QED
    BY <1>2, <1>3

\* Nothing is counted on the empty list.
LEMMA CountNone == ASSUME NEW fb PROVE Count(<<>>, fb) = 0
  <1>1. {i \in 1 .. Len(<<>>) : <<>>[i].mTimedFB = fb} = {}
    OBVIOUS
  <1> QED
    BY <1>1, FS_EmptySet DEF Count

\* The operations on lists of entries, counted.
LEMMA CountAppend ==
    ASSUME NEW s \in Seq(Entry), NEW entry \in Entry, NEW fb
    PROVE  Count(Append(s, entry), fb) = Count(s, fb) + One(entry, fb)
  <1>1. Append(s, entry) = s \o <<entry>>
    BY AppendIsConcat
  <1>2. <<entry>> \in Seq(Entry) /\ Count(<<entry>>, fb) = One(entry, fb)
    BY CountOne
  <1>3. Count(s \o <<entry>>, fb) = Count(s, fb) + Count(<<entry>>, fb)
    BY <1>2, CountConcat
  <1> QED
    BY <1>1, <1>2, <1>3

LEMMA CountTail ==
    ASSUME NEW s \in Seq(Entry), s # <<>>, NEW fb
    PROVE  Count(s, fb) = One(Head(s), fb) + Count(Tail(s), fb)
  <1>1. Head(s) \in Entry /\ Tail(s) \in Seq(Entry)
    BY HeadTailProperties
  <1>2. <<Head(s)>> \in Seq(Entry) /\ Count(<<Head(s)>>, fb) = One(Head(s), fb)
    BY <1>1, CountOne
  <1>3. s = <<Head(s)>> \o Tail(s)
    BY <1>1
  <1>4. Count(<<Head(s)>> \o Tail(s), fb) = Count(<<Head(s)>>, fb) + Count(Tail(s), fb)
    BY <1>1, <1>2, CountConcat
  <1> QED
    BY <1>2, <1>3, <1>4

LEMMA CountSplit ==
    ASSUME NEW s \in Seq(Entry), NEW k \in 0 .. Len(s), NEW fb
    PROVE  Count(s, fb) = Count(SubSeq(s, 1, k), fb) + Count(SubSeq(s, k + 1, Len(s)), fb)
  <1> DEFINE a == SubSeq(s, 1, k)
             b == SubSeq(s, k + 1, Len(s))
  <1>1. a \in Seq(Entry) /\ b \in Seq(Entry)
    BY Split
  <1>2. a \o b = s
    <2>1. Len(s) \in Nat
      BY LenProperties
    <2>2. 1 \in 1 .. Len(s) + 1 /\ k \in 1 - 1 .. Len(s) /\ Len(s) \in k .. Len(s)
      BY <2>1
    <2>3. a \o b = SubSeq(s, 1, Len(s))
      BY <2>2, ConcatAdjacentSubSeq
    <2> QED
      BY <2>3, SubSeqFull
  <1> HIDE DEF a, b
  <1>3. Count(a \o b, fb) = Count(a, fb) + Count(b, fb)
    BY <1>1, CountConcat
  <1> QED
    BY <1>2, <1>3 DEF a, b

LEMMA CountAddEntry ==
    ASSUME NEW list \in Seq(Entry), NEW entry \in Entry, NEW fb
    PROVE  Count(addTimedFBEntry(list, entry), fb) = Count(list, fb) + One(entry, fb)
  <1> DEFINE k == upperBound(list, entry.mTimeOut)
             a == SubSeq(list, 1, k)
             b == SubSeq(list, k + 1, Len(list))
             e == <<entry>>
  <1>1. k \in 0 .. Len(list)
    BY AddEntry
  <1>2. addTimedFBEntry(list, entry) = (a \o e) \o b
    BY DEF addTimedFBEntry
  <1> HIDE DEF k
  <1>3. a \in Seq(Entry) /\ b \in Seq(Entry)
    BY <1>1, Split
  <1>4. Count(list, fb) = Count(a, fb) + Count(b, fb)
    BY <1>1, CountSplit
  <1>5. e \in Seq(Entry) /\ Count(e, fb) = One(entry, fb)
    BY CountOne
  <1> HIDE DEF a, b, e
  <1>6. /\ a \o e \in Seq(Entry)
        /\ Count(a \o e, fb) = Count(a, fb) + Count(e, fb)
        /\ Count(a, fb) \in Nat /\ Count(e, fb) \in Nat
    BY <1>3, <1>5, ConcatProperties, CountConcat
  <1>7. /\ Count((a \o e) \o b, fb) = Count(a \o e, fb) + Count(b, fb)
        /\ Count(b, fb) \in Nat
    BY <1>3, <1>6, CountConcat
  <1> QED
    BY <1>2, <1>4, <1>5, <1>6, <1>7

\* Removing takes nothing from a block that nobody wants removed.
LEMMA CountRemove ==
    ASSUME mTimedFBList \in Seq(Entry), processRemoveList, NEW fb,
           \A j \in 1 .. Len(mRemoveFBList) : mRemoveFBList[j] # fb
    PROVE  Count(mTimedFBList', fb) = Count(mTimedFBList, fb)
  <1> DEFINE n == Cardinality(staying)
             new == mTimedFBList'
             A == {i \in 1 .. Len(mTimedFBList) : mTimedFBList[i].mTimedFB = fb}
             B == {i \in 1 .. Len(new) : new[i].mTimedFB = fb}
  <1>1. Len(mTimedFBList) \in Nat
    BY LenProperties
  <1>2. IsFiniteSet(staying) /\ n \in Nat
    <2>1. IsFiniteSet(1 .. Len(mTimedFBList))
      BY <1>1, FS_Interval
    <2>2. staying \subseteq 1 .. Len(mTimedFBList)
      BY DEF staying
    <2>3. IsFiniteSet(staying)
      BY <2>1, <2>2, FS_Subset
    <2> QED
      BY <2>3, FS_CardinalityType
  <1>3. A \subseteq staying
    BY DEF staying
  <1>4. staying \subseteq 1 .. Len(mTimedFBList)
    BY DEF staying
  <1>5. PICK pos \in [1 .. n -> staying] :
            /\ \A i, j \in DOMAIN pos : i < j => pos[i] < pos[j]
            /\ new = [i \in DOMAIN pos |-> mTimedFBList[pos[i]]]
    BY DEF processRemoveList
  <1>6. DOMAIN pos = 1 .. n
    OBVIOUS
  <1> HIDE DEF n
  <1>7. \A i, j \in 1 .. n : pos[i] = pos[j] => i = j
    <2> SUFFICES ASSUME NEW i \in 1 .. n, NEW j \in 1 .. n, i # j
                 PROVE  pos[i] # pos[j]
      OBVIOUS
    <2>1. i < j \/ j < i
      BY <1>2
    <2>2. pos[i] \in Int /\ pos[j] \in Int
      <3>1. pos[i] \in staying /\ pos[j] \in staying
        OBVIOUS
      <3>2. 1 .. Len(mTimedFBList) \subseteq Int
        BY <1>1
      <3> QED
        BY <3>1, <3>2, <1>4
    <2> QED
      BY <2>1, <2>2, <1>5, <1>6
  <1>8. \A p \in staying : \E i \in 1 .. n : pos[i] = p
    <2>1. pos \in Injection(1 .. n, staying)
      BY <1>7 DEF Injection, IsInjective
    <2>2. Cardinality(1 .. n) = n
      BY <1>2, FS_Interval
    <2>3. Cardinality(1 .. n) = Cardinality(staying)
      BY <2>2 DEF n
    <2>4. pos \in Surjection(1 .. n, staying)
      BY <2>1, <2>3, <1>2, FS_Injection
    <2> QED
      BY <2>4 DEF Surjection
  <1>9. /\ Len(new) = n
        /\ \A i \in 1 .. n : new[i] = mTimedFBList[pos[i]]
    <2>1. new = [i \in 1 .. n |-> mTimedFBList[pos[i]]]
      BY <1>5, <1>6
    <2>2. \A i \in 1 .. n : mTimedFBList[pos[i]] \in Entry
      BY <1>4, ElementOfSeq
    <2>3. new \in [1 .. n -> Entry]
      BY <2>1, <2>2
    <2>4. new \in Seq(Entry)
      BY <2>3, <1>2, SeqDef
    <2>5. Len(new) = n
      BY <2>3, <2>4, <1>2, LenProperties
    <2> QED
      BY <2>1, <2>5
  <1> HIDE DEF new
  <1> DEFINE f == [i \in B |-> pos[i]]
  <1>10. f \in Bijection(B, A)
    <2>1. \A i \in B : i \in 1 .. n /\ mTimedFBList[pos[i]].mTimedFB = fb
      BY <1>9
    <2>2. \A i \in B : pos[i] \in A
      BY <2>1, <1>4
    <2>3. \A i, j \in B : f[i] = f[j] => i = j
      BY <2>1, <1>7
    <2>4. \A p \in A : \E i \in B : f[i] = p
      <3> SUFFICES ASSUME NEW p \in A PROVE \E i \in B : f[i] = p
        OBVIOUS
      <3>1. PICK i \in 1 .. n : pos[i] = p
        BY <1>3, <1>8
      <3>2. i \in B
        BY <3>1, <1>9
      <3> QED
        BY <3>1, <3>2
    <2>5. f \in [B -> A]
      BY <2>2
    <2> HIDE DEF A, B, f
    <2> QED
      BY <2>3, <2>4, <2>5 DEF Bijection, Injection, Surjection, IsInjective
  <1>11. IsFiniteSet(B)
    <2>1. IsFiniteSet(1 .. Len(new))
      BY <1>2, <1>9, FS_Interval
    <2> QED
      BY <2>1, FS_Subset
  <1>12. Cardinality(A) = Cardinality(B)
    <2> HIDE DEF A, B, f
    <2>1. ExistsBijection(B, A)
      BY <1>10 DEF ExistsBijection
    <2> QED
      BY <2>1, <1>11, FS_Bijection
  <1> QED
    BY <1>12 DEF Count, new

\* The positions of a block on the list of the executing thread.
ChainsAt(s, fb) == {i \in 1 .. Len(s) : s[i] = fb}

LEMMA ChainsFinite ==
    ASSUME NEW s \in Seq(FB), NEW fb
    PROVE  /\ IsFiniteSet(ChainsAt(s, fb)) /\ Cardinality(ChainsAt(s, fb)) \in Nat
           /\ ChainsAt(s, fb) \subseteq Int
  <1>1. Len(s) \in Nat
    BY LenProperties
  <1>2. IsFiniteSet(1 .. Len(s))
    BY <1>1, FS_Interval
  <1>3. ChainsAt(s, fb) \subseteq 1 .. Len(s)
    BY DEF ChainsAt
  <1>4. IsFiniteSet(ChainsAt(s, fb))
    BY <1>2, <1>3, FS_Subset
  <1> QED
    BY <1>1, <1>3, <1>4, FS_CardinalityType

LEMMA ChainsAppend ==
    ASSUME NEW s \in Seq(FB), NEW b \in FB, NEW fb
    PROVE  Cardinality(ChainsAt(Append(s, b), fb)) =
              Cardinality(ChainsAt(s, fb)) + IF b = fb THEN 1 ELSE 0
  <1> DEFINE r == Append(s, b)
             A == ChainsAt(s, fb)
             C == ChainsAt(r, fb)
  <1>1. Len(s) \in Nat
    BY LenProperties
  <1>2. Len(r) = Len(s) + 1 /\ (\A i \in 1 .. Len(s) : r[i] = s[i]) /\ r[Len(s) + 1] = b
    BY AppendProperties
  <1> HIDE DEF r
  <1>3. IsFiniteSet(A) /\ Cardinality(A) \in Nat
    BY ChainsFinite
  <1>4. CASE b = fb
    <2>1. C = A \cup {Len(s) + 1}
      BY <1>1, <1>2, <1>4 DEF ChainsAt
    <2>2. Len(s) + 1 \notin A
      BY <1>1 DEF ChainsAt
    <2> HIDE DEF A, C
    <2>3. Cardinality(C) = Cardinality(A) + 1
      BY <2>1, <2>2, <1>3, FS_AddElement
    <2> QED
      BY <2>3, <1>4 DEF A, C, r
  <1>5. CASE b # fb
    <2>1. C = A
      BY <1>1, <1>2, <1>5 DEF ChainsAt
    <2> QED
      BY <2>1, <1>3, <1>5 DEF r
  <1> QED
    BY <1>4, <1>5

LEMMA ChainsTail ==
    ASSUME NEW s \in Seq(FB), s # <<>>, NEW fb
    PROVE  Cardinality(ChainsAt(s, fb)) =
              Cardinality(ChainsAt(Tail(s), fb)) + IF Head(s) = fb THEN 1 ELSE 0
  <1> DEFINE t == Tail(s)
             B == ChainsAt(t, fb)
             C == ChainsAt(s, fb)
             A == IF Head(s) = fb THEN {1} ELSE {}
  <1>1. Len(s) \in Nat /\ Len(s) # 0
    BY EmptySeq, LenProperties
  <1>2. t \in Seq(FB) /\ Len(t) = Len(s) - 1 /\ \A i \in 1 .. Len(t) : t[i] = s[i + 1]
    BY HeadTailProperties
  <1>3. s[1] = Head(s)
    BY <1>1
  <1> HIDE DEF t
  <1>4. C = A \cup Behind(1, B)
    <2>1. ASSUME NEW i \in C PROVE i \in A \cup Behind(1, B)
      <3>1. i \in 1 .. Len(s) /\ s[i] = fb
        BY DEF ChainsAt
      <3>2. CASE i = 1
        BY <3>1, <3>2, <1>3
      <3>3. CASE i # 1
        <4>1. i - 1 \in 1 .. Len(t) /\ 1 + (i - 1) = i /\ (i - 1) + 1 = i
          BY <3>1, <3>3, <1>1, <1>2
        <4>2. t[i - 1] = fb
          BY <4>1, <3>1, <1>2
        <4>3. i - 1 \in B
          BY <4>1, <4>2 DEF ChainsAt
        <4> QED
          BY <4>1, <4>3 DEF Behind
      <3> QED
        BY <3>2, <3>3
    <2>2. A \subseteq C
      BY <1>1, <1>3 DEF ChainsAt
    <2>3. ASSUME NEW j \in B PROVE 1 + j \in C
      <3>1. j \in 1 .. Len(t) /\ t[j] = fb
        BY DEF ChainsAt
      <3>2. 1 + j \in 1 .. Len(s) /\ 1 + j = j + 1
        BY <3>1, <1>1, <1>2
      <3>3. s[1 + j] = fb
        BY <3>1, <3>2, <1>2
      <3> QED
        BY <3>2, <3>3 DEF ChainsAt
    <2> HIDE DEF A, B, C
    <2> QED
      BY <2>1, <2>2, <2>3 DEF Behind
  <1>5. IsFiniteSet(B) /\ Cardinality(B) \in Nat /\ B \in SUBSET Int
    BY <1>2, ChainsFinite
  <1>6. IsFiniteSet(A) /\ Cardinality(A) = IF Head(s) = fb THEN 1 ELSE 0
    BY FS_EmptySet, FS_Singleton
  <1>7. A \cap Behind(1, B) = {}
    <2>1. \A j \in B : j > 0 /\ j \in Int
      BY <1>1, <1>2 DEF ChainsAt
    <2> HIDE DEF B
    <2> QED
      BY <2>1 DEF Behind
  <1> HIDE DEF A, B, C
  <1>8. Cardinality(A \cup Behind(1, B)) = Cardinality(A) + Cardinality(B)
    BY <1>5, <1>6, <1>7, Positions
  <1> QED
    BY <1>4, <1>5, <1>6, <1>8 DEF B, C, t

-----------------------------------------------------------------------------
(* Every START is registered once *)

\* No interval at a DT input is a multiple of 2^32 ticks, which registerPeriodicTimedFB
\* would cut to the indicator of a one-shot entry.
IntervalsFit == \A t \in DT : convertIntervalToTimerHandlerUnits(t) # OneShot

\* An entry is periodic if its block is a cycle.
Fits(entry) == entry.mInterval = OneShot <=> OneShotFB(entry.mTimedFB)
FitList(list) == \A i \in 1 .. Len(list) : Fits(list[i])

AllFit ==
    /\ call # NoEntry => Fits(call)
    /\ FitList(mAddFBList)
    /\ FitList(mTimedFBList)
    /\ FitList(triggered)

\* A block nobody has taken back is running, no unregister of it is on its way, and it
\* accepted a START because it was not active.
Untouched ==
    /\ \A fb \in FB \ touched :
          /\ mFBState[fb] = "Running"
          /\ stopping # fb
          /\ \A i \in 1 .. Len(mRemoveFBList) : mRemoveFBList[i] # fb
          /\ starting = fb => ~mActive[fb]
    /\ call # NoEntry => starting # NoFB /\ call.mTimedFB = starting

\* The blocks OneEventPerStart speaks about, those inside START among them.
Counted(fb) == fb \notin touched /\ (OneShotFB(fb) => fb \notin overrun)
Balance == \A fb \in FB : Counted(fb) => Owed(fb) = IF mActive[fb] THEN 1 ELSE 0

OnceInv == TickInv /\ AllFit /\ Untouched /\ Balance

\* The started chains that Owed counts.
Out(fb) == IF OneShotFB(fb) THEN Chains(fb) ELSE 0

LEMMA OwedParts ==
    ASSUME TypeOK, NEW fb
    PROVE  /\ Count(mAddFBList, fb) \in Nat
           /\ Count(mTimedFBList, fb) \in Nat
           /\ Count(triggered, fb) \in Nat
           /\ Out(fb) \in Nat
           /\ Chains(fb) = Cardinality(ChainsAt(chains, fb))
           /\ Owed(fb) = Count(mAddFBList, fb) + Count(mTimedFBList, fb)
                            + Count(triggered, fb) + Out(fb)
  <1>1. /\ mAddFBList \in Seq(Entry) /\ mTimedFBList \in Seq(Entry) /\ triggered \in Seq(Entry)
        /\ chains \in Seq(FB)
    BY DEF TypeOK, TimerTypeOK
  <1>2. /\ Count(mAddFBList, fb) \in Nat
        /\ Count(mTimedFBList, fb) \in Nat
        /\ Count(triggered, fb) \in Nat
    BY <1>1, CountConcat
  <1>3. Chains(fb) = Cardinality(ChainsAt(chains, fb))
    BY DEF Chains, ChainsAt
  <1>4. Out(fb) \in Nat
    BY <1>1, <1>3, ChainsFinite DEF Out
  <1>5. Owed(fb) = Count(mAddFBList, fb) + Count(mTimedFBList, fb)
                      + Count(triggered, fb) + Out(fb)
    BY DEF Owed, Registered, Out
  <1> QED
    BY <1>2, <1>3, <1>4, <1>5

\* A step that moves no registration and changes no flag of a block that counts.
LEMMA BalanceFrame ==
    ASSUME Balance, UNCHANGED <<mAddFBList, mTimedFBList, triggered, chains>>,
           touched \subseteq touched', overrun \subseteq overrun',
           \A fb \in FB \ touched' : mActive'[fb] = mActive[fb]
    PROVE  Balance'
  <1> SUFFICES ASSUME NEW fb \in FB, Counted(fb)'
               PROVE  Owed(fb)' = IF mActive'[fb] THEN 1 ELSE 0
    BY DEF Balance
  <1>1. Owed(fb)' = Owed(fb)
    BY DEF Owed, Registered, Count, Chains
  <1>2. Counted(fb) /\ mActive'[fb] = mActive[fb]
    BY DEF Counted
  <1> QED
    BY <1>1, <1>2 DEF Balance

\* addTimedFBEntry keeps the entries it finds and brings the one it is given.
LEMMA AddFits ==
    ASSUME NEW list \in Seq(Entry), NEW entry \in Entry, FitList(list), Fits(entry)
    PROVE  FitList(addTimedFBEntry(list, entry))
  <1> DEFINE k == upperBound(list, entry.mTimeOut)
             r == addTimedFBEntry(list, entry)
  <1>1. /\ k \in 0 .. Len(list)
        /\ Len(r) = Len(list) + 1
        /\ \A i \in 1 .. k : r[i] = list[i]
        /\ r[k + 1] = entry
        /\ \A i \in k + 2 .. Len(list) + 1 : r[i] = list[i - 1]
    BY AddEntry
  <1> HIDE DEF k, r
  <1>2. Len(list) \in Nat
    BY LenProperties
  <1> SUFFICES ASSUME NEW i \in 1 .. Len(r)
               PROVE  Fits(r[i])
    BY DEF FitList, r
  <1>3. CASE i <= k
    <2>1. i \in 1 .. k /\ i \in 1 .. Len(list)
      BY <1>1, <1>2, <1>3
    <2> QED
      BY <2>1, <1>1 DEF FitList
  <1>4. CASE i = k + 1
    BY <1>1, <1>4
  <1>5. CASE i > k + 1
    <2>1. i \in k + 2 .. Len(list) + 1 /\ i - 1 \in 1 .. Len(list)
      BY <1>1, <1>2, <1>5
    <2> QED
      BY <2>1, <1>1 DEF FitList
  <1>6. i \in Int /\ k \in Int
    BY <1>1, <1>2
  <1> QED
    BY <1>3, <1>4, <1>5, <1>6

\* triggerTimedFB turns an entry of a delay into a started chain, unless the executing
\* thread has no room, and puts an entry of a cycle back.
LEMMA TriggerCount ==
    ASSUME TypeOK, FitList(mTimedFBList), NEW entry \in Entry, Fits(entry),
           triggerTimedFB(entry)
    PROVE  /\ FitList(mTimedFBList')
           /\ overrun \subseteq overrun'
           /\ \A fb \in FB : (OneShotFB(fb) => fb \notin overrun') =>
                 Count(mTimedFBList', fb) + Out(fb)'
                    = Count(mTimedFBList, fb) + Out(fb) + One(entry, fb)
  <1> DEFINE again == [entry EXCEPT !.mTimeOut = mForteTime + entry.mInterval]
  <1>1. chains \in Seq(FB) /\ mTimedFBList \in Seq(Entry)
    BY DEF TypeOK, TimerTypeOK
  <1>2. mForteTime \in Nat
    BY TimerAssumption DEF TypeOK, TimerTypeOK
  <1>3. entry.mTimedFB \in FB /\ entry.mTimeOut \in Nat /\ entry.mInterval \in Nat
    BY DEF Entry
  <1>4. /\ again \in Entry
        /\ again.mTimedFB = entry.mTimedFB
        /\ again.mInterval = entry.mInterval
    <2>1. mForteTime + entry.mInterval \in Nat
      BY <1>2, <1>3
    <2>2. again \in Entry
      BY <2>1 DEF Entry
    <2>3. again.mTimedFB = entry.mTimedFB /\ again.mInterval = entry.mInterval
      BY DEF Entry
    <2> QED
      BY <2>2, <2>3
  <1>5. mTimedFBList' = IF entry.mInterval = OneShot THEN mTimedFBList
                        ELSE addTimedFBEntry(mTimedFBList, again)
    BY DEF triggerTimedFB
  <1> HIDE DEF again
  <1>6. Fits(again)
    BY <1>4 DEF Fits
  <1>7. FitList(mTimedFBList')
    <2>1. CASE entry.mInterval = OneShot
      BY <2>1, <1>5
    <2>2. CASE entry.mInterval # OneShot
      <3>1. FitList(addTimedFBEntry(mTimedFBList, again))
        BY <1>1, <1>4, <1>6, AddFits
      <3> QED
        BY <3>1, <2>2, <1>5
    <2> QED
      BY <2>1, <2>2
  <1>8. overrun \subseteq overrun'
    BY DEF triggerTimedFB, startNewEventChain
  <1>9. ASSUME NEW fb \in FB, OneShotFB(fb) => fb \notin overrun'
        PROVE  Count(mTimedFBList', fb) + Out(fb)'
                  = Count(mTimedFBList, fb) + Out(fb) + One(entry, fb)
    <2>1. Count(mTimedFBList, fb) \in Nat /\ Out(fb) \in Nat
      BY OwedParts
    <2>2. CASE OneShotFB(fb)
      <3>1. Count(mTimedFBList', fb) = Count(mTimedFBList, fb)
        <4>1. CASE entry.mInterval = OneShot
          BY <4>1, <1>5
        <4>2. CASE entry.mInterval # OneShot
          <5>1. again.mTimedFB # fb
            BY <4>2, <2>2, <1>4 DEF Fits
          <5>2. Count(addTimedFBEntry(mTimedFBList, again), fb)
                   = Count(mTimedFBList, fb) + One(again, fb)
            BY <1>1, <1>4, CountAddEntry
          <5> QED
            BY <5>1, <5>2, <4>2, <2>1, <1>5 DEF One
        <4> QED
          BY <4>1, <4>2
      <3>2. Out(fb)' = Out(fb) + One(entry, fb)
        <4>1. Out(fb) = Cardinality(ChainsAt(chains, fb))
          BY <2>2 DEF Out, Chains, ChainsAt
        <4>2. Out(fb)' = Cardinality(ChainsAt(chains', fb))
          BY <2>2 DEF Out, Chains, ChainsAt, OneShotFB
        <4>3. CASE Len(chains) < ChainCap
          <5>1. chains' = Append(chains, entry.mTimedFB)
            BY <4>3 DEF triggerTimedFB, startNewEventChain
          <5>2. Cardinality(ChainsAt(chains', fb)) =
                   Cardinality(ChainsAt(chains, fb)) + IF entry.mTimedFB = fb THEN 1 ELSE 0
            BY <5>1, <1>1, <1>3, ChainsAppend
          <5> QED
            BY <5>2, <4>1, <4>2 DEF One
        <4>4. CASE ~(Len(chains) < ChainCap)
          <5>1. chains' = chains /\ entry.mTimedFB \in overrun'
            BY <4>4 DEF triggerTimedFB, startNewEventChain
          <5>2. entry.mTimedFB # fb
            BY <5>1, <2>2, <1>9
          <5> QED
            BY <5>1, <5>2, <4>1, <4>2, <2>1 DEF One
        <4> QED
          BY <4>3, <4>4
      <3>3. One(entry, fb) \in Nat
        BY DEF One
      <3> QED
        BY <3>1, <3>2, <3>3, <2>1
    <2>3. CASE ~OneShotFB(fb)
      <3>1. Out(fb) = 0 /\ Out(fb)' = 0
        BY <2>3 DEF Out, OneShotFB
      <3>2. Count(mTimedFBList', fb) = Count(mTimedFBList, fb) + One(entry, fb)
        <4>1. CASE entry.mInterval = OneShot
          <5>1. entry.mTimedFB # fb
            BY <4>1, <2>3 DEF Fits
          <5> QED
            BY <5>1, <4>1, <2>1, <1>5 DEF One
        <4>2. CASE entry.mInterval # OneShot
          <5>1. Count(addTimedFBEntry(mTimedFBList, again), fb)
                   = Count(mTimedFBList, fb) + One(again, fb)
            BY <1>1, <1>4, CountAddEntry
          <5> QED
            BY <5>1, <4>2, <1>4, <1>5 DEF One
        <4> QED
          BY <4>1, <4>2
      <3>3. One(entry, fb) \in Nat
        BY DEF One
      <3> QED
        BY <3>1, <3>2, <3>3, <2>1
    <2> QED
      BY <2>2, <2>3
  <1> QED
    BY <1>7, <1>8, <1>9

\* An unregister names a block that is touched from then on.
LEMMA RemoveAppend ==
    ASSUME NEW r \in Seq(FB), NEW b \in FB, NEW fb, b # fb,
           \A i \in 1 .. Len(r) : r[i] # fb
    PROVE  \A i \in 1 .. Len(Append(r, b)) : Append(r, b)[i] # fb
  <1> DEFINE s == Append(r, b)
  <1>1. Len(s) = Len(r) + 1 /\ (\A i \in 1 .. Len(r) : s[i] = r[i]) /\ s[Len(r) + 1] = b
    BY AppendProperties
  <1>2. Len(r) \in Nat
    BY LenProperties
  <1> HIDE DEF s
  <1>3. \A i \in 1 .. Len(s) : i \in 1 .. Len(r) \/ i = Len(r) + 1
    BY <1>1, <1>2
  <1>4. \A i \in 1 .. Len(s) : s[i] # fb
    BY <1>1, <1>3
  <1> QED
    BY <1>4 DEF s

\* The entries of the rest of a list.
LEMMA TailFits ==
    ASSUME NEW s \in Seq(Entry), s # <<>>, FitList(s)
    PROVE  Fits(Head(s)) /\ FitList(Tail(s))
  <1>1. Len(s) \in Nat /\ Len(s) # 0
    BY EmptySeq, LenProperties
  <1>2. Len(Tail(s)) = Len(s) - 1 /\ \A i \in 1 .. Len(Tail(s)) : Tail(s)[i] = s[i + 1]
    BY HeadTailProperties
  <1>3. Head(s) = s[1] /\ 1 \in 1 .. Len(s)
    BY <1>1
  <1>4. \A i \in 1 .. Len(Tail(s)) : i + 1 \in 1 .. Len(s)
    BY <1>1, <1>2
  <1> QED
    BY <1>2, <1>3, <1>4 DEF FitList

\* The timer thread takes unregister requests and makes none.
LEMMA UntouchedTimer ==
    ASSUME Untouched, UNCHANGED fbVars, call' = call,
           mRemoveFBList' = mRemoveFBList \/ mRemoveFBList' = <<>>
    PROVE  Untouched'
  <1>1. UNCHANGED <<mActive, mFBState, starting, stopping, touched>>
    BY DEF fbVars
  <1>2. CASE mRemoveFBList' = mRemoveFBList
    BY <1>1, <1>2 DEF Untouched
  <1>3. CASE mRemoveFBList' = <<>>
    <2>1. 1 .. Len(mRemoveFBList') = {}
      BY <1>3
    <2> QED
      BY <1>1, <2>1 DEF Untouched
  <1> QED
    BY <1>2, <1>3

LEMMA OnceInit == Init => AllFit /\ Untouched /\ Balance
  <1> SUFFICES ASSUME Init PROVE AllFit /\ Untouched /\ Balance
    OBVIOUS
  <1>1. /\ mAddFBList = <<>> /\ mTimedFBList = <<>> /\ triggered = <<>> /\ chains = <<>>
        /\ mRemoveFBList = <<>> /\ call = NoEntry
    BY DEF Init, TimerInit
  <1>2. 1 .. Len(<<>>) = {}
    OBVIOUS
  <1>3. AllFit
    BY <1>1, <1>2 DEF AllFit, FitList
  <1>4. Untouched
    BY <1>1, <1>2, TimedAssumption DEF Init, Untouched
  <1>5. ASSUME NEW fb \in FB PROVE Owed(fb) = 0 /\ ~mActive[fb]
    <2>1. Chains(fb) = 0
      <3>1. {i \in 1 .. Len(chains) : chains[i] = fb} = {}
        BY <1>1, <1>2
      <3> QED
        BY <3>1, FS_EmptySet DEF Chains
    <2>2. Count(mAddFBList, fb) = 0 /\ Count(mTimedFBList, fb) = 0 /\ Count(triggered, fb) = 0
      BY <1>1, CountNone
    <2>3. Owed(fb) = 0
      BY <2>1, <2>2 DEF Owed, Registered
    <2> QED
      BY <2>3 DEF Init
  <1>6. Balance
    BY <1>5 DEF Balance
  <1> QED
    BY <1>3, <1>4, <1>6

\* nextTick and the check of the add list move no registration.
LEMMA OnceIdle ==
    ASSUME OnceInv, nextTick \/ checkAddList, UNCHANGED fbVars
    PROVE  AllFit' /\ Untouched' /\ Balance'
  <1>1. UNCHANGED <<mTimedFBList, mAddFBList, mRemoveFBList, triggered, call, chains, overrun>>
    BY DEF nextTick, checkAddList
  <1>2. AllFit'
    BY <1>1 DEF OnceInv, AllFit, FitList
  <1>3. Untouched'
    BY <1>1, UntouchedTimer DEF OnceInv
  <1>4. touched \subseteq touched' /\ \A fb \in FB \ touched' : mActive'[fb] = mActive[fb]
    BY DEF fbVars
  <1>5. Balance'
    BY <1>1, <1>4, BalanceFrame DEF OnceInv
  <1> QED
    BY <1>2, <1>3, <1>5

LEMMA OnceRemove ==
    ASSUME OnceInv, processRemoveList, UNCHANGED fbVars
    PROVE  AllFit' /\ Untouched' /\ Balance'
  <1>1. /\ mRemoveFBList' = <<>>
        /\ UNCHANGED <<mForteTime, mAddFBList, triggered, call, chains, overrun>>
        /\ UNCHANGED <<mActive, touched>>
    BY DEF processRemoveList, fbVars
  <1>2. mTimedFBList \in Seq(Entry) /\ Sorted(mTimedFBList)
    BY DEF OnceInv, TickInv, TypeOK, TimerTypeOK, TickOrder
  <1>3. \A i \in 1 .. Len(mTimedFBList') :
            \E j \in 1 .. Len(mTimedFBList) : mTimedFBList'[i] = mTimedFBList[j]
    BY <1>2, Remove
  <1>4. AllFit'
    <2>1. FitList(mTimedFBList')
      BY <1>3 DEF OnceInv, AllFit, FitList
    <2> QED
      BY <2>1, <1>1 DEF OnceInv, AllFit
  <1>5. Untouched'
    BY <1>1, UntouchedTimer DEF OnceInv
  <1>6. Balance'
    <2> SUFFICES ASSUME NEW fb \in FB, Counted(fb)'
                 PROVE  Owed(fb)' = IF mActive'[fb] THEN 1 ELSE 0
      BY DEF Balance
    <2>1. Counted(fb)
      BY <1>1 DEF Counted
    <2>2. \A j \in 1 .. Len(mRemoveFBList) : mRemoveFBList[j] # fb
      BY <2>1 DEF OnceInv, Untouched, Counted
    <2>3. Count(mTimedFBList', fb) = Count(mTimedFBList, fb)
      BY <2>2, <1>2, CountRemove
    <2>4. Owed(fb)' = Owed(fb)
      BY <2>3, <1>1 DEF Owed, Registered, Chains
    <2> QED
      BY <2>1, <2>4, <1>1 DEF OnceInv, Balance
  <1> QED
    BY <1>4, <1>5, <1>6

LEMMA OnceTimed ==
    ASSUME OnceInv, processTimedFBList, UNCHANGED fbVars
    PROVE  AllFit' /\ Untouched' /\ Balance'
  <1> DEFINE k == upperBound(mTimedFBList, mForteTime)
             a == SubSeq(mTimedFBList, 1, k)
             b == SubSeq(mTimedFBList, k + 1, Len(mTimedFBList))
  <1>1. /\ kpc = "timed" /\ triggered' = a /\ mTimedFBList' = b
        /\ UNCHANGED <<mForteTime, mAddFBList, mRemoveFBList, call, chains, overrun>>
        /\ UNCHANGED <<mActive, touched>>
    BY DEF processTimedFBList, fbVars
  <1>2. mTimedFBList \in Seq(Entry) /\ mForteTime \in Nat /\ triggered = <<>> /\ TypeOK
    BY <1>1, TimerAssumption DEF OnceInv, TickInv, TypeOK, TimerTypeOK, TickOrder
  <1>3. k \in 0 .. Len(mTimedFBList)
    BY <1>2, UpperBound
  <1> HIDE DEF k
  <1>4. /\ a \in Seq(Entry)
        /\ Len(a) = k
        /\ \A i \in 1 .. k : a[i] = mTimedFBList[i]
        /\ b \in Seq(Entry)
        /\ Len(b) = Len(mTimedFBList) - k
        /\ \A i \in 1 .. Len(mTimedFBList) - k : b[i] = mTimedFBList[k + i]
    BY <1>2, <1>3, Split
  <1>5. \A fb : Count(mTimedFBList, fb) = Count(a, fb) + Count(b, fb)
    BY <1>2, <1>3, CountSplit
  <1> HIDE DEF a, b
  <1>6. Len(mTimedFBList) \in Nat
    BY <1>2, LenProperties
  <1>7. AllFit'
    <2>1. FitList(a)
      <3>1. \A i \in 1 .. k : i \in 1 .. Len(mTimedFBList)
        BY <1>3, <1>6
      <3> QED
        BY <3>1, <1>4 DEF OnceInv, AllFit, FitList
    <2>2. FitList(b)
      <3>1. \A i \in 1 .. Len(mTimedFBList) - k : k + i \in 1 .. Len(mTimedFBList)
        BY <1>3, <1>6
      <3> QED
        BY <3>1, <1>4 DEF OnceInv, AllFit, FitList
    <2> QED
      BY <2>1, <2>2, <1>1 DEF OnceInv, AllFit
  <1>8. Untouched'
    BY <1>1, UntouchedTimer DEF OnceInv
  <1>9. Balance'
    <2> SUFFICES ASSUME NEW fb \in FB, Counted(fb)'
                 PROVE  Owed(fb)' = IF mActive'[fb] THEN 1 ELSE 0
      BY DEF Balance
    <2>1. Counted(fb)
      BY <1>1 DEF Counted
    <2>2. Count(triggered, fb) = 0
      BY <1>2, CountNone
    <2>3. Count(a, fb) \in Nat /\ Count(b, fb) \in Nat /\ Count(mAddFBList, fb) \in Nat
      BY <1>2, <1>4, CountConcat, OwedParts
    <2>4. /\ Registered(fb) = Count(mAddFBList, fb) + (Count(a, fb) + Count(b, fb)) + 0
          /\ Registered(fb)' = Count(mAddFBList, fb) + Count(b, fb) + Count(a, fb)
      BY <2>2, <1>1, <1>5 DEF Registered
    <2>5. Registered(fb)' = Registered(fb)
      BY <2>3, <2>4
    <2>6. Owed(fb)' = Owed(fb)
      BY <2>5, <1>1 DEF Owed, Chains
    <2> QED
      BY <2>1, <2>6, <1>1 DEF OnceInv, Balance
  <1> QED
    BY <1>7, <1>8, <1>9

LEMMA OnceTrigger ==
    ASSUME OnceInv, triggerNext, UNCHANGED fbVars
    PROVE  AllFit' /\ Untouched' /\ Balance'
  <1> DEFINE entry == Head(triggered)
  <1>1. /\ triggered # <<>> /\ triggered' = Tail(triggered) /\ triggerTimedFB(entry)
        /\ UNCHANGED <<mForteTime, mAddFBList, mRemoveFBList, call>>
        /\ UNCHANGED <<mActive, touched>>
    BY DEF triggerNext, fbVars
  <1>2. TypeOK /\ triggered \in Seq(Entry) /\ FitList(mTimedFBList) /\ FitList(triggered)
    BY DEF OnceInv, TickInv, TypeOK, TimerTypeOK, AllFit
  <1>3. entry \in Entry /\ Tail(triggered) \in Seq(Entry) /\ Fits(entry) /\ FitList(Tail(triggered))
    BY <1>1, <1>2, HeadTailProperties, TailFits
  <1>4. \A fb : Count(triggered, fb) = One(entry, fb) + Count(triggered', fb)
    BY <1>1, <1>2, CountTail
  <1> HIDE DEF entry
  <1>5. /\ FitList(mTimedFBList')
        /\ overrun \subseteq overrun'
        /\ \A fb \in FB : (OneShotFB(fb) => fb \notin overrun') =>
              Count(mTimedFBList', fb) + Out(fb)'
                 = Count(mTimedFBList, fb) + Out(fb) + One(entry, fb)
    BY <1>1, <1>2, <1>3, TriggerCount
  <1>6. AllFit'
    BY <1>1, <1>3, <1>5 DEF OnceInv, AllFit
  <1>7. Untouched'
    BY <1>1, UntouchedTimer DEF OnceInv
  <1>8. mTimedFBList' \in Seq(Entry) /\ chains' \in Seq(FB)
    BY <1>1, <1>2, <1>3, Trigger DEF OnceInv, TickInv, TickOrder
  <1>9. Balance'
    <2> SUFFICES ASSUME NEW fb \in FB, Counted(fb)'
                 PROVE  Owed(fb)' = IF mActive'[fb] THEN 1 ELSE 0
      BY DEF Balance
    <2>1. Counted(fb) /\ (OneShotFB(fb) => fb \notin overrun')
      BY <1>1, <1>5 DEF Counted, OneShotFB
    <2>2. /\ Count(mAddFBList, fb) \in Nat /\ Count(mTimedFBList, fb) \in Nat
          /\ Out(fb) \in Nat /\ One(entry, fb) \in Nat
          /\ Count(triggered', fb) \in Nat /\ Count(mTimedFBList', fb) \in Nat /\ Out(fb)' \in Nat
      <3>1. Count(triggered', fb) \in Nat /\ Count(mTimedFBList', fb) \in Nat
        BY <1>1, <1>3, <1>8, CountConcat
      <3>2. Out(fb)' \in Nat
        BY <1>8, ChainsFinite DEF Out, Chains, ChainsAt, OneShotFB
      <3>3. One(entry, fb) \in Nat
        BY DEF One
      <3> QED
        BY <3>1, <3>2, <3>3, <1>2, OwedParts
    <2>3. Owed(fb) = Count(mAddFBList, fb) + Count(mTimedFBList, fb)
                        + (One(entry, fb) + Count(triggered', fb)) + Out(fb)
      BY <1>2, <1>4, OwedParts
    <2>4. Owed(fb)' = Count(mAddFBList, fb) + Count(mTimedFBList', fb)
                         + Count(triggered', fb) + Out(fb)'
      BY <1>1 DEF Owed, Registered, Out, OneShotFB
    <2>5. Count(mTimedFBList', fb) + Out(fb)'
             = Count(mTimedFBList, fb) + Out(fb) + One(entry, fb)
      BY <2>1, <1>5
    <2>6. Owed(fb)' = Owed(fb)
      BY <2>2, <2>3, <2>4, <2>5
    <2> QED
      BY <2>1, <2>6, <1>1 DEF OnceInv, Balance
  <1> QED
    BY <1>6, <1>7, <1>9

LEMMA OnceAdd ==
    ASSUME OnceInv, processAddList, UNCHANGED fbVars
    PROVE  AllFit' /\ Untouched' /\ Balance'
  <1> DEFINE entry == Head(mAddFBList)
  <1>1. /\ mAddFBList # <<>> /\ mAddFBList' = Tail(mAddFBList)
        /\ UNCHANGED <<mForteTime, mRemoveFBList, triggered, call>>
        /\ UNCHANGED <<mActive, touched>>
    BY DEF processAddList, fbVars
  <1>2. /\ isDue(entry) => triggerTimedFB(entry)
        /\ ~isDue(entry) => /\ mTimedFBList' = addTimedFBEntry(mTimedFBList, entry)
                            /\ UNCHANGED <<chains, overrun>>
    BY DEF processAddList
  <1>3. /\ TypeOK /\ mAddFBList \in Seq(Entry) /\ mTimedFBList \in Seq(Entry)
        /\ FitList(mTimedFBList) /\ FitList(mAddFBList) /\ Sorted(mTimedFBList)
        /\ chains \in Seq(FB)
    BY DEF OnceInv, TickInv, TypeOK, TimerTypeOK, AllFit, TickOrder
  <1>4. entry \in Entry /\ Tail(mAddFBList) \in Seq(Entry) /\ Fits(entry) /\ FitList(Tail(mAddFBList))
    BY <1>1, <1>3, HeadTailProperties, TailFits
  <1>5. \A fb : Count(mAddFBList, fb) = One(entry, fb) + Count(mAddFBList', fb)
    BY <1>1, <1>3, CountTail
  <1> HIDE DEF entry
  <1>6. /\ FitList(mTimedFBList')
        /\ overrun \subseteq overrun'
        /\ mTimedFBList' \in Seq(Entry) /\ chains' \in Seq(FB)
        /\ \A fb \in FB : (OneShotFB(fb) => fb \notin overrun') =>
              Count(mTimedFBList', fb) + Out(fb)'
                 = Count(mTimedFBList, fb) + Out(fb) + One(entry, fb)
    <2>1. CASE isDue(entry)
      <3>1. triggerTimedFB(entry)
        BY <2>1, <1>2
      <3> QED
        BY <3>1, <1>3, <1>4, TriggerCount, Trigger
    <2>2. CASE ~isDue(entry)
      <3>1. mTimedFBList' = addTimedFBEntry(mTimedFBList, entry) /\ UNCHANGED <<chains, overrun>>
        BY <2>2, <1>2
      <3>2. FitList(mTimedFBList') /\ mTimedFBList' \in Seq(Entry)
        BY <3>1, <1>3, <1>4, AddFits, AddEntry
      <3>3. ASSUME NEW fb \in FB
            PROVE  Count(mTimedFBList', fb) + Out(fb)'
                      = Count(mTimedFBList, fb) + Out(fb) + One(entry, fb)
        <4>1. Count(mTimedFBList', fb) = Count(mTimedFBList, fb) + One(entry, fb)
          BY <3>1, <1>3, <1>4, CountAddEntry
        <4>2. Out(fb)' = Out(fb)
          BY <3>1 DEF Out, Chains, OneShotFB
        <4>3. Count(mTimedFBList, fb) \in Nat /\ Out(fb) \in Nat /\ One(entry, fb) \in Nat
          BY <1>3, OwedParts DEF One
        <4> QED
          BY <4>1, <4>2, <4>3
      <3> QED
        BY <3>1, <3>2, <3>3, <1>3
    <2> QED
      BY <2>1, <2>2
  <1>7. AllFit'
    BY <1>1, <1>4, <1>6 DEF OnceInv, AllFit
  <1>8. Untouched'
    BY <1>1, UntouchedTimer DEF OnceInv
  <1>9. Balance'
    <2> SUFFICES ASSUME NEW fb \in FB, Counted(fb)'
                 PROVE  Owed(fb)' = IF mActive'[fb] THEN 1 ELSE 0
      BY DEF Balance
    <2>1. Counted(fb) /\ (OneShotFB(fb) => fb \notin overrun')
      BY <1>1, <1>6 DEF Counted, OneShotFB
    <2>2. /\ Count(triggered, fb) \in Nat /\ Count(mTimedFBList, fb) \in Nat
          /\ Out(fb) \in Nat /\ One(entry, fb) \in Nat
          /\ Count(mAddFBList', fb) \in Nat /\ Count(mTimedFBList', fb) \in Nat /\ Out(fb)' \in Nat
      <3>1. Count(mAddFBList', fb) \in Nat /\ Count(mTimedFBList', fb) \in Nat
        BY <1>1, <1>4, <1>6, CountConcat
      <3>2. Out(fb)' \in Nat
        BY <1>6, ChainsFinite DEF Out, Chains, ChainsAt, OneShotFB
      <3>3. One(entry, fb) \in Nat
        BY DEF One
      <3> QED
        BY <3>1, <3>2, <3>3, <1>3, OwedParts
    <2>3. Owed(fb) = (One(entry, fb) + Count(mAddFBList', fb)) + Count(mTimedFBList, fb)
                        + Count(triggered, fb) + Out(fb)
      BY <1>3, <1>5, OwedParts
    <2>4. Owed(fb)' = Count(mAddFBList', fb) + Count(mTimedFBList', fb)
                         + Count(triggered, fb) + Out(fb)'
      BY <1>1 DEF Owed, Registered, Out, OneShotFB
    <2>5. Count(mTimedFBList', fb) + Out(fb)'
             = Count(mTimedFBList, fb) + Out(fb) + One(entry, fb)
      BY <2>1, <1>6
    <2>6. Owed(fb)' = Owed(fb)
      BY <2>2, <2>3, <2>4, <2>5
    <2> QED
      BY <2>1, <2>6, <1>1 DEF OnceInv, Balance
  <1> QED
    BY <1>7, <1>8, <1>9

\* START, before it registers: a block that is active is touched by its unregister.
LEMMA OnceSTART ==
    ASSUME OnceInv, NEW fb \in FB, START(fb)
    PROVE  AllFit' /\ Untouched' /\ Balance'
  <1>1. /\ starting' = fb /\ call = NoEntry
        /\ UNCHANGED <<mTimedFBList, mAddFBList, triggered, call, chains, overrun, mActive,
                       mFBState, stopping>>
    BY DEF START, Ready
  <1>2. mRemoveFBList \in Seq(FB)
    BY DEF OnceInv, TickInv, TypeOK, TimerTypeOK
  <1>3. /\ touched \subseteq touched'
        /\ mActive[fb] => mRemoveFBList' = Append(mRemoveFBList, fb) /\ fb \in touched'
        /\ ~mActive[fb] => mRemoveFBList' = mRemoveFBList
    BY DEF START, unregisterTimedFB
  <1>4. AllFit'
    BY <1>1 DEF OnceInv, AllFit
  <1>5. Untouched'
    <2>1. ASSUME NEW b \in FB \ touched'
          PROVE  /\ mFBState'[b] = "Running"
                 /\ stopping' # b
                 /\ \A i \in 1 .. Len(mRemoveFBList') : mRemoveFBList'[i] # b
                 /\ starting' = b => ~mActive'[b]
      <3>1. /\ mFBState[b] = "Running"
            /\ stopping # b
            /\ \A i \in 1 .. Len(mRemoveFBList) : mRemoveFBList[i] # b
        BY <1>3 DEF OnceInv, Untouched
      <3>2. \A i \in 1 .. Len(mRemoveFBList') : mRemoveFBList'[i] # b
        <4>1. CASE mActive[fb]
          BY <4>1, <3>1, <1>2, <1>3, RemoveAppend
        <4>2. CASE ~mActive[fb]
          BY <4>2, <3>1, <1>3
        <4> QED
          BY <4>1, <4>2
      <3> QED
        BY <3>1, <3>2, <1>1, <1>3
    <2> QED
      BY <2>1, <1>1 DEF Untouched
  <1>6. Balance'
    BY <1>1, <1>3, BalanceFrame DEF OnceInv
  <1> QED
    BY <1>4, <1>5, <1>6

\* The entry that START builds fits its block.
LEMMA OnceSTARTregister ==
    ASSUME OnceInv, IntervalsFit, STARTregister
    PROVE  AllFit' /\ Untouched' /\ Balance'
  <1>1. PICK t \in DT : registerTimedFB(starting, t, Kind[starting] = "E_CYCLE")
    BY DEF STARTregister
  <1> DEFINE interval == convertIntervalToTimerHandlerUnits(t)
  <1>2. call' = [mTimedFB |-> starting, mTimeOut |-> mForteTime + interval,
                 mInterval |-> IF Kind[starting] = "E_CYCLE" THEN interval ELSE OneShot]
    BY <1>1 DEF registerTimedFB
  <1>3. interval # OneShot
    BY DEF IntervalsFit
  <1> HIDE DEF interval
  <1>4. /\ UNCHANGED <<mTimedFBList, mAddFBList, triggered, chains, overrun, mRemoveFBList>>
        /\ UNCHANGED fbVars
    BY <1>1 DEF STARTregister, registerTimedFB
  <1>5. starting \in FB /\ starting # NoFB
    BY DEF STARTregister, OnceInv, TickInv, TypeOK
  <1>6. Fits(call')
    <2>1. Kind[starting] \in {"E_DELAY", "E_RDELAY", "E_CYCLE"}
      BY <1>5, TimedAssumption
    <2> QED
      BY <2>1, <1>2, <1>3 DEF Fits, OneShotFB
  <1>7. AllFit'
    BY <1>4, <1>6 DEF OnceInv, AllFit
  <1>8. Untouched'
    <2>1. call'.mTimedFB = starting
      BY <1>2
    <2> QED
      BY <2>1, <1>4, <1>5 DEF fbVars, OnceInv, Untouched
  <1>9. Balance'
    BY <1>4, BalanceFrame DEF fbVars, OnceInv
  <1> QED
    BY <1>7, <1>8, <1>9

\* The registration reaches the list in the step in which the block becomes active.
LEMMA OnceSTARTactive ==
    ASSUME OnceInv, STARTactive
    PROVE  AllFit' /\ Untouched' /\ Balance'
  <1>1. /\ call # NoEntry /\ mAddFBList' = Append(mAddFBList, call) /\ call' = NoEntry
        /\ mActive' = [mActive EXCEPT ![starting] = TRUE] /\ starting' = NoFB
        /\ UNCHANGED <<mTimedFBList, mRemoveFBList, triggered, chains, overrun, mFBState,
                       stopping, touched>>
    BY DEF STARTactive, addToAddFBList
  <1>2. /\ TypeOK /\ call \in Entry /\ mAddFBList \in Seq(Entry) /\ starting \in FB
        /\ mActive \in [FB -> BOOLEAN]
    BY <1>1 DEF STARTactive, OnceInv, TickInv, TypeOK, TimerTypeOK
  <1>3. call.mTimedFB = starting /\ Fits(call) /\ FitList(mAddFBList)
    BY <1>1 DEF OnceInv, Untouched, AllFit
  <1>4. AllFit'
    <2>1. FitList(Append(mAddFBList, call))
      <3> DEFINE r == Append(mAddFBList, call)
      <3>1. /\ Len(r) = Len(mAddFBList) + 1 /\ r[Len(mAddFBList) + 1] = call
            /\ \A i \in 1 .. Len(mAddFBList) : r[i] = mAddFBList[i]
        BY <1>2, AppendProperties
      <3>2. Len(mAddFBList) \in Nat
        BY <1>2, LenProperties
      <3> HIDE DEF r
      <3>3. \A i \in 1 .. Len(r) : i \in 1 .. Len(mAddFBList) \/ i = Len(mAddFBList) + 1
        BY <3>1, <3>2
      <3>4. FitList(r)
        BY <3>1, <3>3, <1>3 DEF FitList
      <3> QED
        BY <3>4 DEF r
    <2> QED
      BY <2>1, <1>1 DEF OnceInv, AllFit
  <1>5. Untouched'
    <2>1. \A fb \in FB : starting' # fb
      BY <1>1, TimedAssumption
    <2> QED
      BY <2>1, <1>1 DEF OnceInv, Untouched
  <1>6. Balance'
    <2> SUFFICES ASSUME NEW fb \in FB, Counted(fb)'
                 PROVE  Owed(fb)' = IF mActive'[fb] THEN 1 ELSE 0
      BY DEF Balance
    <2>1. Counted(fb)
      BY <1>1 DEF Counted
    <2>2. Owed(fb) = IF mActive[fb] THEN 1 ELSE 0
      BY <2>1 DEF OnceInv, Balance
    <2>3. Count(mAddFBList', fb) = Count(mAddFBList, fb) + One(call, fb)
      BY <1>1, <1>2, CountAppend
    <2>4. /\ Count(mAddFBList, fb) \in Nat /\ Count(mTimedFBList, fb) \in Nat
          /\ Count(triggered, fb) \in Nat /\ Out(fb) \in Nat /\ One(call, fb) \in Nat
          /\ Owed(fb) = Count(mAddFBList, fb) + Count(mTimedFBList, fb)
                           + Count(triggered, fb) + Out(fb)
      BY <1>2, OwedParts DEF One
    <2>5. Owed(fb)' = (Count(mAddFBList, fb) + One(call, fb)) + Count(mTimedFBList, fb)
                         + Count(triggered, fb) + Out(fb)
      BY <2>3, <1>1 DEF Owed, Registered, Out, Chains, OneShotFB
    <2>6. Owed(fb)' = Owed(fb) + One(call, fb)
      BY <2>4, <2>5
    <2>7. CASE fb = starting
      <3>1. ~mActive[fb] /\ mActive'[fb] = TRUE
        BY <2>1, <2>7, <1>1, <1>2 DEF OnceInv, Untouched, Counted
      <3>2. One(call, fb) = 1
        BY <2>7, <1>3 DEF One
      <3> QED
        BY <3>1, <3>2, <2>2, <2>6
    <2>8. CASE fb # starting
      <3>1. mActive'[fb] = mActive[fb]
        BY <2>8, <1>1, <1>2
      <3>2. One(call, fb) = 0
        BY <2>8, <1>3 DEF One
      <3> QED
        BY <3>1, <3>2, <2>2, <2>6
    <2> QED
      BY <2>7, <2>8
  <1> QED
    BY <1>4, <1>5, <1>6

LEMMA OnceSTOP ==
    ASSUME OnceInv, NEW fb \in FB, STOP(fb)
    PROVE  AllFit' /\ Untouched' /\ Balance'
  <1>1. /\ touched' = touched \cup {fb} /\ mActive' = [mActive EXCEPT ![fb] = FALSE]
        /\ mRemoveFBList' = Append(mRemoveFBList, fb)
        /\ UNCHANGED <<mTimedFBList, mAddFBList, triggered, call, chains, overrun,
                       mFBState, starting, stopping>>
    BY DEF STOP, unregisterTimedFB
  <1>2. mRemoveFBList \in Seq(FB) /\ mActive \in [FB -> BOOLEAN]
    BY DEF OnceInv, TickInv, TypeOK, TimerTypeOK
  <1>3. \A b \in FB \ touched' : b \notin touched /\ b # fb /\ mActive'[b] = mActive[b]
    BY <1>1, <1>2
  <1>4. AllFit'
    BY <1>1 DEF OnceInv, AllFit
  <1>5. Untouched'
    <2>1. ASSUME NEW b \in FB \ touched'
          PROVE  \A i \in 1 .. Len(mRemoveFBList') : mRemoveFBList'[i] # b
      <3>1. \A i \in 1 .. Len(mRemoveFBList) : mRemoveFBList[i] # b
        BY <1>3 DEF OnceInv, Untouched
      <3> QED
        BY <3>1, <1>1, <1>2, <1>3, RemoveAppend
    <2> QED
      BY <2>1, <1>1, <1>3 DEF OnceInv, Untouched
  <1>6. Balance'
    BY <1>1, <1>3, BalanceFrame DEF OnceInv
  <1> QED
    BY <1>4, <1>5, <1>6

\* The event of a delay: the chain is gone, and so is the flag.
LEMMA OnceExternalEvent ==
    ASSUME OnceInv, externalEvent
    PROVE  AllFit' /\ Untouched' /\ Balance'
  <1> DEFINE b == Head(chains)
  <1>1. /\ chains # <<>> /\ chains' = Tail(chains) /\ starting = NoFB
        /\ mActive' = IF mFBState[b] = "Running" /\ OneShotFB(b)
                      THEN [mActive EXCEPT ![b] = FALSE] ELSE mActive
        /\ UNCHANGED <<mTimedFBList, mAddFBList, mRemoveFBList, triggered, call, overrun,
                       mFBState, starting, stopping, touched>>
    BY DEF externalEvent, Ready
  <1>2. TypeOK /\ chains \in Seq(FB) /\ mActive \in [FB -> BOOLEAN]
    BY DEF OnceInv, TickInv, TypeOK, TimerTypeOK
  <1>3. /\ b \in FB /\ Tail(chains) \in Seq(FB)
        /\ \A fb : Cardinality(ChainsAt(chains, fb)) =
                      Cardinality(ChainsAt(chains', fb)) + IF b = fb THEN 1 ELSE 0
    BY <1>1, <1>2, HeadTailProperties, ChainsTail
  <1> HIDE DEF b
  <1>4. AllFit'
    BY <1>1 DEF OnceInv, AllFit
  <1>5. Untouched'
    <2>1. \A fb \in FB : starting' # fb
      BY <1>1, TimedAssumption
    <2> QED
      BY <2>1, <1>1 DEF OnceInv, Untouched
  <1>6. Balance'
    <2> SUFFICES ASSUME NEW fb \in FB, Counted(fb)'
                 PROVE  Owed(fb)' = IF mActive'[fb] THEN 1 ELSE 0
      BY DEF Balance
    <2>1. Counted(fb) /\ mFBState[fb] = "Running"
      BY <1>1 DEF Counted, OnceInv, Untouched
    <2>2. Owed(fb) = IF mActive[fb] THEN 1 ELSE 0
      BY <2>1 DEF OnceInv, Balance
    <2>3. /\ Count(mAddFBList, fb) \in Nat /\ Count(mTimedFBList, fb) \in Nat
          /\ Count(triggered, fb) \in Nat /\ Out(fb) \in Nat
          /\ Owed(fb) = Count(mAddFBList, fb) + Count(mTimedFBList, fb)
                           + Count(triggered, fb) + Out(fb)
      BY <1>2, OwedParts
    <2>4. Owed(fb)' = Count(mAddFBList, fb) + Count(mTimedFBList, fb)
                         + Count(triggered, fb) + Out(fb)'
      BY <1>1 DEF Owed, Registered, Out, OneShotFB
    <2>5. CASE OneShotFB(fb) /\ b = fb
      <3>1. /\ Out(fb) = Cardinality(ChainsAt(chains, fb))
            /\ Out(fb)' = Cardinality(ChainsAt(chains', fb))
        BY <2>5 DEF Out, Chains, ChainsAt, OneShotFB
      <3>2. Cardinality(ChainsAt(chains', fb)) \in Nat
        BY <1>1, <1>3, ChainsFinite
      <3>3. Out(fb) = Out(fb)' + 1
        BY <3>1, <2>5, <1>3
      <3>4. mActive'[fb] = FALSE
        BY <2>1, <2>5, <1>1, <1>2
      <3>5. Out(fb)' \in Nat
        BY <3>1, <3>2
      <3>6. Owed(fb) <= 1 /\ Owed(fb)' = Owed(fb) - 1 /\ Owed(fb)' \in Nat /\ Owed(fb) \in Nat
        <4>1. Owed(fb) \in {0, 1}
          BY <2>2
        <4> QED
          BY <4>1, <3>3, <3>5, <2>3, <2>4
      <3> QED
        BY <3>4, <3>6
    <2>6. CASE ~(OneShotFB(fb) /\ b = fb)
      <3>1. Out(fb)' = Out(fb)
        <4>1. CASE ~OneShotFB(fb)
          BY <4>1 DEF Out, OneShotFB
        <4>2. CASE OneShotFB(fb) /\ b # fb
          <5>1. /\ Out(fb) = Cardinality(ChainsAt(chains, fb))
                /\ Out(fb)' = Cardinality(ChainsAt(chains', fb))
            BY <4>2 DEF Out, Chains, ChainsAt, OneShotFB
          <5>2. Cardinality(ChainsAt(chains', fb)) \in Nat
            BY <1>1, <1>3, ChainsFinite
          <5>3. Cardinality(ChainsAt(chains, fb)) = Cardinality(ChainsAt(chains', fb)) + 0
            BY <4>2, <1>3
          <5> QED
            BY <5>1, <5>2, <5>3
        <4> QED
          BY <4>1, <4>2, <2>6
      <3>2. mActive'[fb] = mActive[fb]
        BY <2>6, <1>1, <1>2
      <3> QED
        BY <3>1, <3>2, <2>2, <2>3, <2>4
    <2> QED
      BY <2>5, <2>6
  <1> QED
    BY <1>4, <1>5, <1>6

LEMMA OnceStopFB ==
    ASSUME OnceInv, NEW fb \in FB, stopFB(fb) \/ startFB(fb)
    PROVE  AllFit' /\ Untouched' /\ Balance'
  <1>1. UNCHANGED timerVars /\ UNCHANGED <<mActive, starting>> /\ touched \subseteq touched'
    BY DEF stopFB, startFB
  <1>2. AllFit'
    BY <1>1 DEF OnceInv, AllFit, timerVars
  <1>3. ASSUME NEW b \in FB \ touched'
        PROVE  mFBState'[b] = "Running" /\ stopping' # b
    <2>1. b \notin touched /\ mFBState[b] = "Running" /\ stopping # b
      BY <1>1 DEF OnceInv, Untouched
    <2>2. mFBState \in [FB -> {"Running", "Stopped"}]
      BY DEF OnceInv, TickInv, TypeOK
    <2>3. CASE stopFB(fb)
      <3>1. b # fb
        BY <2>3 DEF stopFB
      <3> QED
        BY <3>1, <2>1, <2>2, <2>3 DEF stopFB
    <2>4. CASE startFB(fb)
      BY <2>1, <2>2, <2>4 DEF startFB
    <2> QED
      BY <2>3, <2>4
  <1>4. Untouched'
    BY <1>1, <1>3 DEF OnceInv, Untouched, timerVars
  <1>5. Balance'
    BY <1>1, BalanceFrame DEF OnceInv, timerVars
  <1> QED
    BY <1>2, <1>4, <1>5

LEMMA OnceStopTimedFB ==
    ASSUME OnceInv, stopTimedFB
    PROVE  AllFit' /\ Untouched' /\ Balance'
  <1>1. /\ stopping # NoFB /\ stopping' = NoFB
        /\ UNCHANGED <<mTimedFBList, mAddFBList, triggered, call, chains, overrun, mFBState,
                       starting, touched>>
    BY DEF stopTimedFB
  <1>2. mRemoveFBList \in Seq(FB) /\ mActive \in [FB -> BOOLEAN] /\ stopping \in FB
    BY <1>1 DEF OnceInv, TickInv, TypeOK, TimerTypeOK
  <1>3. \/ /\ mRemoveFBList' = Append(mRemoveFBList, stopping)
           /\ mActive' = [mActive EXCEPT ![stopping] = FALSE]
        \/ mRemoveFBList' = mRemoveFBList /\ mActive' = mActive
    BY DEF stopTimedFB, unregisterTimedFB
  <1>4. AllFit'
    BY <1>1 DEF OnceInv, AllFit
  <1>5. ASSUME NEW b \in FB \ touched'
        PROVE  /\ mActive'[b] = mActive[b]
               /\ stopping' # b
               /\ \A i \in 1 .. Len(mRemoveFBList') : mRemoveFBList'[i] # b
    <2>1. b \notin touched /\ b # stopping /\ \A i \in 1 .. Len(mRemoveFBList) : mRemoveFBList[i] # b
      BY <1>1 DEF OnceInv, Untouched
    <2>2. mActive'[b] = mActive[b]
      BY <2>1, <1>2, <1>3
    <2>3. \A i \in 1 .. Len(mRemoveFBList') : mRemoveFBList'[i] # b
      <3>1. \A i \in 1 .. Len(Append(mRemoveFBList, stopping)) :
                Append(mRemoveFBList, stopping)[i] # b
        BY <2>1, <1>2, RemoveAppend
      <3> QED
        BY <3>1, <2>1, <1>3
    <2> QED
      BY <2>2, <2>3, <1>1, TimedAssumption
  <1>6. Untouched'
    BY <1>1, <1>5 DEF OnceInv, Untouched
  <1>7. Balance'
    BY <1>1, <1>5, BalanceFrame DEF OnceInv
  <1> QED
    BY <1>4, <1>6, <1>7

\* OnceInv is an invariant, as long as no interval is cut to nothing.
THEOREM TimerOnceInductive == IntervalsFit => (Spec => []OnceInv)
  <1> SUFFICES ASSUME IntervalsFit PROVE Spec => []OnceInv
    OBVIOUS
  <1>1. Init => OnceInv
    BY TickInit, OnceInit DEF OnceInv
  <1>2. OnceInv /\ TickInv' /\ [Next]_vars => OnceInv'
    <2> SUFFICES ASSUME OnceInv, TickInv', [Next]_vars
                 PROVE  AllFit' /\ Untouched' /\ Balance'
      BY DEF OnceInv
    <2>1. CASE TimerStep /\ UNCHANGED fbVars
      BY <2>1, OnceIdle, OnceRemove, OnceTimed, OnceTrigger, OnceAdd DEF TimerStep
    <2>2. CASE STARTregister
      BY <2>2, OnceSTARTregister
    <2>3. CASE STARTactive
      BY <2>3, OnceSTARTactive
    <2>4. CASE externalEvent
      BY <2>4, OnceExternalEvent
    <2>5. CASE stopTimedFB
      BY <2>5, OnceStopTimedFB
    <2>6. ASSUME NEW fb \in FB, START(fb) \/ STOP(fb) \/ stopFB(fb) \/ startFB(fb)
          PROVE  AllFit' /\ Untouched' /\ Balance'
      BY <2>6, OnceSTART, OnceSTOP, OnceStopFB
    <2>7. CASE UNCHANGED vars
      <3>1. UNCHANGED timerVars /\ UNCHANGED fbVars
        BY <2>7 DEF vars
      <3>2. AllFit'
        BY <3>1 DEF OnceInv, AllFit, timerVars
      <3>3. Untouched'
        BY <3>1, UntouchedTimer DEF OnceInv, timerVars
      <3>4. Balance'
        BY <3>1, BalanceFrame DEF OnceInv, timerVars, fbVars
      <3> QED
        BY <3>2, <3>3, <3>4
    <2> QED
      BY <2>1, <2>2, <2>3, <2>4, <2>5, <2>6, <2>7 DEF Next
  <1> QED
    BY <1>1, <1>2, TimerInductive, PTL DEF Spec

\* If no interval at a DT input is cut to nothing, every START that E_DELAY, E_RDELAY or
\* E_CYCLE accepts and nobody takes back is registered exactly once, from the request list
\* over the sorted list to the executing thread, however the timer thread, the executing
\* thread and management interleave.
THEOREM TimerOneEventPerStart == IntervalsFit => (Spec => []OneEventPerStart)
  <1> SUFFICES ASSUME IntervalsFit PROVE Spec => []OneEventPerStart
    OBVIOUS
  <1>1. OnceInv => OneEventPerStart
    BY DEF OnceInv, Balance, Counted, OneEventPerStart
  <1> QED
    BY <1>1, TimerOnceInductive, PTL
=============================================================================
