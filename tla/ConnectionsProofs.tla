-------------------------- MODULE ConnectionsProofs --------------------------
(***************************************************************************)
(* Proofs about Connections for every set of blocks, ports and names: what *)
(* the loop of deinitialize over the event destinations does, types, and   *)
(* that the reference counts are exact and no pointer outlives its block.  *)
(***************************************************************************)
EXTENDS Connections, FiniteSetTheorems, SequenceTheorems, WellFoundedInduction, TLAPS

-----------------------------------------------------------------------------
(* Induction over the passes of a loop.  The induction theorems of the      *)
(* library have an operator as parameter; the minimal element of a set of   *)
(* naturals serves as well.                                                 *)

LEMMA NatOrder ==
    \E less : /\ IsWellFoundedOn(less, Nat)
              /\ \A x, y \in Nat : y < x => <<y, x>> \in less
  <1>1. \A x, y \in Nat : y < x => <<y, x>> \in OpToRel(<, Nat)
    BY DEF OpToRel
  <1> QED BY <1>1, NatLessThanWellFounded, Zenon

LEMMA SmallestOf ==
    ASSUME NEW T \in SUBSET Nat, T # {}
    PROVE  \E x \in T : \A y \in T : x <= y
  <1>1. PICK less : /\ IsWellFoundedOn(less, Nat)
                    /\ \A x, y \in Nat : y < x => <<y, x>> \in less
    BY NatOrder
  <1>2. PICK x \in T : \A y \in T : ~ (<<y, x>> \in less)
    BY <1>1, WFMin
  <1>3. \A y \in T : ~ (y < x) /\ y \in Nat /\ x \in Nat
    BY <1>1, <1>2
  <1>4. \A y \in T : x <= y
    BY <1>3
  <1> QED BY <1>4

\* A set that contains zero and the successor of each of its elements contains all naturals.
LEMMA InductionOverSet ==
    ASSUME NEW P, 0 \in P, \A n \in Nat : n \in P => n + 1 \in P
    PROVE  Nat \subseteq P
  <1> SUFFICES ASSUME ~ (Nat \subseteq P) PROVE FALSE
    OBVIOUS
  <1>1. PICK m \in Nat \ P : \A y \in Nat \ P : m <= y
    BY SmallestOf, (Nat \ P) \in SUBSET Nat, Nat \ P # {}
  <1>2. m # 0 /\ m - 1 \in Nat /\ m - 1 \notin Nat \ P
    BY <1>1
  <1> QED BY <1>1, <1>2

-----------------------------------------------------------------------------
(* The loop over the event destinations *)

Start(all, count) == [memory |-> all, size |-> Len(all), count |-> count]

\* The loop is the function its recursive definition describes.
LEMMA LoopIs ==
    ASSUME NEW all, NEW count, Len(all) \in Nat
    PROVE  disconnectLoop(all, count) =
             [i \in 0 .. Len(all) |->
                IF i = 0 THEN Start(all, count)
                         ELSE disconnectNth(disconnectLoop(all, count)[i - 1], i)]
  <1> DEFINE step(g, i) == IF i = 0 THEN Start(all, count) ELSE disconnectNth(g[i - 1], i)
             P == {k \in Nat : \E g : g = [i \in 0 .. k |-> step(g, i)]}
  <1>1. 0 \in P
    <2> DEFINE g == [i \in 0 .. 0 |-> Start(all, count)]
    <2>1. g = [i \in 0 .. 0 |-> step(g, i)]
      OBVIOUS
    <2> QED BY <2>1
  <1>2. ASSUME NEW k \in Nat, k \in P PROVE k + 1 \in P
    <2>1. PICK g : g = [i \in 0 .. k |-> step(g, i)]
      BY <1>2
    <2> DEFINE h == [i \in 0 .. k + 1 |-> IF i = k + 1 THEN disconnectNth(g[k], i) ELSE g[i]]
    <2>2. \A i \in 0 .. k : g[i] = step(g, i)
      BY <2>1
    <2>3. ASSUME NEW i \in 0 .. k + 1 PROVE h[i] = step(h, i)
      <3>1. CASE i = k + 1
        <4>1. h[i] = disconnectNth(g[k], i) /\ i # 0 /\ i - 1 = k /\ k \in 0 .. k + 1 /\ k # k + 1
          BY <3>1
        <4>2. h[k] = g[k]
          BY <4>1
        <4> QED BY <4>1, <4>2
      <3>2. CASE i \in 0 .. k
        <4>1. h[i] = g[i] /\ (i # 0 => h[i - 1] = g[i - 1])
          BY <3>2
        <4> QED BY <4>1, <2>2, <3>2
      <3> QED BY <3>1, <3>2
    <2>4. h = [i \in 0 .. k + 1 |-> h[i]]
      OBVIOUS
    <2>5. k + 1 \in Nat
      OBVIOUS
    <2> HIDE DEF h
    <2>6. h = [i \in 0 .. k + 1 |-> step(h, i)]
      BY <2>3, <2>4, Zenon
    <2> QED BY <2>5, <2>6, Zenon DEF P
  <1> HIDE DEF P
  <1>3. Len(all) \in P
    BY <1>1, <1>2, InductionOverSet
  <1>4. \E g : g = [i \in 0 .. Len(all) |-> step(g, i)]
    BY <1>3 DEF P
  <1> QED BY <1>4, Zenon DEF disconnectLoop, Start

\* Its first state, and each state from the one before.
LEMMA LoopSteps ==
    ASSUME NEW all, NEW count, Len(all) \in Nat
    PROVE  /\ disconnectLoop(all, count)[0] = Start(all, count)
           /\ \A i \in 1 .. Len(all) :
                 disconnectLoop(all, count)[i] = disconnectNth(disconnectLoop(all, count)[i - 1], i)
  <1> DEFINE loop == disconnectLoop(all, count)
  <1>1. loop = [i \in 0 .. Len(all) |-> IF i = 0 THEN Start(all, count)
                                                 ELSE disconnectNth(loop[i - 1], i)]
    BY LoopIs
  <1> HIDE DEF loop
  <1>2. \A i \in 0 .. Len(all) : loop[i] = IF i = 0 THEN Start(all, count)
                                                    ELSE disconnectNth(loop[i - 1], i)
    BY <1>1
  <1>3. loop[0] = Start(all, count)
    BY <1>2
  <1>4. \A i \in 1 .. Len(all) : loop[i] = disconnectNth(loop[i - 1], i)
    BY <1>2
  <1> QED BY <1>3, <1>4 DEF loop

Counts == [FB -> 0 .. CountMod - 1]

\* Counting keeps a count in the range of size_t.
LEMMA CountsStay ==
    ASSUME NEW count \in Counts, NEW f
    PROVE  inc(count, f) \in Counts /\ dec(count, f) \in Counts
  <1>1. \A x \in 0 .. CountMod - 1 : (x + 1) % CountMod \in 0 .. CountMod - 1
                                  /\ (x - 1) % CountMod \in 0 .. CountMod - 1
    BY ConnectionsAssumption
  <1> QED BY <1>1 DEF inc, dec, Counts

\* The loop leaves the counts in their range, whatever it reads from the memory.
LEMMA LoopType ==
    ASSUME NEW all, Len(all) \in Nat, NEW count \in Counts
    PROVE  disconnectLoop(all, count)[Len(all)].count \in Counts
  <1> DEFINE loop == disconnectLoop(all, count)
             P == {i \in Nat : i <= Len(all) => loop[i].count \in Counts}
  <1>0. /\ loop[0] = Start(all, count)
        /\ \A i \in 1 .. Len(all) : loop[i] = disconnectNth(loop[i - 1], i)
    BY LoopSteps
  <1> HIDE DEF loop
  <1>1. 0 \in P
    BY <1>0 DEF Start
  <1>2. ASSUME NEW i \in Nat, i \in P PROVE i + 1 \in P
    <2> SUFFICES ASSUME i + 1 <= Len(all) PROVE loop[i + 1].count \in Counts
      OBVIOUS
    <2>1. loop[i].count \in Counts
      BY <1>2
    <2>2. loop[i + 1] = disconnectNth(loop[i], i + 1)
      BY <1>0
    <2>3. loop[i + 1].count = dec(loop[i].count, loop[i].memory[i + 1])
      BY <2>2 DEF disconnectNth
    <2> QED BY <2>1, <2>3, CountsStay
  <1>3. Len(all) \in P
    BY <1>1, <1>2, InductionOverSet
  <1> QED BY <1>3 DEF loop

\* The entries are distinct.
Distinct(list) == \A i, j \in 1 .. Len(list) : list[i] = list[j] => i = j

Has(list, d) == \E i \in 1 .. Len(list) : list[i] = d

\* With up to two destinations the loop counts every one of them down once.
LEMMA ShortLoop ==
    ASSUME NEW all \in Seq(FB), Distinct(all), Len(all) <= 2, NEW count \in Counts, NEW g \in FB
    PROVE  disconnectLoop(all, count)[Len(all)].count[g] =
             IF Has(all, g) THEN (count[g] - 1) % CountMod ELSE count[g]
  <1> DEFINE loop == disconnectLoop(all, count)
  <1>a. Len(all) \in Nat /\ (Len(all) = 0 \/ Len(all) = 1 \/ Len(all) = 2)
    <2>1. Len(all) \in Nat
      BY LenProperties
    <2>2. \A n \in Nat : n <= 2 => n = 0 \/ n = 1 \/ n = 2
      OBVIOUS
    <2> QED BY <2>1, <2>2
  <1>0. /\ loop[0] = Start(all, count)
        /\ \A i \in 1 .. Len(all) : loop[i] = disconnectNth(loop[i - 1], i)
    BY <1>a, LoopSteps
  <1> HIDE DEF loop
  <1>1. CASE Len(all) = 0
    BY <1>0, <1>1 DEF Start, Has, loop
  <1>2. ASSUME Len(all) >= 1
        PROVE  loop[1].count = dec(count, all[1]) /\ loop[1].memory = shifted(all, all[1], Len(all))
    <2>1. loop[1] = disconnectNth(loop[0], 1)
      BY <1>0, <1>2
    <2>2. loop[0].memory = all /\ loop[0].size = Len(all) /\ loop[0].count = count
      BY <1>0 DEF Start
    <2>3. /\ loop[1].count = dec(loop[0].count, loop[0].memory[1])
          /\ loop[1].memory = shifted(loop[0].memory, loop[0].memory[1], loop[0].size)
      BY <2>1 DEF disconnectNth
    <2> QED BY <2>2, <2>3
  <1>3. CASE Len(all) = 1
    <2>0. loop[1].count = dec(count, all[1])
      BY <1>2, <1>3
    <2>1. loop[1].count[g] = IF g = all[1] THEN (count[g] - 1) % CountMod ELSE count[g]
      BY <2>0 DEF dec, Counts
    <2>2. Has(all, g) <=> g = all[1]
      BY <1>3 DEF Has
    <2> QED BY <1>3, <2>1, <2>2 DEF loop
  <1>4. CASE Len(all) = 2
    <2>1. loop[1].memory[2] = all[2]
      BY <1>2, <1>4 DEF shifted
    <2>2. loop[2] = disconnectNth(loop[1], 2)
      BY <1>0, <1>4
    <2>3. loop[2].count = dec(loop[1].count, all[2])
      BY <2>1, <2>2 DEF disconnectNth
    <2>4. loop[2].count = dec(dec(count, all[1]), all[2])
      BY <1>2, <1>4, <2>3
    <2>5. all[1] # all[2] /\ all[1] \in FB /\ all[2] \in FB
      <3>1. 1 \in 1 .. Len(all) /\ 2 \in 1 .. Len(all)
        BY <1>4
      <3>2. all[1] \in FB /\ all[2] \in FB
        BY <3>1, ElementOfSeq
      <3> QED BY <3>1, <3>2 DEF Distinct
    <2>6. loop[2].count[g] = IF g \in {all[1], all[2]} THEN (count[g] - 1) % CountMod ELSE count[g]
      BY <2>4, <2>5 DEF dec, Counts
    <2>7. Has(all, g) <=> g \in {all[1], all[2]}
      BY <1>4 DEF Has
    <2> QED BY <1>4, <2>6, <2>7 DEF loop
  <1> QED BY <1>a, <1>1, <1>3, <1>4

\* With three or more the second moves to the front before it is read, and is never
\* counted down.
LEMMA LongLoop ==
    ASSUME NEW all \in Seq(FB), Distinct(all), Len(all) >= 3, NEW count \in Counts
    PROVE  disconnectLoop(all, count)[Len(all)].count[all[2]] = count[all[2]]
  <1> DEFINE loop == disconnectLoop(all, count)
             n == Len(all)
             Passed(s) == /\ s.count \in Counts
                          /\ s.count[all[2]] = count[all[2]]
                          /\ s.size \in 0 .. n
                          /\ DOMAIN s.memory = 1 .. n
                          /\ s.memory[1] = all[2]
                          /\ \A j \in 2 .. n : s.memory[j] # all[2]
             P == {i \in Nat : i + 1 <= n => Passed(loop[i + 1])}
  <1>0. /\ n \in Nat /\ n >= 3 /\ DOMAIN all = 1 .. n
        /\ loop[0] = Start(all, count)
        /\ \A i \in 1 .. n : loop[i] = disconnectNth(loop[i - 1], i)
    BY LoopSteps
  <1>a. all[1] # all[2] /\ \A j \in 3 .. n : all[j] # all[2]
    BY <1>0 DEF Distinct
  <1> HIDE DEF loop
  <1>1. 0 \in P
    <2>1. loop[1] = disconnectNth(loop[0], 1)
      BY <1>0
    <2>2. loop[0].memory = all /\ loop[0].size = n /\ loop[0].count = count
      BY <1>0 DEF Start
    <2>3. /\ loop[1].count = dec(count, all[1])
          /\ loop[1].memory = shifted(all, all[1], n)
          /\ loop[1].size = remaining(all, all[1], n)
      BY <2>1, <2>2 DEF disconnectNth
    <2>4. loop[1].count \in Counts /\ loop[1].count[all[2]] = count[all[2]]
      BY <2>3, <1>0, <1>a, CountsStay DEF dec, Counts
    <2>5. loop[1].size \in 0 .. n
      BY <2>3, <1>0 DEF remaining
    <2>6. /\ DOMAIN loop[1].memory = 1 .. n
          /\ loop[1].memory[1] = all[2]
          /\ \A j \in 2 .. n : loop[1].memory[j] \in {all[j], all[j + 1]} /\ (j < n => loop[1].memory[j] = all[j + 1])
      BY <2>3, <1>0 DEF shifted
    <2>7. \A j \in 2 .. n : loop[1].memory[j] # all[2]
      BY <1>0, <1>a, <2>6, <2>3 DEF shifted
    <2> QED BY <2>4, <2>5, <2>6, <2>7
  <1>2. ASSUME NEW i \in Nat, i \in P PROVE i + 1 \in P
    <2> SUFFICES ASSUME i + 2 <= n PROVE Passed(loop[i + 2])
      OBVIOUS
    <2>1. Passed(loop[i + 1])
      BY <1>2
    <2> DEFINE s == loop[i + 1]
               dst == s.memory[i + 2]
    <2>2. loop[i + 2] = disconnectNth(s, i + 2)
      BY <1>0
    <2> HIDE DEF s
    <2>3. dst # all[2]
      BY <2>1 DEF s
    <2>4. /\ loop[i + 2].count = dec(s.count, dst)
          /\ loop[i + 2].memory = shifted(s.memory, dst, s.size)
          /\ loop[i + 2].size = remaining(s.memory, dst, s.size)
      BY <2>2 DEF disconnectNth
    <2> HIDE DEF dst
    <2>5. loop[i + 2].count \in Counts /\ loop[i + 2].count[all[2]] = count[all[2]]
      <3>1. s.count \in Counts /\ s.count[all[2]] = count[all[2]]
        BY <2>1 DEF s
      <3>2. dec(s.count, dst) \in Counts
        BY <3>1, CountsStay
      <3>3. all[2] \in FB
        BY <1>0, ElementOfSeq
      <3>4. dec(s.count, dst)[all[2]] = s.count[all[2]]
        BY <3>1, <3>3, <2>3 DEF dec, Counts
      <3> QED BY <3>1, <3>2, <3>4, <2>4
    <2>6. loop[i + 2].size \in 0 .. n
      BY <2>1, <2>4, <1>0 DEF remaining, s
    <2>7. /\ DOMAIN loop[i + 2].memory = 1 .. n
          /\ loop[i + 2].memory[1] = all[2]
          /\ \A j \in 2 .. n : loop[i + 2].memory[j] # all[2]
      BY <2>1, <2>3, <2>4, <1>0 DEF shifted, s
    <2> QED BY <2>5, <2>6, <2>7
  <1> HIDE DEF P
  <1>3. n - 1 \in P
    BY <1>0, <1>1, <1>2, InductionOverSet
  <1>4. Passed(loop[n])
    BY <1>0, <1>3 DEF P
  <1> QED BY <1>4 DEF loop

-----------------------------------------------------------------------------
(* removeDestination *)

\* Where a list of distinct entries has d, what follows moves forward by one.
LEMMA RemoveAtPlace ==
    ASSUME NEW list \in Seq(FB), Distinct(list), NEW p \in 1 .. Len(list)
    PROVE  LET r == removeDestination(list, list[p])
           IN  /\ r \in Seq(FB)
               /\ Len(r) = Len(list) - 1
               /\ \A j \in 1 .. Len(list) - 1 : r[j] = IF j >= p THEN list[j + 1] ELSE list[j]
  <1> DEFINE n == Len(list)
             d == list[p]
             sh == shifted(list, d, n)
             r == removeDestination(list, d)
  <1>1. n \in Nat /\ list \in [1 .. n -> FB] /\ DOMAIN list = 1 .. n
    BY LenProperties
  <1>2. \A j \in 1 .. n : (\E k \in 1 .. j : list[k] = d) <=> j >= p
    BY <1>1 DEF Distinct
  <1>3. remaining(list, d, n) = n - 1
    BY <1>1 DEF remaining
  <1>4. sh = [j \in 1 .. n |-> IF j < n /\ (\E k \in 1 .. j : list[k] = d) THEN list[j + 1] ELSE list[j]]
    BY <1>1 DEF shifted
  <1>5. sh \in [1 .. n -> FB] /\ \A j \in 1 .. n : sh[j] = IF j < n /\ j >= p THEN list[j + 1] ELSE list[j]
    BY <1>1, <1>2, <1>4
  <1> HIDE DEF sh
  <1>6. sh \in Seq(FB) /\ Len(sh) = n
    BY <1>1, <1>5
  <1>7. r = SubSeq(sh, 1, n - 1)
    BY <1>3 DEF removeDestination, sh
  <1>8. r \in Seq(FB) /\ Len(r) = n - 1 /\ \A j \in 1 .. n - 1 : r[j] = sh[j]
    <2>1. 1 \in 1 .. n + 1 /\ n - 1 \in 0 .. n
      BY <1>1
    <2>2. /\ SubSeq(sh, 1, n - 1) \in Seq(FB)
          /\ Len(SubSeq(sh, 1, n - 1)) = n - 1
          /\ \A j \in 1 .. n - 1 : SubSeq(sh, 1, n - 1)[j] = sh[j]
      BY <1>1, <1>6, <2>1
    <2> QED BY <1>7, <2>2
  <1>9. ASSUME NEW j \in 1 .. n - 1 PROVE r[j] = IF j >= p THEN list[j + 1] ELSE list[j]
    <2>1. j \in 1 .. n /\ j < n
      BY <1>1
    <2>2. r[j] = sh[j]
      BY <1>8
    <2>3. sh[j] = IF j < n /\ j >= p THEN list[j + 1] ELSE list[j]
      BY <1>5, <2>1
    <2> QED BY <2>1, <2>2, <2>3
  <1> QED BY <1>8, <1>9

\* removeDestination removes the destination, and nothing else.
LEMMA RemoveIs ==
    ASSUME NEW list \in Seq(FB), Distinct(list), NEW d
    PROVE  LET r == removeDestination(list, d)
           IN  /\ r \in Seq(FB)
               /\ Distinct(r)
               /\ \A x : Has(r, x) <=> Has(list, x) /\ x # d
  <1> DEFINE n == Len(list)
             r == removeDestination(list, d)
  <1>1. n \in Nat /\ list \in [1 .. n -> FB] /\ DOMAIN list = 1 .. n
    BY LenProperties
  <1>2. CASE ~ Has(list, d)
    <2>1. remaining(list, d, n) = n
      BY <1>2 DEF remaining, Has
    <2>2. \A j \in 1 .. n : ~ \E k \in 1 .. j : list[k] = d
      BY <1>1, <1>2 DEF Has
    <2>3. shifted(list, d, n) = list
      BY <1>1, <2>2 DEF shifted
    <2>4. SubSeq(list, 1, n) = list
      BY <1>1
    <2>5. r = list
      BY <2>1, <2>3, <2>4 DEF removeDestination
    <2> QED BY <1>2, <2>5
  <1>3. CASE Has(list, d)
    <2>1. PICK p \in 1 .. n : list[p] = d
      BY <1>3 DEF Has
    <2>2. /\ r \in Seq(FB) /\ Len(r) = n - 1
          /\ \A j \in 1 .. n - 1 : r[j] = IF j >= p THEN list[j + 1] ELSE list[j]
      BY <2>1, RemoveAtPlace
    <2> HIDE DEF r
    <2>3. Distinct(r)
      BY <1>1, <2>2 DEF Distinct
    <2>4. ASSUME NEW x PROVE Has(r, x) <=> Has(list, x) /\ x # d
      <3>1. ASSUME Has(r, x) PROVE Has(list, x) /\ x # d
        <4>1. PICK j \in 1 .. n - 1 : r[j] = x
          BY <2>2, <3>1 DEF Has
        <4>2. PICK i \in 1 .. n : i # p /\ list[i] = x
          BY <1>1, <2>2, <4>1
        <4> QED BY <1>1, <2>1, <4>2 DEF Has, Distinct
      <3>2. ASSUME Has(list, x), x # d PROVE Has(r, x)
        <4>1. PICK i \in 1 .. n : list[i] = x
          BY <3>2 DEF Has
        <4>2. i # p
          BY <2>1, <3>2, <4>1
        <4>3. CASE i < p
          <5>1. i \in 1 .. n - 1 /\ r[i] = x
            BY <1>1, <2>2, <4>1, <4>3
          <5> QED BY <5>1, <2>2 DEF Has
        <4>4. CASE i > p
          <5>1. i - 1 \in 1 .. n - 1 /\ r[i - 1] = x
            BY <1>1, <2>2, <4>1, <4>4
          <5> QED BY <5>1, <2>2 DEF Has
        <4> QED BY <4>2, <4>3, <4>4, <1>1
      <3> QED BY <3>1, <3>2
    <2> QED BY <2>2, <2>3, <2>4 DEF r
  <1> QED BY <1>2, <1>3

\* addDestination of a destination that is new.
LEMMA AppendIs ==
    ASSUME NEW list \in Seq(FB), Distinct(list), NEW d \in FB, ~ Has(list, d)
    PROVE  /\ Append(list, d) \in Seq(FB)
           /\ Distinct(Append(list, d))
           /\ \A x : Has(Append(list, d), x) <=> Has(list, x) \/ x = d
  <1> DEFINE n == Len(list)
             r == Append(list, d)
  <1>1. n \in Nat
    BY LenProperties
  <1>2. /\ r \in Seq(FB) /\ Len(r) = n + 1 /\ r[n + 1] = d
        /\ \A j \in 1 .. n : r[j] = list[j]
    BY <1>1
  <1> HIDE DEF r
  <1>3. Distinct(r)
    BY <1>1, <1>2 DEF Distinct, Has
  <1>4. \A x : Has(r, x) <=> Has(list, x) \/ x = d
    BY <1>1, <1>2 DEF Has
  <1> QED BY <1>2, <1>3, <1>4 DEF r

-----------------------------------------------------------------------------
(* Types, for every use of the connections *)

\* No event output has a destination twice.
DistinctDestinations == \A f \in FB : Distinct(mDestinationIds[f])

TypeInv == TypeOK /\ DistinctDestinations

LEMMA InitTypeInv == Init => TypeInv
  <1> SUFFICES ASSUME Init PROVE TypeInv
    OBVIOUS
  <1>1. TypeOK
    BY ConnectionsAssumption DEF Init, TypeOK, live, States
  <1>2. DistinctDestinations
    BY DEF Init, DistinctDestinations, Distinct
  <1> QED BY <1>1, <1>2 DEF TypeInv

\* What deinitialize does to the counts.
DeletedCount(f) ==
    disconnectBoth(f, dioIn[f],
      disconnectBoth(f, adapterCon[f], disconnectData(f, disconnectEvents(f, mConnRefCount))))

LEMMA DeletedCountType ==
    ASSUME TypeOK, NEW f \in FB
    PROVE  disconnectEvents(f, mConnRefCount) \in Counts /\ DeletedCount(f) \in Counts
  <1>1. mConnRefCount \in Counts /\ Len(mDestinationIds[f]) \in Nat
    BY DEF TypeOK, Counts
  <1>2. disconnectEvents(f, mConnRefCount) \in Counts
    BY <1>1, LoopType DEF disconnectEvents
  <1>3. \A c \in Counts : disconnectData(f, c) \in Counts
    BY CountsStay DEF disconnectData
  <1>4. \A p : \A c \in Counts : disconnectBoth(f, p, c) \in Counts
    BY CountsStay DEF disconnectBoth
  <1> QED BY <1>2, <1>3, <1>4 DEF DeletedCount

LEMMA DeleteKeepsTypeInv ==
    ASSUME TypeInv, NEW f \in FB, deleteFB(f)
    PROVE  TypeInv'
  <1> USE DEF TypeInv
  <1>1. mConnRefCount' = [DeletedCount(f) EXCEPT ![f] = 0]
    BY DEF deleteFB, DeletedCount
  <1>2. mConnRefCount' \in [FB -> 0 .. CountMod - 1]
    BY <1>1, DeletedCountType, ConnectionsAssumption DEF Counts
  <1>3. mFBState' \in [FB -> States] /\ life' = [life EXCEPT ![f] = "deleted"]
    BY DEF deleteFB, TypeOK, States
  <1>4. /\ mDestinationIds' = [mDestinationIds EXCEPT ![f] = <<>>]
        /\ connDI' = [connDI EXCEPT ![f] = None]
        /\ dioIn' = [dioIn EXCEPT ![f] = None]
        /\ adapterCon' = [s \in FB |-> IF s = f \/ adapterCon[s] = f THEN None ELSE adapterCon[s]]
    BY DEF deleteFB, freeInterface
  <1>5. /\ mDestinationIds' \in [FB -> Seq(FB)]
        /\ connDI' \in [FB -> FB \cup {None}]
        /\ adapterCon' \in [FB -> FB \cup {None}]
        /\ dioIn' \in [FB -> FB \cup {None}]
    BY <1>4 DEF TypeOK
  <1>6. \A g \in FB \ live' : g = f \/ g \in FB \ live
    BY <1>3 DEF TypeOK, live
  <1>7. \A g \in FB \ live' : mDestinationIds'[g] = <<>> /\ {connDI'[g], adapterCon'[g], dioIn'[g]} = {None}
    BY <1>4, <1>6 DEF TypeOK
  <1>8. DistinctDestinations'
    BY <1>4 DEF TypeOK, DistinctDestinations, Distinct
  <1>9. life' \in [FB -> {"new", "live", "deleted"}]
    BY <1>3 DEF TypeOK
  <1> QED BY <1>2, <1>3, <1>5, <1>7, <1>8, <1>9 DEF TypeOK

\* The event connections.
LEMMA EventsKeepTypeInv ==
    ASSUME TypeInv, NEW s \in FB, NEW d \in FB, connectEvent(s, d) \/ disconnectEvent(s, d)
    PROVE  TypeInv'
  <1> USE DEF TypeInv
  <1> DEFINE list == mDestinationIds[s]
  <1>1. list \in Seq(FB) /\ Distinct(list) /\ s \in live
    BY DEF TypeOK, DistinctDestinations, connectEvent, disconnectEvent
  <1>2. PICK r \in Seq(FB) : Distinct(r) /\ mDestinationIds' = [mDestinationIds EXCEPT ![s] = r]
    <2>1. CASE connectEvent(s, d)
      <3>1. CASE HasEvent(s, d)
        BY <1>1, <2>1, <3>1 DEF connectEvent, TypeOK
      <3>2. CASE ~ HasEvent(s, d)
        <4>1. ~ Has(list, d)
          BY <3>2 DEF HasEvent, Has
        <4> QED BY <1>1, <2>1, <3>2, <4>1, AppendIs DEF connectEvent, TypeOK
      <3> QED BY <3>1, <3>2
    <2>2. CASE disconnectEvent(s, d)
      BY <1>1, <2>2, RemoveIs DEF disconnectEvent, TypeOK
    <2> QED BY <2>1, <2>2
  <1> HIDE DEF list
  <1>3. mConnRefCount' \in [FB -> 0 .. CountMod - 1]
    <2>1. mConnRefCount \in Counts
      BY DEF TypeOK, Counts
    <2>2. mConnRefCount' = inc(mConnRefCount, d) \/ mConnRefCount' = dec(mConnRefCount, d)
      BY DEF connectEvent, disconnectEvent
    <2> QED BY <2>1, <2>2, CountsStay DEF Counts
  <1>4. UNCHANGED <<life, mFBState, connDI, adapterCon, dioIn>> /\ live' = live
    BY DEF connectEvent, disconnectEvent, live
  <1>5. mDestinationIds' \in [FB -> Seq(FB)] /\ DistinctDestinations'
    BY <1>2 DEF TypeOK, DistinctDestinations
  <1>6. \A g \in FB \ live' : mDestinationIds'[g] = <<>>
    BY <1>1, <1>2, <1>4 DEF TypeOK
  <1> QED BY <1>3, <1>4, <1>5, <1>6 DEF TypeOK

\* The other three kinds.
LEMMA OthersKeepTypeInv ==
    ASSUME TypeInv, NEW s \in FB, NEW d \in FB,
           \/ connectData(s, d)    \/ deleteDataConnection(s, d)
           \/ connectAdapter(s, d) \/ disconnectAdapter(s, d)
           \/ connectInOut(s, d)   \/ disconnectInOut(s, d)
    PROVE  TypeInv'
  <1> USE DEF TypeInv
  <1>1. mConnRefCount' \in [FB -> 0 .. CountMod - 1]
    <2>1. mConnRefCount \in Counts
      BY DEF TypeOK, Counts
    <2>2. \A c \in Counts, f \in FB : inc(c, f) \in Counts /\ dec(c, f) \in Counts
      BY CountsStay
    <2>3. mConnRefCount' \in {inc(mConnRefCount, s), dec(mConnRefCount, s),
                              inc(inc(mConnRefCount, d), s), dec(dec(mConnRefCount, d), s)}
      BY DEF connectData, deleteDataConnection, connectAdapter, disconnectAdapter,
             connectInOut, disconnectInOut
    <2>4. mConnRefCount' \in Counts
      BY <2>1, <2>2, <2>3
    <2> QED BY <2>4 DEF Counts
  <1>2. UNCHANGED <<life, mFBState, mDestinationIds>> /\ live' = live /\ d \in live
    BY DEF connectData, deleteDataConnection, connectAdapter, disconnectAdapter,
           connectInOut, disconnectInOut, live
  <1>3. \A h \in [FB -> FB \cup {None}], p \in {s, None} : [h EXCEPT ![d] = p] \in [FB -> FB \cup {None}]
    OBVIOUS
  <1>4. /\ connDI' = connDI \/ \E p \in {s, None} : connDI' = [connDI EXCEPT ![d] = p]
        /\ adapterCon' = adapterCon \/ \E p \in {s, None} : adapterCon' = [adapterCon EXCEPT ![d] = p]
        /\ dioIn' = dioIn \/ \E p \in {s, None} : dioIn' = [dioIn EXCEPT ![d] = p]
    BY DEF connectData, deleteDataConnection, connectAdapter, disconnectAdapter,
           connectInOut, disconnectInOut
  <1>5. /\ connDI' \in [FB -> FB \cup {None}]
        /\ adapterCon' \in [FB -> FB \cup {None}]
        /\ dioIn' \in [FB -> FB \cup {None}]
    <2>1. /\ connDI \in [FB -> FB \cup {None}]
          /\ adapterCon \in [FB -> FB \cup {None}]
          /\ dioIn \in [FB -> FB \cup {None}]
      BY DEF TypeOK
    <2>2. connDI' \in [FB -> FB \cup {None}]
      BY <1>3, <1>4, <2>1
    <2>3. adapterCon' \in [FB -> FB \cup {None}]
      BY <1>3, <1>4, <2>1
    <2>4. dioIn' \in [FB -> FB \cup {None}]
      BY <1>3, <1>4, <2>1
    <2> QED BY <2>2, <2>3, <2>4
  <1>6. \A g \in FB \ live' : mDestinationIds'[g] = <<>> /\ {connDI'[g], adapterCon'[g], dioIn'[g]} = {None}
    BY <1>2, <1>4 DEF TypeOK
  <1>7. DistinctDestinations'
    BY <1>2 DEF DistinctDestinations
  <1> QED BY <1>1, <1>2, <1>5, <1>6, <1>7 DEF TypeOK

LEMMA StepKeepsTypeInv == TypeInv /\ [Next]_vars => TypeInv'
  <1> SUFFICES ASSUME TypeInv, [Next]_vars PROVE TypeInv'
    OBVIOUS
  <1>1. ASSUME NEW f \in FB, createFB(f) PROVE TypeInv'
    <2>1. life' = [life EXCEPT ![f] = "live"] /\ UNCHANGED <<mFBState, mConnRefCount, pointers>>
      BY <1>1 DEF createFB
    <2>2. live \subseteq live'
      BY <2>1 DEF live, TypeInv, TypeOK
    <2> QED BY <2>1, <2>2 DEF TypeInv, TypeOK, DistinctDestinations, pointers
  <1>2. ASSUME NEW f \in FB, NEW c \in StateCommands, changeExecutionState(f, c) PROVE TypeInv'
    <2>1. Target(c) \in States
      BY ConnectionsAssumption DEF Target, States, Commands
    <2>2. mFBState' = [mFBState EXCEPT ![f] = Target(c)] /\ UNCHANGED <<life, mConnRefCount, pointers>>
      BY <1>2 DEF changeExecutionState
    <2> QED BY <2>1, <2>2 DEF TypeInv, TypeOK, DistinctDestinations, pointers, live
  <1>3. CASE UNCHANGED vars
    BY <1>3 DEF vars, pointers, TypeInv, TypeOK, DistinctDestinations, live
  <1> QED BY <1>1, <1>2, <1>3, DeleteKeepsTypeInv, EventsKeepTypeInv, OthersKeepTypeInv DEF Next

\* The inductive invariant: types, and destination lists without repetitions.
THEOREM ConnectionsInductive == Spec => []TypeInv
  <1> QED BY InitTypeInv, StepKeepsTypeInv, PTL DEF Spec

\* Types; only live blocks hold pointers or are counted.  For every number of destinations
\* and every use of the connections, careful or not.
THEOREM ConnectionsTypeCorrect == Spec => []TypeOK
  <1>1. TypeInv => TypeOK
    BY DEF TypeInv
  <1> QED BY <1>1, ConnectionsInductive, PTL

-----------------------------------------------------------------------------
(* The reference counts *)

\* A size_t is wide enough to count the pointers between the blocks there are.
CountFits == 4 * Cardinality(FB) + 4 < CountMod

EventRefs(f)   == {s \in FB : HasEvent(s, f)}
DataRefs(f)    == {d \in FB : connDI[d] = f}
AdapterRefs(f) == {x \in FB : adapterCon[x] = f}
InOutRefs(f)   == {x \in FB : dioIn[x] = f}
Own(p)         == Cardinality({p} \ {None})

\* CountIsExact without the wrap, and for blocks that do not live as well.
CountInv == \A f \in FB : mConnRefCount[f] = References(f)

ExactInv == TypeInv /\ NoDangling /\ CountInv

LEMMA OwnIs == \A p : Own(p) = IF p = None THEN 0 ELSE 1
  <1> SUFFICES ASSUME NEW p PROVE Own(p) = IF p = None THEN 0 ELSE 1
    OBVIOUS
  <1>1. CASE p = None
    <2>1. {p} \ {None} = {}
      BY <1>1
    <2> QED BY <1>1, <2>1, FS_EmptySet DEF Own
  <1>2. CASE p # None
    <2>1. {p} \ {None} = {p}
      BY <1>2
    <2> QED BY <1>2, <2>1, FS_Singleton DEF Own
  <1> QED BY <1>1, <1>2

\* Sets of blocks are finite, and grow and shrink by one.
LEMMA Sizes ==
    /\ Cardinality(FB) \in Nat
    /\ \A S \in SUBSET FB :
          /\ Cardinality(S) \in 0 .. Cardinality(FB)
          /\ Cardinality(S) = 0 <=> S = {}
          /\ \A x \in FB \ S : Cardinality(S \cup {x}) = Cardinality(S) + 1
          /\ \A x \in S : Cardinality(S \ {x}) = Cardinality(S) - 1
  <1>0. IsFiniteSet(FB)
    BY ConnectionsAssumption
  <1>1. Cardinality(FB) \in Nat
    BY <1>0, FS_CardinalityType
  <1> SUFFICES ASSUME NEW S \in SUBSET FB
               PROVE  /\ Cardinality(S) \in 0 .. Cardinality(FB)
                      /\ Cardinality(S) = 0 <=> S = {}
                      /\ \A x \in FB \ S : Cardinality(S \cup {x}) = Cardinality(S) + 1
                      /\ \A x \in S : Cardinality(S \ {x}) = Cardinality(S) - 1
    BY <1>1
  <1>2. IsFiniteSet(S) /\ Cardinality(S) <= Cardinality(FB)
    BY <1>0, FS_Subset
  <1>3. Cardinality(S) \in Nat
    BY <1>2, FS_CardinalityType
  <1>4. Cardinality(S) = 0 <=> S = {}
    BY <1>2, FS_EmptySet
  <1>5. \A x \in FB \ S : Cardinality(S \cup {x}) = Cardinality(S) + 1
    BY <1>2, FS_AddElement
  <1>6. \A x \in S : Cardinality(S \ {x}) = Cardinality(S) - 1
    BY <1>2, FS_RemoveElement
  <1> QED BY <1>1, <1>2, <1>3, <1>4, <1>5, <1>6

LEMMA ReferencesAre ==
    \A f : References(f) = Cardinality(EventRefs(f)) + Cardinality(DataRefs(f))
                           + Cardinality(AdapterRefs(f)) + Own(adapterCon[f])
                           + Cardinality(InOutRefs(f)) + Own(dioIn[f])
  BY DEF References, EventRefs, DataRefs, AdapterRefs, InOutRefs, Own

\* No block has more references than the count can hold, with two to spare.
LEMMA ReferencesFit ==
    ASSUME CountFits, NEW f \in FB
    PROVE  /\ References(f) \in 0 .. CountMod - 3
           /\ References(f) = 0 =>
                 /\ EventRefs(f) = {} /\ DataRefs(f) = {} /\ AdapterRefs(f) = {} /\ InOutRefs(f) = {}
                 /\ adapterCon[f] = None /\ dioIn[f] = None
  <1> DEFINE n == Cardinality(FB)
             e == Cardinality(EventRefs(f))
             a == Cardinality(DataRefs(f))
             p == Cardinality(AdapterRefs(f))
             i == Cardinality(InOutRefs(f))
             op == Own(adapterCon[f])
             oi == Own(dioIn[f])
  <1>1. /\ EventRefs(f) \in SUBSET FB /\ DataRefs(f) \in SUBSET FB
        /\ AdapterRefs(f) \in SUBSET FB /\ InOutRefs(f) \in SUBSET FB
    BY DEF EventRefs, DataRefs, AdapterRefs, InOutRefs
  <1>2. n \in Nat /\ e \in 0 .. n /\ a \in 0 .. n /\ p \in 0 .. n /\ i \in 0 .. n
    BY <1>1, Sizes
  <1>3. /\ e = 0 => EventRefs(f) = {}
        /\ a = 0 => DataRefs(f) = {}
        /\ p = 0 => AdapterRefs(f) = {}
        /\ i = 0 => InOutRefs(f) = {}
    BY <1>1, Sizes
  <1>4. op \in 0 .. 1 /\ (op = 0 => adapterCon[f] = None) /\ oi \in 0 .. 1 /\ (oi = 0 => dioIn[f] = None)
    BY OwnIs
  <1>5. References(f) = e + a + p + op + i + oi
    BY ReferencesAre
  <1>6. 4 * n + 4 < CountMod /\ CountMod \in Nat
    BY ConnectionsAssumption DEF CountFits
  <1> HIDE DEF n, e, a, p, i, op, oi
  <1>7. References(f) \in 0 .. CountMod - 3
    BY <1>2, <1>4, <1>5, <1>6
  <1>8. References(f) = 0 => e = 0 /\ a = 0 /\ p = 0 /\ i = 0 /\ op = 0 /\ oi = 0
    BY <1>2, <1>4, <1>5
  <1> QED BY <1>3, <1>4, <1>7, <1>8

\* Below the limit the count does not wrap.
LEMMA NoWrap ==
    \A x \in Nat : /\ x + 1 < CountMod => (x + 1) % CountMod = x + 1
                   /\ x \in 1 .. CountMod - 1 => (x - 1) % CountMod = x - 1
  <1>1. CountMod \in Nat \ {0}
    BY ConnectionsAssumption
  <1>2. \A y \in 0 .. CountMod - 1 : y % CountMod = y
    BY <1>1
  <1> QED BY <1>1, <1>2

LEMMA IncIs ==
    ASSUME NEW count \in Counts, NEW f \in FB, count[f] + 1 < CountMod
    PROVE  /\ inc(count, f) \in Counts
           /\ \A g \in FB : inc(count, f)[g] = IF g = f THEN count[g] + 1 ELSE count[g]
  <1>1. count[f] \in Nat
    BY DEF Counts
  <1>2. (count[f] + 1) % CountMod = count[f] + 1
    BY <1>1, NoWrap
  <1> QED BY <1>2, CountsStay DEF inc, Counts

LEMMA DecIs ==
    ASSUME NEW count \in Counts, NEW f \in FB, count[f] >= 1
    PROVE  /\ dec(count, f) \in Counts
           /\ \A g \in FB : dec(count, f)[g] = IF g = f THEN count[g] - 1 ELSE count[g]
  <1>1. count[f] \in Nat /\ count[f] \in 1 .. CountMod - 1
    BY DEF Counts
  <1>2. (count[f] - 1) % CountMod = count[f] - 1
    BY <1>1, NoWrap
  <1> QED BY <1>2, CountsStay DEF dec, Counts

\* The references as one kind and the rest.
NonEvent(f)   == Cardinality(DataRefs(f)) + Cardinality(AdapterRefs(f)) + Own(adapterCon[f])
                 + Cardinality(InOutRefs(f)) + Own(dioIn[f])
NonData(f)    == Cardinality(EventRefs(f)) + Cardinality(AdapterRefs(f)) + Own(adapterCon[f])
                 + Cardinality(InOutRefs(f)) + Own(dioIn[f])
NonAdapter(f) == Cardinality(EventRefs(f)) + Cardinality(DataRefs(f))
                 + Cardinality(InOutRefs(f)) + Own(dioIn[f])
NonInOut(f)   == Cardinality(EventRefs(f)) + Cardinality(DataRefs(f))
                 + Cardinality(AdapterRefs(f)) + Own(adapterCon[f])

ReferencesSplit ==
    \A f \in FB :
        /\ Cardinality(EventRefs(f)) \in Nat /\ Cardinality(DataRefs(f)) \in Nat
        /\ Cardinality(AdapterRefs(f)) \in Nat /\ Cardinality(InOutRefs(f)) \in Nat
        /\ Own(adapterCon[f]) \in Nat /\ Own(dioIn[f]) \in Nat
        /\ NonEvent(f) \in Nat /\ NonData(f) \in Nat /\ NonAdapter(f) \in Nat /\ NonInOut(f) \in Nat
        /\ References(f) = Cardinality(EventRefs(f)) + NonEvent(f)
        /\ References(f) = Cardinality(DataRefs(f)) + NonData(f)
        /\ References(f) = Cardinality(AdapterRefs(f)) + Own(adapterCon[f]) + NonAdapter(f)
        /\ References(f) = Cardinality(InOutRefs(f)) + Own(dioIn[f]) + NonInOut(f)

LEMMA Split == ReferencesSplit
  <1> SUFFICES ASSUME NEW f \in FB
               PROVE  /\ Cardinality(EventRefs(f)) \in Nat /\ Cardinality(DataRefs(f)) \in Nat
                      /\ Cardinality(AdapterRefs(f)) \in Nat /\ Cardinality(InOutRefs(f)) \in Nat
                      /\ Own(adapterCon[f]) \in Nat /\ Own(dioIn[f]) \in Nat
                      /\ NonEvent(f) \in Nat /\ NonData(f) \in Nat
                      /\ NonAdapter(f) \in Nat /\ NonInOut(f) \in Nat
                      /\ References(f) = Cardinality(EventRefs(f)) + NonEvent(f)
                      /\ References(f) = Cardinality(DataRefs(f)) + NonData(f)
                      /\ References(f) = Cardinality(AdapterRefs(f)) + Own(adapterCon[f]) + NonAdapter(f)
                      /\ References(f) = Cardinality(InOutRefs(f)) + Own(dioIn[f]) + NonInOut(f)
    BY DEF ReferencesSplit
  <1>1. /\ EventRefs(f) \in SUBSET FB /\ DataRefs(f) \in SUBSET FB
        /\ AdapterRefs(f) \in SUBSET FB /\ InOutRefs(f) \in SUBSET FB
    BY DEF EventRefs, DataRefs, AdapterRefs, InOutRefs
  <1>2. /\ Cardinality(EventRefs(f)) \in Nat /\ Cardinality(DataRefs(f)) \in Nat
        /\ Cardinality(AdapterRefs(f)) \in Nat /\ Cardinality(InOutRefs(f)) \in Nat
        /\ Own(adapterCon[f]) \in Nat /\ Own(dioIn[f]) \in Nat
    BY <1>1, Sizes, OwnIs
  <1>3. References(f) = Cardinality(EventRefs(f)) + Cardinality(DataRefs(f))
                        + Cardinality(AdapterRefs(f)) + Own(adapterCon[f])
                        + Cardinality(InOutRefs(f)) + Own(dioIn[f])
    BY ReferencesAre
  <1> QED BY <1>2, <1>3 DEF NonEvent, NonData, NonAdapter, NonInOut

\* What the counts are before a step.
LEMMA CountsBefore ==
    ASSUME ExactInv, CountFits
    PROVE  /\ mConnRefCount \in Counts
           /\ \A g \in FB : mConnRefCount[g] = References(g) /\ References(g) \in 0 .. CountMod - 3
  BY ReferencesFit DEF ExactInv, TypeInv, TypeOK, CountInv, Counts

One(b) == IF b THEN 1 ELSE 0

\* Counting up from exact counts, and down.
LEMMA CountUpOne ==
    ASSUME ExactInv, CountFits, NEW f \in FB
    PROVE  \A g \in FB : inc(mConnRefCount, f)[g] = References(g) + One(g = f)
  <1>1. /\ mConnRefCount \in Counts
        /\ \A g \in FB : mConnRefCount[g] = References(g) /\ References(g) \in 0 .. CountMod - 3
    BY CountsBefore
  <1>2. mConnRefCount[f] + 1 < CountMod
    BY <1>1, ConnectionsAssumption
  <1>3. \A g \in FB : inc(mConnRefCount, f)[g] = IF g = f THEN mConnRefCount[g] + 1 ELSE mConnRefCount[g]
    BY <1>1, <1>2, IncIs
  <1> QED BY <1>1, <1>3 DEF One

LEMMA CountUpTwo ==
    ASSUME ExactInv, CountFits, NEW s \in FB, NEW d \in FB
    PROVE  \A g \in FB : inc(inc(mConnRefCount, d), s)[g] = References(g) + One(g = d) + One(g = s)
  <1> DEFINE c == inc(mConnRefCount, d)
  <1>1. /\ mConnRefCount \in Counts
        /\ \A g \in FB : mConnRefCount[g] = References(g) /\ References(g) \in 0 .. CountMod - 3
    BY CountsBefore
  <1>2. c \in Counts
    BY <1>1, CountsStay
  <1>3. \A g \in FB : c[g] = References(g) + One(g = d)
    BY CountUpOne
  <1> HIDE DEF c
  <1>4. c[s] + 1 < CountMod
    BY <1>1, <1>3, ConnectionsAssumption DEF One
  <1>5. \A g \in FB : inc(c, s)[g] = IF g = s THEN c[g] + 1 ELSE c[g]
    BY <1>2, <1>4, IncIs
  <1>6. \A g \in FB : inc(c, s)[g] = References(g) + One(g = d) + One(g = s)
    BY <1>1, <1>3, <1>5 DEF One
  <1> QED BY <1>6 DEF c

LEMMA CountDownOne ==
    ASSUME ExactInv, CountFits, NEW f \in FB, References(f) >= 1
    PROVE  \A g \in FB : dec(mConnRefCount, f)[g] = References(g) - One(g = f)
  <1>1. /\ mConnRefCount \in Counts
        /\ \A g \in FB : mConnRefCount[g] = References(g) /\ References(g) \in 0 .. CountMod - 3
    BY CountsBefore
  <1>2. mConnRefCount[f] >= 1
    BY <1>1
  <1>3. \A g \in FB : dec(mConnRefCount, f)[g] = IF g = f THEN mConnRefCount[g] - 1 ELSE mConnRefCount[g]
    BY <1>1, <1>2, DecIs
  <1> QED BY <1>1, <1>3 DEF One

LEMMA CountDownTwo ==
    ASSUME ExactInv, CountFits, NEW s \in FB, NEW d \in FB,
           References(d) >= 1, References(s) >= 1 + One(s = d)
    PROVE  \A g \in FB : dec(dec(mConnRefCount, d), s)[g] = References(g) - One(g = d) - One(g = s)
  <1> DEFINE c == dec(mConnRefCount, d)
  <1>1. /\ mConnRefCount \in Counts
        /\ \A g \in FB : mConnRefCount[g] = References(g) /\ References(g) \in 0 .. CountMod - 3
    BY CountsBefore
  <1>2. c \in Counts
    BY <1>1, CountsStay
  <1>3. \A g \in FB : c[g] = References(g) - One(g = d)
    BY CountDownOne
  <1> HIDE DEF c
  <1>4. c[s] >= 1
    BY <1>1, <1>3 DEF One
  <1>5. \A g \in FB : dec(c, s)[g] = IF g = s THEN c[g] - 1 ELSE c[g]
    BY <1>2, <1>4, DecIs
  <1>6. \A g \in FB : dec(c, s)[g] = References(g) - One(g = d) - One(g = s)
    BY <1>1, <1>3, <1>5 DEF One
  <1> QED BY <1>6 DEF c

Pointer == [FB -> FB \cup {None}]

Pointing(h, g) == {x \in FB : h[x] = g}

\* k is h with the pointer of d changed to p.
Redirected(h, k, d, p) ==
    h \in Pointer /\ k \in Pointer /\ k[d] = p /\ \A x \in FB \ {d} : k[x] = h[x]

\* A null pointer is set.
LEMMA PointerSet ==
    ASSUME NEW h, NEW k, NEW s \in FB, NEW d \in FB, NEW g \in FB,
           Redirected(h, k, d, s), h[d] = None
    PROVE  /\ Cardinality(Pointing(k, g)) = Cardinality(Pointing(h, g)) + One(g = s)
           /\ Own(k[g]) = Own(h[g]) + One(g = d)
  <1>1. s # None /\ g # None
    BY ConnectionsAssumption
  <1>2. Pointing(h, g) \in SUBSET FB /\ d \in FB \ Pointing(h, g)
    BY <1>1 DEF Pointing
  <1>3. Pointing(k, g) = IF g = s THEN Pointing(h, g) \cup {d} ELSE Pointing(h, g)
    BY <1>1 DEF Pointing, Pointer, Redirected
  <1>4. Cardinality(Pointing(k, g)) = Cardinality(Pointing(h, g)) + One(g = s)
    BY <1>2, <1>3, Sizes DEF One
  <1>5. Own(k[g]) = Own(h[g]) + One(g = d)
    BY <1>1, OwnIs DEF Pointer, One, Redirected
  <1> QED BY <1>4, <1>5

\* A pointer is set to null.
LEMMA PointerReset ==
    ASSUME NEW h, NEW k, NEW s \in FB, NEW d \in FB, NEW g \in FB,
           Redirected(h, k, d, None), h[d] = s
    PROVE  /\ Cardinality(Pointing(k, g)) = Cardinality(Pointing(h, g)) - One(g = s)
           /\ Own(k[g]) = Own(h[g]) - One(g = d)
           /\ g = s => Cardinality(Pointing(h, g)) >= 1
           /\ g = d => Own(h[g]) = 1
  <1>1. s # None /\ g # None
    BY ConnectionsAssumption
  <1>2. Pointing(h, g) \in SUBSET FB /\ (g = s => d \in Pointing(h, g))
    BY <1>1 DEF Pointing
  <1>3. Pointing(k, g) = IF g = s THEN Pointing(h, g) \ {d} ELSE Pointing(h, g)
    BY <1>1 DEF Pointing, Pointer, Redirected
  <1>4. Cardinality(Pointing(k, g)) = Cardinality(Pointing(h, g)) - One(g = s)
    BY <1>2, <1>3, Sizes DEF One
  <1>5. Own(k[g]) = Own(h[g]) - One(g = d) /\ (g = d => Own(h[g]) = 1)
    BY <1>1, OwnIs DEF Pointer, One, Redirected
  <1>6. g = s => Cardinality(Pointing(h, g)) >= 1
    <2>1. Cardinality(Pointing(h, g)) \in Nat /\ (Cardinality(Pointing(h, g)) = 0 => Pointing(h, g) = {})
      BY <1>2, Sizes
    <2> QED BY <1>2, <2>1
  <1> QED BY <1>4, <1>5, <1>6

LEMMA ConnectEventExact ==
    ASSUME ExactInv, CountFits, Careful, NEW s \in FB, NEW d \in FB, connectEvent(s, d)
    PROVE  CountInv' /\ NoDangling'
  <1> DEFINE list == mDestinationIds[s]
  <1>0. /\ s \in live /\ d \in live /\ ~ HasEvent(s, d) /\ live' = live
        /\ mDestinationIds' = [mDestinationIds EXCEPT ![s] = Append(list, d)]
        /\ mConnRefCount' = inc(mConnRefCount, d)
        /\ UNCHANGED <<connDI, adapterCon, dioIn>>
    BY DEF connectEvent, live
  <1>s. ReferencesSplit'
    BY Split, PTL
  <1>1. \A x, y \in FB : HasEvent(x, y)' <=> HasEvent(x, y) \/ (x = s /\ y = d)
    <2>1. list \in Seq(FB) /\ Distinct(list) /\ ~ Has(list, d) /\ mDestinationIds \in [FB -> Seq(FB)]
      BY <1>0 DEF ExactInv, TypeInv, TypeOK, DistinctDestinations, HasEvent, Has
    <2>2. \A x : Has(Append(list, d), x) <=> Has(list, x) \/ x = d
      BY <2>1, AppendIs
    <2>3. \A x, y \in FB : HasEvent(x, y)' <=> Has(IF x = s THEN Append(list, d) ELSE mDestinationIds[x], y)
      BY <1>0, <2>1 DEF HasEvent, Has
    <2>4. \A x, y \in FB : HasEvent(x, y) <=> Has(mDestinationIds[x], y)
      BY DEF HasEvent, Has
    <2> QED BY <2>2, <2>3, <2>4
  <1>2. ASSUME NEW g \in FB PROVE mConnRefCount'[g] = References(g)'
    <2>1. EventRefs(g) \in SUBSET FB /\ EventRefs(g)' = IF g = d THEN EventRefs(g) \cup {s} ELSE EventRefs(g)
      BY <1>1 DEF EventRefs
    <2>2. g = d => s \in FB \ EventRefs(g)
      BY <1>0 DEF EventRefs
    <2>3. Cardinality(EventRefs(g)') = Cardinality(EventRefs(g)) + One(g = d)
      BY <2>1, <2>2, Sizes DEF One
    <2>4. UNCHANGED <<DataRefs(g), AdapterRefs(g), InOutRefs(g), Own(adapterCon[g]), Own(dioIn[g])>>
      BY <1>0 DEF DataRefs, AdapterRefs, InOutRefs, Own
    <2>5. NonEvent(g)' = NonEvent(g)
      BY <2>4 DEF NonEvent
    <2>6. References(g)' = References(g) + One(g = d)
      BY <2>3, <2>5, Split, <1>s DEF ReferencesSplit, One
    <2> QED BY <1>0, <2>6, CountUpOne
  <1>3. NoDangling'
    BY <1>0, <1>1 DEF NoDangling, ExactInv
  <1> QED BY <1>2, <1>3 DEF CountInv

LEMMA DisconnectEventExact ==
    ASSUME ExactInv, CountFits, Careful, NEW s \in FB, NEW d \in FB, disconnectEvent(s, d)
    PROVE  CountInv' /\ NoDangling'
  <1> DEFINE list == mDestinationIds[s]
  <1>0. /\ HasEvent(s, d) /\ live' = live
        /\ mDestinationIds' = [mDestinationIds EXCEPT ![s] = removeDestination(list, d)]
        /\ mConnRefCount' = dec(mConnRefCount, d)
        /\ UNCHANGED <<connDI, adapterCon, dioIn>>
    BY DEF disconnectEvent, live
  <1>s. ReferencesSplit'
    BY Split, PTL
  <1>1. \A x, y \in FB : HasEvent(x, y)' <=> HasEvent(x, y) /\ ~ (x = s /\ y = d)
    <2>1. list \in Seq(FB) /\ Distinct(list) /\ mDestinationIds \in [FB -> Seq(FB)]
      BY DEF ExactInv, TypeInv, TypeOK, DistinctDestinations
    <2>2. \A x : Has(removeDestination(list, d), x) <=> Has(list, x) /\ x # d
      BY <2>1, RemoveIs
    <2>3. \A x, y \in FB : HasEvent(x, y)' <=> Has(IF x = s THEN removeDestination(list, d) ELSE mDestinationIds[x], y)
      BY <1>0, <2>1 DEF HasEvent, Has
    <2>4. \A x, y \in FB : HasEvent(x, y) <=> Has(mDestinationIds[x], y)
      BY DEF HasEvent, Has
    <2> QED BY <2>2, <2>3, <2>4
  <1>2. ASSUME NEW g \in FB
        PROVE  References(g)' = References(g) - One(g = d) /\ (g = d => References(g) >= 1)
    <2>1. EventRefs(g) \in SUBSET FB /\ EventRefs(g)' = IF g = d THEN EventRefs(g) \ {s} ELSE EventRefs(g)
      BY <1>1 DEF EventRefs
    <2>2. g = d => s \in EventRefs(g)
      BY <1>0 DEF EventRefs
    <2>3. /\ Cardinality(EventRefs(g)') = Cardinality(EventRefs(g)) - One(g = d)
          /\ g = d => Cardinality(EventRefs(g)) # 0
      BY <2>1, <2>2, Sizes DEF One
    <2>4. UNCHANGED <<DataRefs(g), AdapterRefs(g), InOutRefs(g), Own(adapterCon[g]), Own(dioIn[g])>>
      BY <1>0 DEF DataRefs, AdapterRefs, InOutRefs, Own
    <2>5. NonEvent(g)' = NonEvent(g)
      BY <2>4 DEF NonEvent
    <2> QED BY <2>3, <2>5, Split, <1>s DEF ReferencesSplit, One
  <1>3. CountInv'
    BY <1>0, <1>2, CountDownOne DEF CountInv
  <1>4. NoDangling'
    BY <1>0, <1>1 DEF NoDangling, ExactInv
  <1> QED BY <1>3, <1>4

LEMMA ConnectDataExact ==
    ASSUME ExactInv, CountFits, Careful, NEW s \in FB, NEW d \in FB, connectData(s, d)
    PROVE  CountInv' /\ NoDangling'
  <1>0. /\ s \in live /\ connDI[d] = None /\ live' = live
        /\ connDI' = [connDI EXCEPT ![d] = s]
        /\ mConnRefCount' = inc(mConnRefCount, s)
        /\ UNCHANGED <<mDestinationIds, adapterCon, dioIn>>
    BY DEF connectData, live
  <1>s. ReferencesSplit'
    BY Split, PTL
  <1>t. connDI \in Pointer
    BY DEF ExactInv, TypeInv, TypeOK, Pointer
  <1>r. Redirected(connDI, connDI', d, s)
    BY <1>0, <1>t DEF Redirected, Pointer
  <1>1. ASSUME NEW g \in FB PROVE References(g)' = References(g) + One(g = s)
    <2>1. Cardinality(DataRefs(g))' = Cardinality(DataRefs(g)) + One(g = s)
      <3>1. /\ Cardinality(Pointing(connDI', g)) = Cardinality(Pointing(connDI, g)) + One(g = s)
        BY <1>0, <1>r, PointerSet
      <3> QED BY <3>1 DEF DataRefs, Pointing
    <2>2. UNCHANGED <<EventRefs(g), AdapterRefs(g), InOutRefs(g), Own(adapterCon[g]), Own(dioIn[g])>>
      BY <1>0 DEF EventRefs, HasEvent, AdapterRefs, InOutRefs, Own
    <2>3. NonData(g)' = NonData(g)
      BY <2>2 DEF NonData
    <2> QED BY <2>1, <2>3, Split, <1>s DEF ReferencesSplit, One
  <1>2. CountInv'
    BY <1>0, <1>1, CountUpOne DEF CountInv
  <1>3. NoDangling'
    BY <1>0, <1>t DEF NoDangling, ExactInv, HasEvent, Pointer
  <1> QED BY <1>2, <1>3

LEMMA DisconnectDataExact ==
    ASSUME ExactInv, CountFits, NEW s \in FB, NEW d \in FB, deleteDataConnection(s, d)
    PROVE  CountInv' /\ NoDangling'
  <1>0. /\ connDI[d] = s /\ live' = live
        /\ connDI' = [connDI EXCEPT ![d] = None]
        /\ mConnRefCount' = dec(mConnRefCount, s)
        /\ UNCHANGED <<mDestinationIds, adapterCon, dioIn>>
    BY DEF deleteDataConnection, live
  <1>s. ReferencesSplit'
    BY Split, PTL
  <1>t. connDI \in Pointer /\ None \notin FB
    BY ConnectionsAssumption DEF ExactInv, TypeInv, TypeOK, Pointer
  <1>r. Redirected(connDI, connDI', d, None)
    BY <1>0, <1>t DEF Redirected, Pointer
  <1>1. ASSUME NEW g \in FB
        PROVE  References(g)' = References(g) - One(g = s) /\ (g = s => References(g) >= 1)
    <2>1. /\ Cardinality(DataRefs(g))' = Cardinality(DataRefs(g)) - One(g = s)
          /\ g = s => Cardinality(DataRefs(g)) >= 1
      <3>1. /\ Cardinality(Pointing(connDI', g)) = Cardinality(Pointing(connDI, g)) - One(g = s)
            /\ g = s => Cardinality(Pointing(connDI, g)) >= 1
        BY <1>0, <1>r, PointerReset
      <3> QED BY <3>1 DEF DataRefs, Pointing
    <2>2. UNCHANGED <<EventRefs(g), AdapterRefs(g), InOutRefs(g), Own(adapterCon[g]), Own(dioIn[g])>>
      BY <1>0 DEF EventRefs, HasEvent, AdapterRefs, InOutRefs, Own
    <2>3. NonData(g)' = NonData(g)
      BY <2>2 DEF NonData
    <2> QED BY <2>1, <2>3, Split, <1>s DEF ReferencesSplit, One
  <1>2. CountInv'
    BY <1>0, <1>1, CountDownOne DEF CountInv
  <1>3. NoDangling'
    BY <1>0, <1>t DEF NoDangling, ExactInv, HasEvent, Pointer
  <1> QED BY <1>2, <1>3

LEMMA ConnectAdapterExact ==
    ASSUME ExactInv, CountFits, NEW s \in FB, NEW d \in FB, connectAdapter(s, d)
    PROVE  CountInv' /\ NoDangling'
  <1>0. /\ s \in live /\ adapterCon[d] = None /\ live' = live
        /\ adapterCon' = [adapterCon EXCEPT ![d] = s]
        /\ mConnRefCount' = inc(inc(mConnRefCount, d), s)
        /\ UNCHANGED <<mDestinationIds, connDI, dioIn>>
    BY DEF connectAdapter, live
  <1>s. ReferencesSplit'
    BY Split, PTL
  <1>t. adapterCon \in Pointer
    BY DEF ExactInv, TypeInv, TypeOK, Pointer
  <1>n. adapterCon[d] = None
    BY <1>0
  <1>r. Redirected(adapterCon, adapterCon', d, s)
    BY <1>0, <1>t DEF Redirected, Pointer
  <1>1. ASSUME NEW g \in FB PROVE References(g)' = References(g) + One(g = d) + One(g = s)
    <2>1. /\ Cardinality(AdapterRefs(g))' = Cardinality(AdapterRefs(g)) + One(g = s)
          /\ Own(adapterCon[g])' = Own(adapterCon[g]) + One(g = d)
      <3>1. /\ Cardinality(Pointing(adapterCon', g)) = Cardinality(Pointing(adapterCon, g)) + One(g = s)
            /\ Own(adapterCon'[g]) = Own(adapterCon[g]) + One(g = d)
        BY <1>n, <1>r, PointerSet
      <3>2. Own(adapterCon[g])' = Own(adapterCon'[g]) /\ AdapterRefs(g)' = Pointing(adapterCon', g)
        BY DEF Own, AdapterRefs, Pointing
      <3>3. AdapterRefs(g) = Pointing(adapterCon, g)
        BY DEF AdapterRefs, Pointing
      <3> QED BY <3>1, <3>2, <3>3
    <2>2. UNCHANGED <<EventRefs(g), DataRefs(g), InOutRefs(g), Own(dioIn[g])>>
      BY <1>0 DEF EventRefs, HasEvent, DataRefs, AdapterRefs, InOutRefs, Own
    <2>3. NonAdapter(g)' = NonAdapter(g)
      BY <2>2 DEF NonAdapter
    <2> QED BY <2>1, <2>3, Split, <1>s DEF ReferencesSplit, One
  <1>2. CountInv'
    BY <1>0, <1>1, CountUpTwo DEF CountInv
  <1>3. NoDangling'
    BY <1>0, <1>t DEF NoDangling, ExactInv, HasEvent, Pointer
  <1> QED BY <1>2, <1>3

LEMMA DisconnectAdapterExact ==
    ASSUME ExactInv, CountFits, NEW s \in FB, NEW d \in FB, disconnectAdapter(s, d)
    PROVE  CountInv' /\ NoDangling'
  <1>0. /\ adapterCon[d] = s /\ live' = live
        /\ adapterCon' = [adapterCon EXCEPT ![d] = None]
        /\ mConnRefCount' = dec(dec(mConnRefCount, d), s)
        /\ UNCHANGED <<mDestinationIds, connDI, dioIn>>
    BY DEF disconnectAdapter, live
  <1>s. ReferencesSplit'
    BY Split, PTL
  <1>t. adapterCon \in Pointer /\ None \notin FB
    BY ConnectionsAssumption DEF ExactInv, TypeInv, TypeOK, Pointer
  <1>n. adapterCon[d] = s
    BY <1>0
  <1>r. Redirected(adapterCon, adapterCon', d, None)
    BY <1>0, <1>t DEF Redirected, Pointer
  <1>1. ASSUME NEW g \in FB
        PROVE  /\ References(g)' = References(g) - One(g = d) - One(g = s)
               /\ References(g) >= One(g = d) + One(g = s)
    <2>1. /\ Cardinality(AdapterRefs(g))' = Cardinality(AdapterRefs(g)) - One(g = s)
          /\ Own(adapterCon[g])' = Own(adapterCon[g]) - One(g = d)
          /\ g = s => Cardinality(AdapterRefs(g)) >= 1
          /\ g = d => Own(adapterCon[g]) = 1
      <3>1. /\ Cardinality(Pointing(adapterCon', g)) = Cardinality(Pointing(adapterCon, g)) - One(g = s)
            /\ Own(adapterCon'[g]) = Own(adapterCon[g]) - One(g = d)
            /\ g = s => Cardinality(Pointing(adapterCon, g)) >= 1
            /\ g = d => Own(adapterCon[g]) = 1
        BY <1>n, <1>r, PointerReset
      <3>2. Own(adapterCon[g])' = Own(adapterCon'[g]) /\ AdapterRefs(g)' = Pointing(adapterCon', g)
        BY DEF Own, AdapterRefs, Pointing
      <3>3. AdapterRefs(g) = Pointing(adapterCon, g)
        BY DEF AdapterRefs, Pointing
      <3> QED BY <3>1, <3>2, <3>3
    <2>2. UNCHANGED <<EventRefs(g), DataRefs(g), InOutRefs(g), Own(dioIn[g])>>
      BY <1>0 DEF EventRefs, HasEvent, DataRefs, AdapterRefs, InOutRefs, Own
    <2>3. NonAdapter(g)' = NonAdapter(g)
      BY <2>2 DEF NonAdapter
    <2> QED BY <2>1, <2>3, Split, <1>s DEF ReferencesSplit, One
  <1>2. References(d) >= 1 /\ References(s) >= 1 + One(s = d)
    BY <1>1, Split DEF One, ReferencesSplit
  <1>3. CountInv'
    BY <1>0, <1>1, <1>2, CountDownTwo DEF CountInv
  <1>4. NoDangling'
    BY <1>0, <1>t DEF NoDangling, ExactInv, HasEvent, Pointer
  <1> QED BY <1>3, <1>4

LEMMA ConnectInOutExact ==
    ASSUME ExactInv, CountFits, NEW s \in FB, NEW d \in FB, connectInOut(s, d)
    PROVE  CountInv' /\ NoDangling'
  <1>0. /\ s \in live /\ dioIn[d] = None /\ live' = live
        /\ dioIn' = [dioIn EXCEPT ![d] = s]
        /\ mConnRefCount' = inc(inc(mConnRefCount, d), s)
        /\ UNCHANGED <<mDestinationIds, connDI, adapterCon>>
    BY DEF connectInOut, live
  <1>s. ReferencesSplit'
    BY Split, PTL
  <1>t. dioIn \in Pointer
    BY DEF ExactInv, TypeInv, TypeOK, Pointer
  <1>n. dioIn[d] = None
    BY <1>0
  <1>r. Redirected(dioIn, dioIn', d, s)
    BY <1>0, <1>t DEF Redirected, Pointer
  <1>1. ASSUME NEW g \in FB PROVE References(g)' = References(g) + One(g = d) + One(g = s)
    <2>1. /\ Cardinality(InOutRefs(g))' = Cardinality(InOutRefs(g)) + One(g = s)
          /\ Own(dioIn[g])' = Own(dioIn[g]) + One(g = d)
      <3>1. /\ Cardinality(Pointing(dioIn', g)) = Cardinality(Pointing(dioIn, g)) + One(g = s)
            /\ Own(dioIn'[g]) = Own(dioIn[g]) + One(g = d)
        BY <1>n, <1>r, PointerSet
      <3>2. Own(dioIn[g])' = Own(dioIn'[g]) /\ InOutRefs(g)' = Pointing(dioIn', g)
        BY DEF Own, InOutRefs, Pointing
      <3>3. InOutRefs(g) = Pointing(dioIn, g)
        BY DEF InOutRefs, Pointing
      <3> QED BY <3>1, <3>2, <3>3
    <2>2. UNCHANGED <<EventRefs(g), DataRefs(g), AdapterRefs(g), Own(adapterCon[g])>>
      BY <1>0 DEF EventRefs, HasEvent, DataRefs, AdapterRefs, InOutRefs, Own
    <2>3. NonInOut(g)' = NonInOut(g)
      BY <2>2 DEF NonInOut
    <2> QED BY <2>1, <2>3, Split, <1>s DEF ReferencesSplit, One
  <1>2. CountInv'
    BY <1>0, <1>1, CountUpTwo DEF CountInv
  <1>3. NoDangling'
    BY <1>0, <1>t DEF NoDangling, ExactInv, HasEvent, Pointer
  <1> QED BY <1>2, <1>3

LEMMA DisconnectInOutExact ==
    ASSUME ExactInv, CountFits, NEW s \in FB, NEW d \in FB, disconnectInOut(s, d)
    PROVE  CountInv' /\ NoDangling'
  <1>0. /\ dioIn[d] = s /\ live' = live
        /\ dioIn' = [dioIn EXCEPT ![d] = None]
        /\ mConnRefCount' = dec(dec(mConnRefCount, d), s)
        /\ UNCHANGED <<mDestinationIds, connDI, adapterCon>>
    BY DEF disconnectInOut, live
  <1>s. ReferencesSplit'
    BY Split, PTL
  <1>t. dioIn \in Pointer /\ None \notin FB
    BY ConnectionsAssumption DEF ExactInv, TypeInv, TypeOK, Pointer
  <1>n. dioIn[d] = s
    BY <1>0
  <1>r. Redirected(dioIn, dioIn', d, None)
    BY <1>0, <1>t DEF Redirected, Pointer
  <1>1. ASSUME NEW g \in FB
        PROVE  /\ References(g)' = References(g) - One(g = d) - One(g = s)
               /\ References(g) >= One(g = d) + One(g = s)
    <2>1. /\ Cardinality(InOutRefs(g))' = Cardinality(InOutRefs(g)) - One(g = s)
          /\ Own(dioIn[g])' = Own(dioIn[g]) - One(g = d)
          /\ g = s => Cardinality(InOutRefs(g)) >= 1
          /\ g = d => Own(dioIn[g]) = 1
      <3>1. /\ Cardinality(Pointing(dioIn', g)) = Cardinality(Pointing(dioIn, g)) - One(g = s)
            /\ Own(dioIn'[g]) = Own(dioIn[g]) - One(g = d)
            /\ g = s => Cardinality(Pointing(dioIn, g)) >= 1
            /\ g = d => Own(dioIn[g]) = 1
        BY <1>n, <1>r, PointerReset
      <3>2. Own(dioIn[g])' = Own(dioIn'[g]) /\ InOutRefs(g)' = Pointing(dioIn', g)
        BY DEF Own, InOutRefs, Pointing
      <3>3. InOutRefs(g) = Pointing(dioIn, g)
        BY DEF InOutRefs, Pointing
      <3> QED BY <3>1, <3>2, <3>3
    <2>2. UNCHANGED <<EventRefs(g), DataRefs(g), AdapterRefs(g), Own(adapterCon[g])>>
      BY <1>0 DEF EventRefs, HasEvent, DataRefs, AdapterRefs, InOutRefs, Own
    <2>3. NonInOut(g)' = NonInOut(g)
      BY <2>2 DEF NonInOut
    <2> QED BY <2>1, <2>3, Split, <1>s DEF ReferencesSplit, One
  <1>2. References(d) >= 1 /\ References(s) >= 1 + One(s = d)
    BY <1>1, Split DEF One, ReferencesSplit
  <1>3. CountInv'
    BY <1>0, <1>1, <1>2, CountDownTwo DEF CountInv
  <1>4. NoDangling'
    BY <1>0, <1>t DEF NoDangling, ExactInv, HasEvent, Pointer
  <1> QED BY <1>3, <1>4

\* A block that may be deleted is not pointed to, and its socket and in-out input are free.
LEMMA DeletableIsFree ==
    ASSUME ExactInv, CountFits, NEW f \in FB, isCurrentlyDeleteable(f)
    PROVE  /\ \A g \in FB : ~ HasEvent(g, f) /\ connDI[g] # f /\ adapterCon[g] # f /\ dioIn[g] # f
           /\ adapterCon[f] = None /\ dioIn[f] = None
  <1>1. References(f) = 0
    BY CountsBefore DEF isCurrentlyDeleteable
  <1>2. /\ EventRefs(f) = {} /\ DataRefs(f) = {} /\ AdapterRefs(f) = {} /\ InOutRefs(f) = {}
        /\ adapterCon[f] = None /\ dioIn[f] = None
    BY <1>1, ReferencesFit
  <1> QED BY <1>2 DEF EventRefs, DataRefs, AdapterRefs, InOutRefs

\* Its own pointers are the ones of its event output and its data input.
LEMMA DeleteReferences ==
    ASSUME ExactInv, CountFits, NEW f \in FB, deleteFB(f), NEW g \in FB
    PROVE  /\ References(g)' = References(g) - One(HasEvent(f, g)) - One(connDI[f] = g)
           /\ References(g) >= One(HasEvent(f, g)) + One(connDI[f] = g)
  <1>s. ReferencesSplit'
    BY Split, PTL
  <1>t. /\ mDestinationIds \in [FB -> Seq(FB)] /\ connDI \in Pointer
        /\ adapterCon \in Pointer /\ dioIn \in Pointer /\ None \notin FB
    BY ConnectionsAssumption DEF ExactInv, TypeInv, TypeOK, Pointer
  <1>1. /\ \A x \in FB : ~ HasEvent(x, f) /\ connDI[x] # f /\ adapterCon[x] # f /\ dioIn[x] # f
        /\ adapterCon[f] = None /\ dioIn[f] = None
    BY DeletableIsFree DEF deleteFB
  <1>2. adapterCon' = adapterCon /\ dioIn' = dioIn
    BY <1>1, <1>t DEF deleteFB, freeInterface, Pointer
  <1>3. /\ mDestinationIds' = [mDestinationIds EXCEPT ![f] = <<>>]
        /\ connDI' = [connDI EXCEPT ![f] = None]
    BY DEF deleteFB, freeInterface
  <1>4. \A x \in FB : HasEvent(x, g)' <=> HasEvent(x, g) /\ x # f
    <2>1. mDestinationIds'[f] = <<>> /\ \A x \in FB \ {f} : mDestinationIds'[x] = mDestinationIds[x]
      BY <1>3, <1>t
    <2> QED BY <2>1 DEF HasEvent
  <1>5. /\ Cardinality(EventRefs(g))' = Cardinality(EventRefs(g)) - One(HasEvent(f, g))
        /\ HasEvent(f, g) => Cardinality(EventRefs(g)) >= 1
    <2>1. /\ EventRefs(g)' = IF HasEvent(f, g) THEN EventRefs(g) \ {f} ELSE EventRefs(g)
          /\ EventRefs(g) \in SUBSET FB /\ (HasEvent(f, g) => f \in EventRefs(g))
      BY <1>4 DEF EventRefs
    <2>2. HasEvent(f, g) => Cardinality(EventRefs(g)) # 0
      BY <2>1, Sizes
    <2>3. Cardinality(EventRefs(g)) \in Nat
      BY <2>1, Sizes
    <2>4. Cardinality(EventRefs(g)') = Cardinality(EventRefs(g)) - One(HasEvent(f, g))
      BY <2>1, <2>3, Sizes DEF One
    <2> QED BY <2>2, <2>3, <2>4
  <1>6. /\ Cardinality(DataRefs(g))' = Cardinality(DataRefs(g)) - One(connDI[f] = g)
        /\ connDI[f] = g => Cardinality(DataRefs(g)) >= 1
    <2>1. /\ DataRefs(g)' = IF connDI[f] = g THEN DataRefs(g) \ {f} ELSE DataRefs(g)
          /\ DataRefs(g) \in SUBSET FB /\ (connDI[f] = g => f \in DataRefs(g))
      BY <1>3, <1>t DEF DataRefs, Pointer
    <2>2. connDI[f] = g => Cardinality(DataRefs(g)) # 0
      BY <2>1, Sizes
    <2>3. Cardinality(DataRefs(g)) \in Nat
      BY <2>1, Sizes
    <2>4. Cardinality(DataRefs(g)') = Cardinality(DataRefs(g)) - One(connDI[f] = g)
      BY <2>1, <2>3, Sizes DEF One
    <2> QED BY <2>2, <2>3, <2>4
  <1>7. UNCHANGED <<AdapterRefs(g), InOutRefs(g), Own(adapterCon[g]), Own(dioIn[g])>>
    BY <1>2 DEF AdapterRefs, InOutRefs, Own
  <1> DEFINE rest == Cardinality(AdapterRefs(g)) + Own(adapterCon[g]) + Cardinality(InOutRefs(g)) + Own(dioIn[g])
  <1>8. rest' = rest
    BY <1>7
  <1>9. /\ NonEvent(g) = Cardinality(DataRefs(g)) + rest /\ rest \in Nat
        /\ NonEvent(g)' = Cardinality(DataRefs(g))' + rest' /\ rest' \in Nat
    BY Split, <1>s DEF NonEvent, ReferencesSplit
  <1> HIDE DEF rest
  <1> QED BY <1>5, <1>6, <1>8, <1>9, Split, <1>s DEF ReferencesSplit, One

\* deinitialize counts down what the block points to.
LEMMA DeleteCounts ==
    ASSUME ExactInv, CountFits, NEW f \in FB, deleteFB(f), Len(mDestinationIds[f]) <= 2, NEW g \in FB
    PROVE  DeletedCount(f)[g] = References(g) - One(HasEvent(f, g)) - One(connDI[f] = g)
  <1> DEFINE c == disconnectEvents(f, mConnRefCount)
  <1>t. mDestinationIds[f] \in Seq(FB) /\ Distinct(mDestinationIds[f]) /\ connDI[f] \in FB \cup {None} /\ None \notin FB
    BY ConnectionsAssumption DEF ExactInv, TypeInv, TypeOK, DistinctDestinations
  <1>1. /\ mConnRefCount \in Counts
        /\ \A x \in FB : mConnRefCount[x] = References(x) /\ References(x) \in 0 .. CountMod - 3
    BY CountsBefore
  <1>2. \A x \in FB : References(x) >= One(HasEvent(f, x)) + One(connDI[f] = x)
    BY DeleteReferences
  <1>3. c \in Counts
    BY DeletedCountType DEF ExactInv, TypeInv
  <1>4. ASSUME NEW x \in FB PROVE c[x] = References(x) - One(HasEvent(f, x))
    <2>1. c[x] = IF Has(mDestinationIds[f], x) THEN (mConnRefCount[x] - 1) % CountMod ELSE mConnRefCount[x]
      BY <1>1, <1>t, ShortLoop DEF disconnectEvents
    <2>2. Has(mDestinationIds[f], x) <=> HasEvent(f, x)
      BY DEF Has, HasEvent
    <2>3. CASE HasEvent(f, x)
      <3>1. References(x) \in Nat /\ References(x) \in 1 .. CountMod - 1
        BY <1>1, <1>2, <2>3, ConnectionsAssumption DEF One
      <3>2. (References(x) - 1) % CountMod = References(x) - 1
        BY <3>1, NoWrap
      <3> QED BY <1>1, <2>1, <2>2, <2>3, <3>2 DEF One
    <2>4. CASE ~ HasEvent(f, x)
      BY <1>1, <2>1, <2>2, <2>4 DEF One
    <2> QED BY <2>3, <2>4
  <1> HIDE DEF c
  <1>5. DeletedCount(f) = IF connDI[f] = None THEN c ELSE dec(c, connDI[f])
    <2>1. adapterCon[f] = None /\ dioIn[f] = None
      BY DeletableIsFree DEF deleteFB
    <2> QED BY <2>1 DEF DeletedCount, disconnectBoth, disconnectData, c
  <1>6. CASE connDI[f] = None
    BY <1>1, <1>4, <1>5, <1>6, <1>t DEF One
  <1>7. CASE connDI[f] # None
    <2>1. connDI[f] \in FB
      BY <1>7, <1>t
    <2>2. c[connDI[f]] >= 1
      BY <1>1, <1>2, <1>4, <2>1 DEF One
    <2>3. dec(c, connDI[f])[g] = IF g = connDI[f] THEN c[g] - 1 ELSE c[g]
      BY <1>3, <2>1, <2>2, DecIs
    <2> QED BY <1>1, <1>4, <1>5, <1>7, <2>3 DEF One
  <1> QED BY <1>6, <1>7

LEMMA DeleteExact ==
    ASSUME ExactInv, CountFits, NEW f \in FB, deleteFB(f), Len(mDestinationIds[f]) <= 2
    PROVE  CountInv' /\ NoDangling'
  <1>1. /\ \A x \in FB : ~ HasEvent(x, f) /\ connDI[x] # f /\ adapterCon[x] # f /\ dioIn[x] # f
        /\ adapterCon[f] = None /\ dioIn[f] = None
    BY DeletableIsFree DEF deleteFB
  <1>2. mConnRefCount' = [DeletedCount(f) EXCEPT ![f] = 0] /\ DeletedCount(f) \in Counts
    BY DeletedCountType DEF deleteFB, DeletedCount, ExactInv, TypeInv
  <1>3. References(f) = 0
    BY CountsBefore DEF deleteFB, isCurrentlyDeleteable
  <1>4. ASSUME NEW g \in FB PROVE mConnRefCount'[g] = References(g)'
    <2>1. References(g)' = References(g) - One(HasEvent(f, g)) - One(connDI[f] = g)
      BY DeleteReferences
    <2>2. CASE g = f
      BY <1>1, <1>2, <1>3, <2>1, <2>2 DEF Counts, One
    <2>3. CASE g # f
      BY <1>2, <2>1, <2>3, DeleteCounts DEF Counts
    <2> QED BY <2>2, <2>3
  <1>5. NoDangling'
    <2>1. /\ mDestinationIds' = [mDestinationIds EXCEPT ![f] = <<>>]
          /\ connDI' = [connDI EXCEPT ![f] = None]
          /\ dioIn' = [dioIn EXCEPT ![f] = None]
          /\ adapterCon' = [s \in FB |-> IF s = f \/ adapterCon[s] = f THEN None ELSE adapterCon[s]]
          /\ life' = [life EXCEPT ![f] = "deleted"]
      BY DEF deleteFB, freeInterface
    <2>2. /\ mDestinationIds \in [FB -> Seq(FB)] /\ connDI \in Pointer /\ life \in [FB -> {"new", "live", "deleted"}]
          /\ adapterCon \in Pointer /\ dioIn \in Pointer /\ None \notin FB
      BY ConnectionsAssumption DEF ExactInv, TypeInv, TypeOK, Pointer
    <2>3. \A x, y \in FB : HasEvent(x, y)' => HasEvent(x, y)
      <3>1. mDestinationIds'[f] = <<>> /\ \A x \in FB \ {f} : mDestinationIds'[x] = mDestinationIds[x]
        BY <2>1, <2>2
      <3> QED BY <3>1 DEF HasEvent
    <2>4. \A x, y \in FB : /\ connDI'[x] = y => connDI[x] = y
                           /\ adapterCon'[x] = y => adapterCon[x] = y
                           /\ dioIn'[x] = y => dioIn[x] = y
      BY <2>1, <2>2 DEF Pointer
    <2>5. \A y \in live : y # f => y \in live'
      BY <2>1, <2>2 DEF live
    <2> QED BY <1>1, <2>3, <2>4, <2>5 DEF NoDangling, ExactInv
  <1> QED BY <1>4, <1>5 DEF CountInv

-----------------------------------------------------------------------------
(* The theorems *)

\* No block is deleted while its event output has three destinations or more.
ShortDelete == \A f \in FB : deleteFB(f) => Len(mDestinationIds[f]) <= 2

LEMMA InitExact == Init => NoDangling /\ CountInv
  <1> SUFFICES ASSUME Init PROVE NoDangling /\ CountInv
    OBVIOUS
  <1>0. None \notin FB
    BY ConnectionsAssumption
  <1>1. \A f, g \in FB : ~ HasEvent(f, g) /\ connDI[f] # g /\ adapterCon[f] # g /\ dioIn[f] # g
    BY <1>0 DEF Init, HasEvent
  <1>2. NoDangling
    BY <1>1 DEF NoDangling
  <1>3. ASSUME NEW f \in FB PROVE References(f) = 0
    <2>1. EventRefs(f) = {} /\ DataRefs(f) = {} /\ AdapterRefs(f) = {} /\ InOutRefs(f) = {}
      BY <1>1 DEF EventRefs, DataRefs, AdapterRefs, InOutRefs
    <2>2. Own(adapterCon[f]) = 0 /\ Own(dioIn[f]) = 0
      BY OwnIs DEF Init
    <2> QED BY <2>1, <2>2, ReferencesAre, FS_EmptySet
  <1>4. CountInv
    BY <1>3 DEF Init, CountInv
  <1> QED BY <1>2, <1>4

\* Creation and execution state commands leave pointers and counts alone.
LEMMA FrameExact ==
    ASSUME ExactInv, live \subseteq live', UNCHANGED <<mConnRefCount, pointers>>
    PROVE  CountInv' /\ NoDangling'
  <1>1. UNCHANGED <<mConnRefCount, mDestinationIds, connDI, adapterCon, dioIn>>
    BY DEF pointers
  <1>2. \A f \in FB : References(f)' = References(f)
    BY <1>1 DEF References, HasEvent
  <1>3. CountInv'
    BY <1>1, <1>2 DEF CountInv, ExactInv
  <1>4. NoDangling'
    BY <1>1 DEF NoDangling, ExactInv, HasEvent
  <1> QED BY <1>3, <1>4

LEMMA StepKeepsExact ==
    CountFits /\ Careful => (ExactInv /\ [Next]_vars /\ [ShortDelete]_vars => ExactInv')
  <1> SUFFICES ASSUME CountFits, Careful, ExactInv, [Next]_vars, [ShortDelete]_vars
               PROVE  ExactInv'
    OBVIOUS
  <1>0. TypeInv'
    BY StepKeepsTypeInv DEF ExactInv
  <1>1. ASSUME NEW f \in FB, createFB(f) PROVE CountInv' /\ NoDangling'
    <2>1. live \subseteq live' /\ UNCHANGED <<mConnRefCount, pointers>>
      BY <1>1 DEF createFB, live, ExactInv, TypeInv, TypeOK
    <2> QED BY <2>1, FrameExact
  <1>2. ASSUME NEW f \in FB, deleteFB(f) PROVE CountInv' /\ NoDangling'
    <2>1. vars' # vars
      BY <1>2 DEF deleteFB, vars, live, ExactInv, TypeInv, TypeOK
    <2>2. Len(mDestinationIds[f]) <= 2
      BY <1>2, <2>1 DEF ShortDelete
    <2> QED BY <1>2, <2>2, DeleteExact
  <1>3. ASSUME NEW f \in FB, NEW c \in StateCommands, changeExecutionState(f, c)
        PROVE  CountInv' /\ NoDangling'
    <2>1. live \subseteq live' /\ UNCHANGED <<mConnRefCount, pointers>>
      BY <1>3 DEF changeExecutionState, live
    <2> QED BY <2>1, FrameExact
  <1>4. ASSUME NEW s \in FB, NEW d \in FB,
               \/ connectEvent(s, d)   \/ disconnectEvent(s, d)
               \/ connectData(s, d)    \/ deleteDataConnection(s, d)
               \/ connectAdapter(s, d) \/ disconnectAdapter(s, d)
               \/ connectInOut(s, d)   \/ disconnectInOut(s, d)
        PROVE  CountInv' /\ NoDangling'
    BY <1>4, ConnectEventExact, DisconnectEventExact, ConnectDataExact, DisconnectDataExact,
       ConnectAdapterExact, DisconnectAdapterExact, ConnectInOutExact, DisconnectInOutExact
  <1>5. ASSUME UNCHANGED vars PROVE CountInv' /\ NoDangling'
    <2>1. live \subseteq live' /\ UNCHANGED <<mConnRefCount, pointers>>
      BY <1>5 DEF vars, live
    <2> QED BY <2>1, FrameExact
  <1>6. CountInv' /\ NoDangling'
    BY <1>1, <1>2, <1>3, <1>4, <1>5 DEF Next
  <1> QED BY <1>0, <1>6 DEF ExactInv

\* The inductive invariant: the count is the number of pointers, and no pointer is left to a
\* block that does not live.
THEOREM ConnectionsExact ==
    CountFits /\ Careful => (Spec /\ [][ShortDelete]_vars => []ExactInv)
  <1> SUFFICES ASSUME CountFits, Careful PROVE Spec /\ [][ShortDelete]_vars => []ExactInv
    OBVIOUS
  <1>1. Init => ExactInv
    BY InitTypeInv, InitExact DEF ExactInv
  <1>2. ExactInv /\ [Next]_vars /\ [ShortDelete]_vars => ExactInv'
    BY StepKeepsExact
  <1> QED BY <1>1, <1>2, PTL DEF Spec

LEMMA ExactIsCountIsExact == CountFits /\ ExactInv => CountIsExact
  <1> SUFFICES ASSUME CountFits, ExactInv, NEW f \in live
               PROVE  mConnRefCount[f] = References(f) % CountMod
    BY DEF CountIsExact
  <1>1. f \in FB
    BY DEF live
  <1>2. mConnRefCount[f] = References(f) /\ References(f) \in 0 .. CountMod - 3
    BY <1>1, CountsBefore
  <1>3. \A y \in 0 .. CountMod - 1 : y % CountMod = y
    BY ConnectionsAssumption
  <1>4. References(f) \in 0 .. CountMod - 1
    BY <1>2, ConnectionsAssumption
  <1> QED BY <1>2, <1>3, <1>4

\* mConnRefCount of a live block is the number of pointers to it, for any number of blocks
\* and destinations, as long as the application connects a pair once and disconnects what it
\* connected, and no block with three destinations is deleted (deinitialize, connect,
\* disconnect).
THEOREM ConnectionsCountIsExact ==
    CountFits /\ Careful => (Spec /\ [][ShortDelete]_vars => []CountIsExact)
  <1> SUFFICES ASSUME CountFits, Careful PROVE Spec /\ [][ShortDelete]_vars => []CountIsExact
    OBVIOUS
  <1>1. ExactInv => CountIsExact
    BY ExactIsCountIsExact
  <1>2. Spec /\ [][ShortDelete]_vars => []ExactInv
    BY ConnectionsExact
  <1> QED BY <1>1, <1>2, PTL

\* Under the same conditions no block is left with a pointer to a deleted one, which is what
\* isCurrentlyDeleteable is for.
THEOREM ConnectionsNoDangling ==
    CountFits /\ Careful => (Spec /\ [][ShortDelete]_vars => []NoDangling)
  <1> SUFFICES ASSUME CountFits, Careful PROVE Spec /\ [][ShortDelete]_vars => []NoDangling
    OBVIOUS
  <1>1. ExactInv => NoDangling
    BY DEF ExactInv
  <1>2. Spec /\ [][ShortDelete]_vars => []ExactInv
    BY ConnectionsExact
  <1> QED BY <1>1, <1>2, PTL

\* The condition on deletions is needed: whenever a block with three or more destinations is
\* deleted while the counts are exact, the loop of deinitialize never reads the second
\* destination, whose count stays one above the pointers to it.
THEOREM LongDeleteMiscounts ==
    ASSUME ExactInv, CountFits, NEW f \in FB, deleteFB(f), Len(mDestinationIds[f]) >= 3,
           NEW d \in FB, d = mDestinationIds[f][2]
    PROVE  d \in live' /\ mConnRefCount'[d] = References(d)' + 1
  <1> DEFINE all == mDestinationIds[f]
             c == disconnectEvents(f, mConnRefCount)
  <1>t. /\ all \in Seq(FB) /\ Distinct(all) /\ connDI[f] \in FB \cup {None} /\ None \notin FB
        /\ life \in [FB -> {"new", "live", "deleted"}]
    BY ConnectionsAssumption DEF ExactInv, TypeInv, TypeOK, DistinctDestinations
  <1>0. d = all[2] /\ d \in FB /\ HasEvent(f, d)
    <2>1. Len(all) \in Nat /\ 2 \in 1 .. Len(all)
      BY <1>t, LenProperties
    <2> QED BY <2>1 DEF HasEvent
  <1>1. /\ mConnRefCount \in Counts
        /\ \A x \in FB : mConnRefCount[x] = References(x) /\ References(x) \in 0 .. CountMod - 3
    BY CountsBefore
  <1>2. /\ References(d)' = References(d) - 1 - One(connDI[f] = d)
        /\ References(d) >= 1 + One(connDI[f] = d)
    BY <1>0, DeleteReferences DEF One
  <1>3. c \in Counts
    BY DeletedCountType DEF ExactInv, TypeInv
  <1>4. c[d] = References(d)
    BY <1>0, <1>1, <1>t, LongLoop DEF disconnectEvents
  <1>5. d # f /\ adapterCon[f] = None /\ dioIn[f] = None
    BY <1>0, DeletableIsFree DEF deleteFB
  <1> HIDE DEF c, all
  <1>6. DeletedCount(f) = IF connDI[f] = None THEN c ELSE dec(c, connDI[f])
    BY <1>5 DEF DeletedCount, disconnectBoth, disconnectData, c
  <1>7. DeletedCount(f)[d] = References(d) - One(connDI[f] = d)
    <2>1. CASE connDI[f] = None
      BY <1>0, <1>1, <1>4, <1>6, <1>t, <2>1 DEF One
    <2>2. CASE connDI[f] \in FB /\ connDI[f] # d
      <3>1. dec(c, connDI[f])[d] = c[d]
        BY <1>0, <1>3, <2>2 DEF dec, Counts
      <3> QED BY <1>0, <1>1, <1>4, <1>6, <1>t, <2>2, <3>1 DEF One
    <2>3. CASE connDI[f] = d
      <3>1. c[d] >= 1
        BY <1>0, <1>1, <1>2, <1>4, <2>3 DEF One
      <3>2. dec(c, d)[d] = c[d] - 1
        BY <1>0, <1>3, <3>1, DecIs
      <3> QED BY <1>0, <1>4, <1>6, <1>t, <2>3, <3>2 DEF One
    <2> QED BY <2>1, <2>2, <2>3, <1>t
  <1>8. mConnRefCount'[d] = DeletedCount(f)[d]
    <2>1. DeletedCount(f) \in Counts /\ mConnRefCount' = [DeletedCount(f) EXCEPT ![f] = 0]
      BY DeletedCountType DEF deleteFB, DeletedCount, ExactInv, TypeInv
    <2> QED BY <2>1, <1>0, <1>5 DEF Counts
  <1>9. d \in live'
    <2>1. d \in live
      BY <1>0 DEF NoDangling, ExactInv
    <2> QED BY <2>1, <1>5, <1>0, <1>t DEF deleteFB, live
  <1>10. mConnRefCount'[d] = References(d)' + 1
    <2>1. References(d) \in Int
      BY <1>0, <1>1
    <2> QED BY <1>2, <1>7, <1>8, <2>1 DEF One
  <1> QED BY <1>9, <1>10

-----------------------------------------------------------------------------
(* The pointers as a graph *)

EventEdges(lists) == UNION {{<<"event", x, lists[x][i]>> : i \in DOMAIN lists[x]} : x \in FB}

To(kind, h) == {<<kind, x, h[x]>> : x \in {y \in FB : h[y] # None}}

From(kind, h) == {<<kind, h[x], x>> : x \in {y \in FB : h[y] # None}}

Edge(kind, x, y) == <<kind, x, y>>

\* B is A with one element more.
Adds(A, B, e) == e \notin A /\ B = A \cup {e}

LEMMA EdgesAre ==
    Edges = EventEdges(mDestinationIds) \cup To("data", connDI)
            \cup To("socket", adapterCon) \cup From("plug", adapterCon)
            \cup To("in", dioIn) \cup From("out", dioIn)
  BY Zenon DEF Edges, EventEdges, To, From

LEMMA EdgesChange ==
    Edges' = EventEdges(mDestinationIds') \cup To("data", connDI')
             \cup To("socket", adapterCon') \cup From("plug", adapterCon')
             \cup To("in", dioIn') \cup From("out", dioIn')
  BY Zenon DEF Edges, EventEdges, To, From

\* Two event outputs with the same destinations have the same edges.
LEMMA EventEdgesAre ==
    ASSUME NEW lists \in [FB -> Seq(FB)]
    PROVE  EventEdges(lists) = {e \in {"event"} \X FB \X FB : Has(lists[e[2]], e[3])}
  <1> DEFINE E == {e \in {"event"} \X FB \X FB : Has(lists[e[2]], e[3])}
  <1>0. \A x \in FB : /\ DOMAIN lists[x] = 1 .. Len(lists[x])
                      /\ \A i \in 1 .. Len(lists[x]) : lists[x][i] \in FB
    <2> SUFFICES ASSUME NEW x \in FB
                 PROVE  /\ DOMAIN lists[x] = 1 .. Len(lists[x])
                        /\ \A i \in 1 .. Len(lists[x]) : lists[x][i] \in FB
      OBVIOUS
    <2>1. lists[x] \in Seq(FB)
      OBVIOUS
    <2> QED BY <2>1, LenProperties
  <1>1. ASSUME NEW e \in EventEdges(lists) PROVE e \in E
    <2>0. PICK x \in FB : e \in {<<"event", x, lists[x][i]>> : i \in DOMAIN lists[x]}
      BY <1>1 DEF EventEdges
    <2>1. PICK i \in DOMAIN lists[x] : e = <<"event", x, lists[x][i]>>
      BY <2>0
    <2>2. Has(lists[x], lists[x][i]) /\ lists[x][i] \in FB
      BY <1>0, <2>1 DEF Has
    <2> QED BY <2>1, <2>2
  <1>2. ASSUME NEW e \in E PROVE e \in EventEdges(lists)
    <2>1. PICK x \in FB, y \in FB : e = <<"event", x, y>>
      BY <1>2
    <2>2. Has(lists[x], y)
      BY <1>2, <2>1
    <2>3. PICK i \in DOMAIN lists[x] : lists[x][i] = y
      BY <1>0, <2>2 DEF Has
    <2>4. e \in {<<"event", x, lists[x][j]>> : j \in DOMAIN lists[x]}
      BY <2>1, <2>3
    <2> QED BY <2>4 DEF EventEdges
  <1> QED BY <1>1, <1>2

\* One destination more is one edge more.
LEMMA EventEdgesDiffer ==
    ASSUME NEW l \in [FB -> Seq(FB)], NEW m \in [FB -> Seq(FB)], NEW s \in FB, NEW d \in FB,
           \A x, y \in FB : Has(m[x], y) <=> Has(l[x], y) \/ (x = s /\ y = d),
           ~ Has(l[s], d)
    PROVE  Adds(EventEdges(l), EventEdges(m), Edge("event", s, d))
  <1> DEFINE T == {"event"} \X FB \X FB
  <1>1. /\ EventEdges(l) = {e \in T : Has(l[e[2]], e[3])}
        /\ EventEdges(m) = {e \in T : Has(m[e[2]], e[3])}
    BY EventEdgesAre
  <1>2. /\ <<"event", s, d>> \in T
        /\ \A e \in T : e[2] \in FB /\ e[3] \in FB /\ (e[2] = s /\ e[3] = d <=> e = <<"event", s, d>>)
    OBVIOUS
  <1> HIDE DEF T
  <1>3. \A e \in T : Has(m[e[2]], e[3]) <=> Has(l[e[2]], e[3]) \/ e = <<"event", s, d>>
    BY <1>2
  <1>4. <<"event", s, d>> \notin EventEdges(l)
    <2>1. <<"event", s, d>>[2] = s /\ <<"event", s, d>>[3] = d
      OBVIOUS
    <2> QED BY <1>1, <2>1
  <1>5. EventEdges(m) = EventEdges(l) \cup {<<"event", s, d>>}
    <2> DEFINE new == <<"event", s, d>>
    <2>1. new \in T /\ \A e \in T : Has(m[e[2]], e[3]) <=> Has(l[e[2]], e[3]) \/ e = new
      BY <1>2, <1>3
    <2> HIDE DEF new
    <2>2. {e \in T : Has(m[e[2]], e[3])} = {e \in T : Has(l[e[2]], e[3])} \cup {new}
      BY <2>1
    <2> QED BY <1>1, <2>2 DEF new
  <1> QED BY <1>4, <1>5 DEF Adds, Edge

\* Every set has edges of its own kind.
LEMMA EventKind ==
    ASSUME NEW lists, NEW e \in EventEdges(lists)
    PROVE  e[1] = "event"
  BY DEF EventEdges

LEMMA PointerKind ==
    ASSUME NEW kind, NEW h, NEW e
    PROVE  (e \in To(kind, h) => e[1] = kind) /\ (e \in From(kind, h) => e[1] = kind)
  BY DEF To, From

\* A null pointer that is set adds one edge of each kind; one that is reset removes it.
LEMMA EdgeSet ==
    ASSUME NEW kind, NEW h, NEW k, NEW s \in FB, NEW d \in FB, Redirected(h, k, d, s), h[d] = None
    PROVE  /\ Adds(To(kind, h), To(kind, k), Edge(kind, d, s))
           /\ Adds(From(kind, h), From(kind, k), Edge(kind, s, d))
  <1>1. s # None /\ d # None
    BY ConnectionsAssumption
  <1>2. /\ k[d] = s /\ \A x \in FB \ {d} : k[x] = h[x]
    BY DEF Redirected
  <1>3. {x \in FB : k[x] # None} = {x \in FB : h[x] # None} \cup {d}
    BY <1>1, <1>2
  <1>4. To(kind, k) = To(kind, h) \cup {<<kind, d, s>>}
    BY <1>1, <1>2, <1>3 DEF To
  <1>5. From(kind, k) = From(kind, h) \cup {<<kind, s, d>>}
    BY <1>1, <1>2, <1>3 DEF From
  <1>6. <<kind, d, s>> \notin To(kind, h)
    BY <1>1 DEF To
  <1>7. <<kind, s, d>> \notin From(kind, h)
    BY <1>1 DEF From
  <1> QED BY <1>4, <1>5, <1>6, <1>7 DEF Adds, Edge

LEMMA EdgeReset ==
    ASSUME NEW kind, NEW h, NEW k, NEW s \in FB, NEW d \in FB, Redirected(h, k, d, None), h[d] = s
    PROVE  /\ Adds(To(kind, k), To(kind, h), Edge(kind, d, s))
           /\ Adds(From(kind, k), From(kind, h), Edge(kind, s, d))
  <1>0. Redirected(k, h, d, s)
    BY ConnectionsAssumption DEF Redirected, Pointer
  <1>1. k[d] = None
    BY DEF Redirected
  <1> QED BY <1>0, <1>1, EdgeSet

\* So an edge of some kind is in the set of this kind.
LEMMA OfKind ==
    ASSUME NEW e \in Edges
    PROVE  /\ e[1] = "event"  => e \in EventEdges(mDestinationIds)
           /\ e[1] = "data"   => e \in To("data", connDI)
           /\ e[1] = "socket" => e \in To("socket", adapterCon)
           /\ e[1] = "plug"   => e \in From("plug", adapterCon)
           /\ e[1] = "in"     => e \in To("in", dioIn)
           /\ e[1] = "out"    => e \in From("out", dioIn)
  <1>1. /\ e \in EventEdges(mDestinationIds) => e[1] = "event"
        /\ e \in To("data", connDI) => e[1] = "data"
        /\ e \in To("socket", adapterCon) => e[1] = "socket"
        /\ e \in From("plug", adapterCon) => e[1] = "plug"
        /\ e \in To("in", dioIn) => e[1] = "in"
        /\ e \in From("out", dioIn) => e[1] = "out"
    BY EventKind, PointerKind
  <1> QED BY <1>1, EdgesAre

\* A step that adds, or removes, the pointers of one connection.
LEMMA IsConnect ==
    ASSUME NEW s \in live, NEW d \in live, NEW new \in Graph!Connection(s, d),
           live' = live, Edges' = Edges \cup new, \A e \in new : e \notin Edges
    PROVE  Graph!Connect
  <1>1. Edges' \ Edges = new /\ Edges \subseteq Edges'
    OBVIOUS
  <1> QED BY <1>1 DEF Graph!Connect

LEMMA IsDisconnect ==
    ASSUME NEW s \in live, NEW d \in live, NEW gone \in Graph!Connection(s, d),
           live' = live, Edges' = Edges \ gone, gone \subseteq Edges
    PROVE  Graph!Disconnect
  <1>1. Edges \ Edges' = gone /\ Edges' \subseteq Edges
    OBVIOUS
  <1> QED BY <1>1 DEF Graph!Disconnect

LEMMA ConnectEventGraph ==
    ASSUME ExactInv, Careful, NEW s \in FB, NEW d \in FB, connectEvent(s, d)
    PROVE  Graph!Connect
  <1> DEFINE list == mDestinationIds[s]
             e == Edge("event", s, d)
             m == mDestinationIds'
  <1>0. /\ s \in live /\ d \in live /\ ~ HasEvent(s, d) /\ live' = live
        /\ m = [mDestinationIds EXCEPT ![s] = Append(list, d)]
        /\ UNCHANGED <<connDI, adapterCon, dioIn>>
    BY DEF connectEvent, live
  <1>1. list \in Seq(FB) /\ Distinct(list) /\ ~ Has(list, d) /\ mDestinationIds \in [FB -> Seq(FB)]
    BY <1>0 DEF ExactInv, TypeInv, TypeOK, DistinctDestinations, HasEvent, Has
  <1>2. Append(list, d) \in Seq(FB) /\ \A x : Has(Append(list, d), x) <=> Has(list, x) \/ x = d
    BY <1>1, AppendIs
  <1>3. /\ m \in [FB -> Seq(FB)]
        /\ \A x, y \in FB : Has(m[x], y) <=> Has(mDestinationIds[x], y) \/ (x = s /\ y = d)
    BY <1>0, <1>1, <1>2
  <1> HIDE DEF m
  <1>4. Adds(EventEdges(mDestinationIds), EventEdges(m), e)
    BY <1>1, <1>3, EventEdgesDiffer
  <1>6. e[1] = "event"
    BY DEF Edge
  <1> HIDE DEF e
  <1>7. Edges' = Edges \cup {e}
    BY <1>0, <1>4, EdgesAre, EdgesChange DEF m, Adds
  <1>8. e \notin Edges
    BY <1>4, <1>6, OfKind DEF Adds
  <1>9. {e} \in Graph!Connection(s, d)
    BY DEF e, Edge, Graph!Connection
  <1> QED BY <1>0, <1>7, <1>8, <1>9, IsConnect

LEMMA DisconnectEventGraph ==
    ASSUME ExactInv, Careful, NEW s \in FB, NEW d \in FB, disconnectEvent(s, d)
    PROVE  Graph!Disconnect
  <1> DEFINE list == mDestinationIds[s]
             e == Edge("event", s, d)
             m == mDestinationIds'
  <1>0. /\ s \in live /\ d \in live /\ HasEvent(s, d) /\ live' = live
        /\ m = [mDestinationIds EXCEPT ![s] = removeDestination(list, d)]
        /\ UNCHANGED <<connDI, adapterCon, dioIn>>
    BY DEF disconnectEvent, live
  <1>1. list \in Seq(FB) /\ Distinct(list) /\ Has(list, d) /\ mDestinationIds \in [FB -> Seq(FB)]
    BY <1>0 DEF ExactInv, TypeInv, TypeOK, DistinctDestinations, HasEvent, Has
  <1>2. /\ removeDestination(list, d) \in Seq(FB)
        /\ \A x : Has(removeDestination(list, d), x) <=> Has(list, x) /\ x # d
    BY <1>1, RemoveIs
  <1>3. /\ m \in [FB -> Seq(FB)]
        /\ \A x, y \in FB : Has(m[x], y) <=> Has(mDestinationIds[x], y) /\ ~ (x = s /\ y = d)
    BY <1>0, <1>1, <1>2
  <1> HIDE DEF m
  <1>4. Adds(EventEdges(m), EventEdges(mDestinationIds), e)
    <2>1. /\ \A x, y \in FB : Has(mDestinationIds[x], y) <=> Has(m[x], y) \/ (x = s /\ y = d)
          /\ ~ Has(m[s], d)
      BY <1>1, <1>3
    <2> QED BY <1>1, <1>3, <2>1, EventEdgesDiffer
  <1>6. e[1] = "event"
    BY DEF Edge
  <1> HIDE DEF e
  <1>7. /\ e \notin To("data", connDI) /\ e \notin To("socket", adapterCon)
        /\ e \notin From("plug", adapterCon) /\ e \notin To("in", dioIn)
        /\ e \notin From("out", dioIn)
    BY <1>6, PointerKind
  <1>8. Edges' = Edges \ {e}
    BY <1>0, <1>4, <1>7, EdgesAre, EdgesChange DEF m, Adds
  <1>9. {e} \subseteq Edges /\ {e} \in Graph!Connection(s, d)
    BY <1>4, EdgesAre DEF e, Edge, Adds, Graph!Connection
  <1> QED BY <1>0, <1>8, <1>9, IsDisconnect

LEMMA ConnectDataGraph ==
    ASSUME ExactInv, Careful, NEW s \in FB, NEW d \in FB, connectData(s, d)
    PROVE  Graph!Connect
  <1> DEFINE e == Edge("data", d, s)
  <1>0. /\ s \in live /\ d \in live /\ connDI[d] = None /\ live' = live
        /\ connDI' = [connDI EXCEPT ![d] = s]
        /\ UNCHANGED <<mDestinationIds, adapterCon, dioIn>>
    BY DEF connectData, live
  <1>1. connDI \in Pointer
    BY DEF ExactInv, TypeInv, TypeOK, Pointer
  <1>2. Redirected(connDI, connDI', d, s) /\ connDI[d] = None
    BY <1>0, <1>1 DEF Redirected, Pointer
  <1>3. Adds(To("data", connDI), To("data", connDI'), e)
    BY <1>2, EdgeSet
  <1>4. e[1] = "data"
    BY DEF Edge
  <1> HIDE DEF e
  <1>5. Edges' = Edges \cup {e}
    BY <1>0, <1>3, EdgesAre, EdgesChange DEF Adds
  <1>6. e \notin Edges
    BY <1>3, <1>4, OfKind DEF Adds
  <1>7. {e} \in Graph!Connection(s, d)
    BY DEF e, Edge, Graph!Connection
  <1> QED BY <1>0, <1>5, <1>6, <1>7, IsConnect

LEMMA DisconnectDataGraph ==
    ASSUME ExactInv, NEW s \in FB, NEW d \in FB, deleteDataConnection(s, d)
    PROVE  Graph!Disconnect
  <1> DEFINE e == Edge("data", d, s)
  <1>0. /\ s \in live /\ d \in live /\ connDI[d] = s /\ live' = live
        /\ connDI' = [connDI EXCEPT ![d] = None]
        /\ UNCHANGED <<mDestinationIds, adapterCon, dioIn>>
    BY DEF deleteDataConnection, live
  <1>1. connDI \in Pointer
    BY DEF ExactInv, TypeInv, TypeOK, Pointer
  <1>2. Redirected(connDI, connDI', d, None) /\ connDI[d] = s
    BY <1>0, <1>1 DEF Redirected, Pointer
  <1>3. Adds(To("data", connDI'), To("data", connDI), e)
    BY <1>2, EdgeReset
  <1>4. e[1] = "data"
    BY DEF Edge
  <1> HIDE DEF e
  <1>5. /\ e \notin EventEdges(mDestinationIds) /\ e \notin To("socket", adapterCon)
        /\ e \notin From("plug", adapterCon) /\ e \notin To("in", dioIn)
        /\ e \notin From("out", dioIn)
    BY <1>4, EventKind, PointerKind
  <1>6. Edges' = Edges \ {e}
    BY <1>0, <1>3, <1>5, EdgesAre, EdgesChange DEF Adds
  <1>7. {e} \subseteq Edges /\ {e} \in Graph!Connection(s, d)
    BY <1>3, EdgesAre DEF e, Edge, Adds, Graph!Connection
  <1> QED BY <1>0, <1>6, <1>7, IsDisconnect

LEMMA ConnectAdapterGraph ==
    ASSUME ExactInv, NEW s \in FB, NEW d \in FB, connectAdapter(s, d)
    PROVE  Graph!Connect
  <1> DEFINE a == Edge("socket", d, s)
             b == Edge("plug", s, d)
  <1>0. /\ s \in live /\ d \in live /\ adapterCon[d] = None /\ live' = live
        /\ adapterCon' = [adapterCon EXCEPT ![d] = s]
        /\ UNCHANGED <<mDestinationIds, connDI, dioIn>>
    BY DEF connectAdapter, live
  <1>1. adapterCon \in Pointer
    BY DEF ExactInv, TypeInv, TypeOK, Pointer
  <1>2. Redirected(adapterCon, adapterCon', d, s) /\ adapterCon[d] = None
    BY <1>0, <1>1 DEF Redirected, Pointer
  <1>3. /\ Adds(To("socket", adapterCon), To("socket", adapterCon'), a)
        /\ Adds(From("plug", adapterCon), From("plug", adapterCon'), b)
    BY <1>2, EdgeSet
  <1>4. a[1] = "socket" /\ b[1] = "plug"
    BY DEF Edge
  <1> HIDE DEF a, b
  <1>5. Edges' = Edges \cup {a, b}
    BY <1>0, <1>3, EdgesAre, EdgesChange DEF Adds
  <1>6. a \notin Edges /\ b \notin Edges
    BY <1>3, <1>4, OfKind DEF Adds
  <1>7. {a, b} \in Graph!Connection(s, d)
    BY DEF a, b, Edge, Graph!Connection
  <1> QED BY <1>0, <1>5, <1>6, <1>7, IsConnect

LEMMA DisconnectAdapterGraph ==
    ASSUME ExactInv, NEW s \in FB, NEW d \in FB, disconnectAdapter(s, d)
    PROVE  Graph!Disconnect
  <1> DEFINE a == Edge("socket", d, s)
             b == Edge("plug", s, d)
  <1>0. /\ s \in live /\ d \in live /\ adapterCon[d] = s /\ live' = live
        /\ adapterCon' = [adapterCon EXCEPT ![d] = None]
        /\ UNCHANGED <<mDestinationIds, connDI, dioIn>>
    BY DEF disconnectAdapter, live
  <1>1. adapterCon \in Pointer
    BY DEF ExactInv, TypeInv, TypeOK, Pointer
  <1>2. Redirected(adapterCon, adapterCon', d, None) /\ adapterCon[d] = s
    BY <1>0, <1>1 DEF Redirected, Pointer
  <1>3. /\ Adds(To("socket", adapterCon'), To("socket", adapterCon), a)
        /\ Adds(From("plug", adapterCon'), From("plug", adapterCon), b)
    BY <1>2, EdgeReset
  <1>4. a[1] = "socket" /\ b[1] = "plug"
    BY DEF Edge
  <1> HIDE DEF a, b
  <1>5. \A e \in {a, b} : /\ e \notin EventEdges(mDestinationIds) /\ e \notin To("data", connDI)
                          /\ e \notin To("in", dioIn) /\ e \notin From("out", dioIn)
    BY <1>4, EventKind, PointerKind
  <1>6. a \notin From("plug", adapterCon) /\ b \notin To("socket", adapterCon)
    BY <1>4, PointerKind
  <1>7. Edges' = Edges \ {a, b}
    <2>1. To("socket", adapterCon') = To("socket", adapterCon) \ {a} /\ From("plug", adapterCon') = From("plug", adapterCon) \ {b}
      BY <1>3 DEF Adds
    <2>2. Edges' = EventEdges(mDestinationIds) \cup To("data", connDI)
                   \cup (To("socket", adapterCon) \ {a}) \cup (From("plug", adapterCon) \ {b})
                   \cup To("in", dioIn) \cup From("out", dioIn)
      BY <1>0, <2>1, EdgesChange
    <2> QED BY <1>5, <1>6, <2>2, EdgesAre
  <1>8. {a, b} \subseteq Edges /\ {a, b} \in Graph!Connection(s, d)
    BY <1>3, EdgesAre DEF a, b, Edge, Adds, Graph!Connection
  <1> QED BY <1>0, <1>7, <1>8, IsDisconnect

LEMMA ConnectInOutGraph ==
    ASSUME ExactInv, NEW s \in FB, NEW d \in FB, connectInOut(s, d)
    PROVE  Graph!Connect
  <1> DEFINE a == Edge("in", d, s)
             b == Edge("out", s, d)
  <1>0. /\ s \in live /\ d \in live /\ dioIn[d] = None /\ live' = live
        /\ dioIn' = [dioIn EXCEPT ![d] = s]
        /\ UNCHANGED <<mDestinationIds, connDI, adapterCon>>
    BY DEF connectInOut, live
  <1>1. dioIn \in Pointer
    BY DEF ExactInv, TypeInv, TypeOK, Pointer
  <1>2. Redirected(dioIn, dioIn', d, s) /\ dioIn[d] = None
    BY <1>0, <1>1 DEF Redirected, Pointer
  <1>3. /\ Adds(To("in", dioIn), To("in", dioIn'), a)
        /\ Adds(From("out", dioIn), From("out", dioIn'), b)
    BY <1>2, EdgeSet
  <1>4. a[1] = "in" /\ b[1] = "out"
    BY DEF Edge
  <1> HIDE DEF a, b
  <1>5. Edges' = Edges \cup {a, b}
    BY <1>0, <1>3, EdgesAre, EdgesChange DEF Adds
  <1>6. a \notin Edges /\ b \notin Edges
    BY <1>3, <1>4, OfKind DEF Adds
  <1>7. {a, b} \in Graph!Connection(s, d)
    BY DEF a, b, Edge, Graph!Connection
  <1> QED BY <1>0, <1>5, <1>6, <1>7, IsConnect

LEMMA DisconnectInOutGraph ==
    ASSUME ExactInv, NEW s \in FB, NEW d \in FB, disconnectInOut(s, d)
    PROVE  Graph!Disconnect
  <1> DEFINE a == Edge("in", d, s)
             b == Edge("out", s, d)
  <1>0. /\ s \in live /\ d \in live /\ dioIn[d] = s /\ live' = live
        /\ dioIn' = [dioIn EXCEPT ![d] = None]
        /\ UNCHANGED <<mDestinationIds, connDI, adapterCon>>
    BY DEF disconnectInOut, live
  <1>1. dioIn \in Pointer
    BY DEF ExactInv, TypeInv, TypeOK, Pointer
  <1>2. Redirected(dioIn, dioIn', d, None) /\ dioIn[d] = s
    BY <1>0, <1>1 DEF Redirected, Pointer
  <1>3. /\ Adds(To("in", dioIn'), To("in", dioIn), a)
        /\ Adds(From("out", dioIn'), From("out", dioIn), b)
    BY <1>2, EdgeReset
  <1>4. a[1] = "in" /\ b[1] = "out"
    BY DEF Edge
  <1> HIDE DEF a, b
  <1>5. \A e \in {a, b} : /\ e \notin EventEdges(mDestinationIds) /\ e \notin To("data", connDI)
                          /\ e \notin To("socket", adapterCon) /\ e \notin From("plug", adapterCon)
    BY <1>4, EventKind, PointerKind
  <1>6. a \notin From("out", dioIn) /\ b \notin To("in", dioIn)
    BY <1>4, PointerKind
  <1>7. Edges' = Edges \ {a, b}
    <2>1. To("in", dioIn') = To("in", dioIn) \ {a} /\ From("out", dioIn') = From("out", dioIn) \ {b}
      BY <1>3 DEF Adds
    <2>2. Edges' = EventEdges(mDestinationIds) \cup To("data", connDI)
                   \cup To("socket", adapterCon) \cup From("plug", adapterCon)
                   \cup (To("in", dioIn) \ {a}) \cup (From("out", dioIn) \ {b})
      BY <1>0, <2>1, EdgesChange
    <2> QED BY <1>5, <1>6, <2>2, EdgesAre
  <1>8. {a, b} \subseteq Edges /\ {a, b} \in Graph!Connection(s, d)
    BY <1>3, EdgesAre DEF a, b, Edge, Adds, Graph!Connection
  <1> QED BY <1>0, <1>7, <1>8, IsDisconnect

\* A block that is deleted is not pointed to, and only its own pointers go.
LEMMA DeleteGraph ==
    ASSUME ExactInv, CountFits, NEW f \in FB, deleteFB(f)
    PROVE  Graph!Delete(f)
  <1> DEFINE Kept(A) == {e \in A : e[2] # f}
             m == mDestinationIds'
             c == connDI'
  <1>t. /\ mDestinationIds \in [FB -> Seq(FB)] /\ connDI \in Pointer
        /\ adapterCon \in Pointer /\ dioIn \in Pointer /\ None \notin FB
        /\ life \in [FB -> {"new", "live", "deleted"}]
    BY ConnectionsAssumption DEF ExactInv, TypeInv, TypeOK, Pointer
  <1>1. /\ \A x \in FB : ~ HasEvent(x, f) /\ connDI[x] # f /\ adapterCon[x] # f /\ dioIn[x] # f
        /\ adapterCon[f] = None /\ dioIn[f] = None
    BY DeletableIsFree DEF deleteFB
  <1>2. adapterCon' = adapterCon /\ dioIn' = dioIn
    BY <1>1, <1>t DEF deleteFB, freeInterface, Pointer
  <1>3. /\ m = [mDestinationIds EXCEPT ![f] = <<>>]
        /\ c = [connDI EXCEPT ![f] = None]
    BY DEF deleteFB, freeInterface
  <1>4. f \in live /\ live' = live \ {f}
    BY <1>t DEF deleteFB, live
  <1>5. /\ m \in [FB -> Seq(FB)]
        /\ \A x, y \in FB : Has(m[x], y) <=> Has(mDestinationIds[x], y) /\ x # f
    <2>1. <<>> \in Seq(FB) /\ \A y : ~ Has(<<>>, y)
      BY DEF Has
    <2> QED BY <1>3, <1>t, <2>1
  <1>6. c[f] = None /\ \A x \in FB \ {f} : c[x] = connDI[x]
    BY <1>3, <1>t DEF Pointer
  <1> HIDE DEF m, c
  <1>7. EventEdges(m) = Kept(EventEdges(mDestinationIds)) /\ \A e \in EventEdges(mDestinationIds) : e[3] # f
    <2> DEFINE T == {"event"} \X FB \X FB
    <2>1. /\ EventEdges(mDestinationIds) = {e \in T : Has(mDestinationIds[e[2]], e[3])}
          /\ EventEdges(m) = {e \in T : Has(m[e[2]], e[3])}
      BY <1>5, <1>t, EventEdgesAre
    <2>2. \A e \in T : e[2] \in FB /\ e[3] \in FB
      OBVIOUS
    <2>3. \A x \in FB : ~ Has(mDestinationIds[x], f)
      BY <1>1 DEF Has, HasEvent
    <2> HIDE DEF T
    <2>4. \A e \in T : Has(m[e[2]], e[3]) <=> Has(mDestinationIds[e[2]], e[3]) /\ e[2] # f
      BY <1>5, <2>2
    <2> QED BY <2>1, <2>2, <2>3, <2>4
  <1>8. To("data", c) = Kept(To("data", connDI)) /\ \A e \in To("data", connDI) : e[3] # f
    BY <1>1, <1>6 DEF To
  <1>9. ASSUME NEW h \in {adapterCon, dioIn}, NEW kind
        PROVE  /\ To(kind, h) = Kept(To(kind, h)) /\ \A e \in To(kind, h) : e[3] # f
               /\ From(kind, h) = Kept(From(kind, h)) /\ \A e \in From(kind, h) : e[3] # f
    <2>1. h[f] = None /\ \A x \in FB : h[x] # f
      BY <1>1
    <2>2. \A e \in To(kind, h) : e[2] # f /\ e[3] # f
      BY <2>1 DEF To
    <2>3. \A e \in From(kind, h) : e[2] # f /\ e[3] # f
      BY <2>1 DEF From
    <2> QED BY <2>2, <2>3
  <1>10. /\ To("socket", adapterCon) = Kept(To("socket", adapterCon))
         /\ From("plug", adapterCon) = Kept(From("plug", adapterCon))
         /\ To("in", dioIn) = Kept(To("in", dioIn)) /\ From("out", dioIn) = Kept(From("out", dioIn))
         /\ \A e \in To("socket", adapterCon) \cup From("plug", adapterCon)
                     \cup To("in", dioIn) \cup From("out", dioIn) : e[3] # f
    BY <1>9
  <1>11. \A e \in Edges : e[3] # f
    BY <1>7, <1>8, <1>10, EdgesAre
  <1>12. Edges' = Kept(Edges)
    <2>1. Edges' = EventEdges(m) \cup To("data", c)
                   \cup To("socket", adapterCon) \cup From("plug", adapterCon)
                   \cup To("in", dioIn) \cup From("out", dioIn)
      BY <1>2, EdgesChange DEF m, c
    <2> QED BY <2>1, <1>7, <1>8, <1>10, EdgesAre
  <1> QED BY <1>4, <1>11, <1>12 DEF Graph!Delete

\* A step that leaves the pointers alone leaves the edges alone.
LEMMA SameEdges ==
    ASSUME UNCHANGED pointers
    PROVE  Edges' = Edges
  BY DEF pointers, Edges

LEMMA InitGraph == Init => Graph!Init
  <1> SUFFICES ASSUME Init PROVE Graph!Init
    OBVIOUS
  <1>1. live = {}
    BY DEF Init, live
  <1>2. EventEdges(mDestinationIds) = {}
    BY DEF Init, EventEdges
  <1>3. /\ To("data", connDI) = {}
        /\ To("socket", adapterCon) = {} /\ From("plug", adapterCon) = {}
        /\ To("in", dioIn) = {} /\ From("out", dioIn) = {}
    BY DEF Init, To, From
  <1>4. Edges = {}
    BY <1>2, <1>3, EdgesAre
  <1> QED BY <1>1, <1>4 DEF Graph!Init

LEMMA StepIsGraphStep ==
    CountFits /\ Careful => (ExactInv /\ [Next]_vars => [Graph!Next]_<<live, Edges>>)
  <1> SUFFICES ASSUME CountFits, Careful, ExactInv, [Next]_vars
               PROVE  Graph!Next \/ (live' = live /\ Edges' = Edges)
    BY Zenon
  <1>1. ASSUME NEW f \in FB, createFB(f) PROVE Graph!Create(f)
    <2>1. f \notin live /\ live' = live \cup {f} /\ UNCHANGED pointers
      BY <1>1 DEF createFB, live, ExactInv, TypeInv, TypeOK
    <2> QED BY <2>1, SameEdges DEF Graph!Create
  <1>2. ASSUME NEW f \in FB, deleteFB(f) PROVE Graph!Delete(f)
    BY <1>2, DeleteGraph
  <1>3. ASSUME NEW f \in FB, NEW c \in StateCommands, changeExecutionState(f, c)
        PROVE  live' = live /\ Edges' = Edges
    <2>1. live' = live /\ UNCHANGED pointers
      BY <1>3 DEF changeExecutionState, live
    <2> QED BY <2>1, SameEdges
  <1>4. ASSUME NEW s \in FB, NEW d \in FB,
               \/ connectEvent(s, d)   \/ disconnectEvent(s, d)
               \/ connectData(s, d)    \/ deleteDataConnection(s, d)
               \/ connectAdapter(s, d) \/ disconnectAdapter(s, d)
               \/ connectInOut(s, d)   \/ disconnectInOut(s, d)
        PROVE  Graph!Connect \/ Graph!Disconnect
    BY <1>4, ConnectEventGraph, DisconnectEventGraph, ConnectDataGraph, DisconnectDataGraph,
       ConnectAdapterGraph, DisconnectAdapterGraph, ConnectInOutGraph, DisconnectInOutGraph
  <1>5. ASSUME UNCHANGED vars PROVE live' = live /\ Edges' = Edges
    <2>1. live' = live /\ UNCHANGED pointers
      BY <1>5 DEF vars, live
    <2> QED BY <2>1, SameEdges
  <1> QED BY <1>1, <1>2, <1>3, <1>4, <1>5 DEF Next, Graph!Next

\* Under the same conditions the resource is a graph of blocks: a connect or disconnect command
\* adds or removes the pointers of one connection between live blocks, and deleteFB only takes a
\* block that no other points to, with its own pointers and no others.
THEOREM ConnectionsImplementGraph ==
    CountFits /\ Careful => (Spec /\ [][ShortDelete]_vars => ImplementsGraph)
  <1> SUFFICES ASSUME CountFits, Careful PROVE Spec /\ [][ShortDelete]_vars => ImplementsGraph
    OBVIOUS
  <1>1. Init => Graph!Init
    BY InitGraph
  <1>2. ExactInv /\ [Next]_vars => [Graph!Next]_<<live, Edges>>
    BY StepIsGraphStep
  <1>3. Spec /\ [][ShortDelete]_vars => []ExactInv
    BY ConnectionsExact
  <1> QED BY <1>1, <1>2, <1>3, PTL DEF Spec, ImplementsGraph, Graph!Spec

-----------------------------------------------------------------------------
(* Applications with at most two destinations at an event output *)

ListsBounded == \A f \in FB : Len(mDestinationIds[f]) <= MaxDestinations

LEMMA StepKeepsBound ==
    ASSUME Careful, TypeInv, ListsBounded, [Next]_vars
    PROVE  ListsBounded'
  <1>t. mDestinationIds \in [FB -> Seq(FB)] /\ DistinctDestinations /\ MaxDestinations \in Nat
    BY ConnectionsAssumption DEF TypeInv, TypeOK
  <1>1. ASSUME NEW s \in FB, NEW d \in FB, connectEvent(s, d) PROVE ListsBounded'
    <2>1. /\ ~ HasEvent(s, d) /\ Len(mDestinationIds[s]) < MaxDestinations
          /\ mDestinationIds' = [mDestinationIds EXCEPT ![s] = Append(mDestinationIds[s], d)]
      BY <1>1 DEF connectEvent
    <2>2. mDestinationIds[s] \in Seq(FB) /\ Len(mDestinationIds[s]) \in Nat
      BY <1>t, LenProperties
    <2>3. Len(Append(mDestinationIds[s], d)) <= MaxDestinations
      BY <1>t, <2>1, <2>2
    <2> QED BY <1>t, <2>1, <2>3 DEF ListsBounded
  <1>2. ASSUME NEW s \in FB, NEW d \in FB, disconnectEvent(s, d) PROVE ListsBounded'
    <2> DEFINE list == mDestinationIds[s]
               r == removeDestination(list, d)
    <2>1. /\ HasEvent(s, d)
          /\ mDestinationIds' = [mDestinationIds EXCEPT ![s] = r]
      BY <1>2 DEF disconnectEvent
    <2>2. list \in Seq(FB) /\ Len(list) \in Nat /\ Distinct(list)
      BY <1>t, LenProperties DEF DistinctDestinations
    <2>3. PICK p \in 1 .. Len(list) : list[p] = d
      BY <2>1 DEF HasEvent
    <2>4. Len(r) = Len(list) - 1
      BY <2>2, <2>3, RemoveAtPlace
    <2>5. Len(r) <= MaxDestinations
      BY <1>t, <2>2, <2>4 DEF ListsBounded
    <2> QED BY <1>t, <2>1, <2>5 DEF ListsBounded
  <1>3. ASSUME NEW f \in FB, deleteFB(f) PROVE ListsBounded'
    <2>1. mDestinationIds' = [mDestinationIds EXCEPT ![f] = <<>>] /\ Len(<<>>) = 0
      BY <1>3 DEF deleteFB, freeInterface
    <2> QED BY <1>t, <2>1 DEF ListsBounded
  <1>4. ASSUME UNCHANGED mDestinationIds PROVE ListsBounded'
    BY <1>4 DEF ListsBounded
  <1>5. ASSUME NEW f \in FB, createFB(f) PROVE UNCHANGED mDestinationIds
    BY <1>5 DEF createFB, pointers
  <1>6. ASSUME NEW f \in FB, NEW c \in StateCommands, changeExecutionState(f, c)
        PROVE  UNCHANGED mDestinationIds
    BY <1>6 DEF changeExecutionState, pointers
  <1>7. ASSUME NEW s \in FB, NEW d \in FB,
               \/ connectData(s, d)    \/ deleteDataConnection(s, d)
               \/ connectAdapter(s, d) \/ disconnectAdapter(s, d)
               \/ connectInOut(s, d)   \/ disconnectInOut(s, d)
        PROVE  UNCHANGED mDestinationIds
    BY <1>7 DEF connectData, deleteDataConnection, connectAdapter, disconnectAdapter,
                connectInOut, disconnectInOut
  <1>8. ASSUME UNCHANGED vars PROVE UNCHANGED mDestinationIds
    BY <1>8 DEF vars, pointers
  <1> QED BY <1>1, <1>2, <1>3, <1>4, <1>5, <1>6, <1>7, <1>8 DEF Next

\* With at most two destinations at every event output nothing needs to be assumed about the
\* deletions: counts are exact, and the blocks are a graph from which only unreferenced ones
\* leave, for any number of blocks and any order of the commands.
THEOREM SmallFanOutIsSafe ==
    CountFits /\ Careful /\ MaxDestinations <= 2 => (Spec => []CountIsExact /\ ImplementsGraph)
  <1> SUFFICES ASSUME CountFits, Careful, MaxDestinations <= 2
               PROVE  Spec => []CountIsExact /\ ImplementsGraph
    OBVIOUS
  <1>1. Init => ListsBounded
    BY ConnectionsAssumption DEF Init, ListsBounded
  <1>2. TypeInv /\ ListsBounded /\ [Next]_vars => ListsBounded'
    BY StepKeepsBound
  <1>3. TypeInv /\ ListsBounded => ShortDelete
    <2> SUFFICES ASSUME TypeInv, ListsBounded, NEW f \in FB PROVE Len(mDestinationIds[f]) <= 2
      BY DEF ShortDelete
    <2>1. Len(mDestinationIds[f]) \in Nat
      BY LenProperties DEF TypeInv, TypeOK
    <2> QED BY <2>1, ConnectionsAssumption DEF ListsBounded
  <1>4. Spec => []TypeInv
    BY ConnectionsInductive
  <1>5. Spec => [][ShortDelete]_vars
    BY <1>1, <1>2, <1>3, <1>4, PTL DEF Spec
  <1>6. Spec /\ [][ShortDelete]_vars => []CountIsExact
    BY ConnectionsCountIsExact
  <1>7. Spec /\ [][ShortDelete]_vars => ImplementsGraph
    BY ConnectionsImplementGraph
  <1> QED BY <1>5, <1>6, <1>7, PTL

=============================================================================
