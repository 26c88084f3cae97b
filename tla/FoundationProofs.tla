-------------------------- MODULE FoundationProofs --------------------------
(***************************************************************************)
(* Proofs about the two parts everything that executes is built from.      *)
(*                                                                         *)
(* The ring buffer, for every number of slots and every width of the       *)
(* indices: first the modular arithmetic of the wrapping indices, then the *)
(* invariant, then the refinement of BoundedFifo.                          *)
(*                                                                         *)
(* The thread object: CThreadBase never has two unfinished threads, for    *)
(* every number of controlling threads, of calls and of threads created.   *)
(***************************************************************************)
EXTENDS RingBuffer, ForteThread, SequenceTheorems, TLAPS

-----------------------------------------------------------------------------
(* Modular arithmetic *)

\* Division with remainder.
LEMMA Division ==
    ASSUME NEW a \in Int, NEW m \in Nat \ {0}
    PROVE  /\ a % m \in 0 .. m - 1
           /\ \E q \in Int : a = q * m + (a % m)
  <1>1. a % m \in 0 .. m - 1
    OBVIOUS
  <1>2. a \div m \in Int
    OBVIOUS
  <1>3. a = (a \div m) * m + (a % m)
    OBVIOUS
  <1> QED BY <1>1, <1>2, <1>3

\* A number determines its remainder.
LEMMA ModUnique ==
    ASSUME NEW a \in Int, NEW m \in Nat \ {0}, NEW q \in Int, NEW r \in 0 .. m - 1,
           a = q * m + r
    PROVE  a % m = r
  OBVIOUS

\* Whole multiples of the modulus do not change a remainder.
LEMMA ModShift ==
    ASSUME NEW a \in Int, NEW m \in Nat \ {0}, NEW k \in Int
    PROVE  (a + k * m) % m = a % m
  <1> DEFINE r == a % m
  <1>1. PICK q \in Int : r \in 0 .. m - 1 /\ a = q * m + r
    BY Division
  <1> HIDE DEF r
  <1>2. a + k * m = (q + k) * m + r
    BY <1>1
  <1>3. (a + k * m) % m = r
    BY <1>1, <1>2, ModUnique
  <1> QED BY <1>3 DEF r

\* Equal indices are zero elements apart.
LEMMA ZeroMod == 0 % IndexMod = 0
  <1>1. 0 = 0 * IndexMod + 0 /\ 0 \in 0 .. IndexMod - 1 /\ IndexMod \in Nat \ {0}
    BY RingAssumption
  <1> QED BY <1>1, ModUnique

\* There are at least as many index values as slots.
LEMMA SizeFits == Size <= IndexMod
  <1>1. PICK k \in 1 .. IndexMod : IndexMod = k * Size
    BY RingAssumption
  <1>2. k >= 1
    BY <1>1
  <1> QED BY <1>1, <1>2, RingAssumption

\* The free-running index and its wrapped value select the same slot.
LEMMA MaskOfWrapped ==
    ASSUME NEW a \in Int
    PROVE  Masked(a % IndexMod) = Masked(a)
  <1> USE RingAssumption
  <1>1. PICK k \in 1 .. IndexMod : IndexMod = k * Size
    BY RingAssumption
  <1> DEFINE r == a % IndexMod
  <1>2. PICK q \in Int : r \in 0 .. IndexMod - 1 /\ a = q * IndexMod + r
    BY Division
  <1> HIDE DEF r
  <1>3. a = r + (q * k) * Size
    BY <1>1, <1>2
  <1>4. (r + (q * k) * Size) % Size = r % Size
    <2> DEFINE n == q * k
    <2>1. n \in Int /\ r \in Int /\ Size \in Nat \ {0}
      BY <1>1, <1>2
    <2> HIDE DEF n
    <2>2. (r + n * Size) % Size = r % Size
      BY <2>1, ModShift
    <2> QED BY <2>2 DEF n
  <1> QED BY <1>3, <1>4 DEF Masked, r

\* Two indices less than Size apart select different slots.
LEMMA MaskDistinct ==
    ASSUME NEW a \in Int, NEW d \in 1 .. Size - 1
    PROVE  Masked(a) # Masked(a + d)
  <1> USE RingAssumption
  <1> SUFFICES ASSUME a % Size = (a + d) % Size PROVE FALSE
    BY DEF Masked
  <1> DEFINE r == a % Size
  <1>1. PICK q1 \in Int : r \in 0 .. Size - 1 /\ a = q1 * Size + r
    BY Division
  <1>2. PICK q2 \in Int : a + d = q2 * Size + r
    <2>1. a + d \in Int
      OBVIOUS
    <2> QED BY <2>1, Division
  <1> HIDE DEF r
  <1>3. d = (q2 - q1) * Size
    BY <1>1, <1>2
  <1>4. CASE q2 - q1 <= 0
    BY <1>1, <1>3, <1>4
  <1>5. CASE q2 - q1 >= 1
    BY <1>1, <1>3, <1>5
  <1> QED BY <1>1, <1>4, <1>5

-----------------------------------------------------------------------------
(* The indices *)

\* The push index is the pop index advanced by the number of stored elements, up to
\* whole wraps.
LEMMA PushIndex ==
    ASSUME mPopIndex \in Index, mPushIndex \in Index
    PROVE  /\ Count \in 0 .. IndexMod - 1
           /\ \E q \in Int : mPushIndex = mPopIndex + Count + q * IndexMod
           /\ mPushIndex = Plus(mPopIndex, Count)
           /\ Masked(mPushIndex) = Masked(mPopIndex + Count)
  <1> USE RingAssumption DEF Index
  <1> DEFINE d == mPushIndex - mPopIndex
             c == d % IndexMod
  <1>1. PICK q \in Int : c \in 0 .. IndexMod - 1 /\ d = q * IndexMod + c
    <2>1. d \in Int
      OBVIOUS
    <2> QED BY <2>1, Division
  <1>2. Count = c
    BY DEF Count
  <1> HIDE DEF c
  <1>3. mPushIndex = mPopIndex + c + q * IndexMod
    BY <1>1
  <1>4. mPushIndex = Plus(mPopIndex, c)
    <2>1. mPopIndex + c = (-q) * IndexMod + mPushIndex
      BY <1>1, <1>3
    <2>2. (mPopIndex + c) % IndexMod = mPushIndex
      BY <1>1, <2>1, ModUnique
    <2> QED BY <2>2 DEF Plus
  <1>5. Masked(mPushIndex) = Masked(mPopIndex + c)
    BY <1>1, <1>4, MaskOfWrapped DEF Plus
  <1> QED BY <1>1, <1>2, <1>3, <1>4, <1>5

\* If the push index is the pop index advanced by n, the ring holds n elements.
LEMMA CountIs ==
    ASSUME NEW p \in Index, NEW u \in Index, NEW n \in 0 .. IndexMod - 1,
           u = Plus(p, n)
    PROVE  (u - p) % IndexMod = n
  <1> USE RingAssumption DEF Index
  <1>1. PICK q \in Int : p + n = q * IndexMod + u
    <2>1. p + n \in Int
      OBVIOUS
    <2> QED BY <2>1, Division DEF Plus
  <1>2. u - p = (-q) * IndexMod + n
    BY <1>1
  <1>3. u - p \in Int /\ -q \in Int
    BY <1>1
  <1> QED BY <1>2, <1>3, ModUnique

\* Adding n after an already wrapped addition of k is adding k + n.
LEMMA PlusPlus ==
    ASSUME NEW i \in Int, NEW k \in Int, NEW n \in Int
    PROVE  Plus(Plus(i, k), n) = Plus(i, k + n)
  <1> USE RingAssumption
  <1> DEFINE w == (i + k) % IndexMod
  <1>1. PICK q \in Int : w \in 0 .. IndexMod - 1 /\ i + k = q * IndexMod + w
    <2>1. i + k \in Int
      OBVIOUS
    <2> QED BY <2>1, Division
  <1> HIDE DEF w
  <1>2. i + (k + n) = (w + n) + q * IndexMod
    BY <1>1
  <1>3. ((w + n) + q * IndexMod) % IndexMod = (w + n) % IndexMod
    <2>1. w + n \in Int
      BY <1>1
    <2> QED BY <1>1, <2>1, ModShift
  <1> QED BY <1>2, <1>3 DEF Plus, w

-----------------------------------------------------------------------------
(* The invariant *)

\* isFull tells exactly when Size - 1 elements are stored, isEmpty when none is.
LEMMA FullAndEmpty ==
    ASSUME RingInv
    PROVE  /\ Count \in 0 .. Size - 1
           /\ isFull <=> Count = Size - 1
           /\ isEmpty <=> Count = 0
  <1> USE RingAssumption DEF RingInv
  <1>0. Size <= IndexMod
    BY SizeFits
  <1>1. /\ Count \in 0 .. IndexMod - 1
        /\ mPushIndex = Plus(mPopIndex, Count)
    BY PushIndex
  <1>2. isFull => Count = Size - 1
    <2>1. Size - 1 \in 0 .. IndexMod - 1
      BY <1>0
    <2> QED BY <2>1, CountIs DEF isFull, Count
  <1>3. isEmpty => Count = 0
    <2>1. ASSUME isEmpty PROVE mPushIndex - mPopIndex = 0 * IndexMod + 0
      BY <2>1 DEF isEmpty, Index
    <2>2. ASSUME isEmpty PROVE (mPushIndex - mPopIndex) % IndexMod = 0
      <3>1. mPushIndex - mPopIndex \in Int /\ 0 \in 0 .. IndexMod - 1 /\ IndexMod \in Nat \ {0}
        BY DEF Index
      <3> QED BY <2>1, <2>2, <3>1, ModUnique
    <2> QED BY <2>2 DEF Count
  <1>4. Count = 0 => isEmpty
    <2>1. ASSUME Count = 0 PROVE mPushIndex = mPopIndex
      <3>1. mPushIndex = mPopIndex % IndexMod
        BY <1>1, <2>1 DEF Plus, Index
      <3>2. mPopIndex = 0 * IndexMod + mPopIndex
        BY DEF Index
      <3>3. mPopIndex % IndexMod = mPopIndex
        <4>1. mPopIndex \in Int /\ mPopIndex \in 0 .. IndexMod - 1 /\ IndexMod \in Nat \ {0}
          BY DEF Index
        <4> QED BY <3>2, <4>1, ModUnique
      <3> QED BY <3>1, <3>3
    <2> QED BY <2>1 DEF isEmpty
  <1> QED BY <1>1, <1>2, <1>3, <1>4 DEF isFull

\* A push on a list that is not full stores one more element.
LEMMA PushCount ==
    ASSUME RingInv, ~isFull, mPushIndex' = Plus(mPushIndex, 1), mPopIndex' = mPopIndex
    PROVE  mPushIndex' \in Index /\ Count' = Count + 1 /\ Count + 1 <= Size - 1
  <1> USE RingAssumption DEF RingInv
  <1>1. Count \in 0 .. Size - 1 /\ Count # Size - 1
    BY FullAndEmpty
  <1>2. mPushIndex = Plus(mPopIndex, Count) /\ Count \in 0 .. IndexMod - 1
    BY PushIndex
  <1>3. mPushIndex' = Plus(mPopIndex, Count + 1)
    <2>1. mPopIndex \in Int /\ Count \in Int
      BY <1>2 DEF Index
    <2> QED BY <1>2, <2>1, PlusPlus
  <1>4. Size <= IndexMod
    BY SizeFits
  <1>5. Count + 1 \in 0 .. IndexMod - 1
    BY <1>1, <1>4
  <1>6. mPushIndex' \in Index
    <2>1. mPushIndex + 1 \in Int /\ IndexMod \in Nat \ {0}
      BY DEF Index
    <2> QED BY <2>1, Division DEF Plus, Index
  <1>7. (mPushIndex' - mPopIndex) % IndexMod = Count + 1
    BY <1>3, <1>5, <1>6, CountIs
  <1> QED BY <1>1, <1>6, <1>7 DEF Count

\* A pop from a list that is not empty leaves one element less.
LEMMA PopCount ==
    ASSUME RingInv, ~isEmpty, mPopIndex' = Plus(mPopIndex, 1), mPushIndex' = mPushIndex
    PROVE  mPopIndex' \in Index /\ Count' = Count - 1 /\ Count >= 1
  <1> USE RingAssumption DEF RingInv
  <1>1. Count \in 0 .. Size - 1 /\ Count # 0
    BY FullAndEmpty
  <1>2. mPushIndex = Plus(mPopIndex, Count) /\ Count \in 0 .. IndexMod - 1
    BY PushIndex
  <1>3. mPushIndex = Plus(mPopIndex', Count - 1)
    <2>1. mPopIndex \in Int /\ Count - 1 \in Int /\ 1 + (Count - 1) = Count
      BY <1>2 DEF Index
    <2>2. Plus(Plus(mPopIndex, 1), Count - 1) = Plus(mPopIndex, 1 + (Count - 1))
      BY <2>1, PlusPlus
    <2> QED BY <1>2, <2>1, <2>2
  <1>4. Count - 1 \in 0 .. IndexMod - 1
    BY <1>1, <1>2
  <1>5. mPopIndex' \in Index
    <2>1. mPopIndex + 1 \in Int /\ IndexMod \in Nat \ {0}
      BY DEF Index
    <2> QED BY <2>1, Division DEF Plus, Index
  <1>6. (mPushIndex - mPopIndex') % IndexMod = Count - 1
    BY <1>3, <1>4, <1>5, CountIs
  <1> QED BY <1>1, <1>5, <1>6 DEF Count

\* The invariant of the ring: the indices stay in range and at most Size - 1 apart.
THEOREM RingSafe == RingSpec => []RingInv
  <1> USE RingAssumption
  <1>1. RingInit => RingInv
    <2> SUFFICES ASSUME RingInit PROVE RingInv
      OBVIOUS
    <2>1. Count = 0
      BY ZeroMod DEF RingInit, Count
    <2> QED BY <2>1 DEF RingInit, RingInv, Index, Slot, Elems
  <1>2. RingInv /\ [RingNext]_ringVars => RingInv'
    <2> SUFFICES ASSUME RingInv, [RingNext]_ringVars PROVE RingInv'
      OBVIOUS
    <2>1. CASE Pop
      <3>1. CASE isEmpty
        BY <2>1, <3>1 DEF Pop, RingInv, Count
      <3>2. CASE ~isEmpty
        <4>1. mPopIndex' \in Index /\ Count' = Count - 1 /\ Count >= 1
          BY <2>1, <3>2, PopCount DEF Pop
        <4>2. Count \in 0 .. Size - 1
          BY FullAndEmpty
        <4> QED BY <2>1, <3>2, <4>1, <4>2 DEF Pop, RingInv
      <3> QED BY <3>1, <3>2
    <2>2. CASE Clear
      <3>1. Count' = 0
        BY <2>2, ZeroMod DEF Clear, Count
      <3> QED BY <2>2, <3>1 DEF Clear, RingInv, Index
    <2>3. ASSUME NEW e \in Elem, Push(e) PROVE RingInv'
      <3>1. CASE isFull
        BY <2>3, <3>1 DEF Push, RingInv, Count
      <3>2. CASE ~isFull
        <4>1. mPushIndex' \in Index /\ Count' = Count + 1 /\ Count + 1 <= Size - 1
          BY <2>3, <3>2, PushCount DEF Push
        <4>2. mData' \in [Slot -> Elems]
          BY <2>3, <3>2 DEF Push, RingInv, Elems
        <4> QED BY <2>3, <3>2, <4>1, <4>2 DEF Push, RingInv
      <3> QED BY <3>1, <3>2
    <2>4. CASE UNCHANGED ringVars
      BY <2>4 DEF ringVars, RingInv, Count
    <2> QED BY <2>1, <2>2, <2>3, <2>4 DEF RingNext
  <1> QED BY <1>1, <1>2, PTL DEF RingSpec

-----------------------------------------------------------------------------
(* The refinement *)

\* The mapped list is a sequence of Count elements.
LEMMA ItemsIsSeq ==
    ASSUME RingInv
    PROVE  /\ Items \in Seq(Elems)
           /\ Len(Items) = Count
           /\ \A i \in 1 .. Count : Items[i] = mData[Masked(mPopIndex + i - 1)]
  <1> USE RingAssumption
  <1>1. Count \in Nat
    BY FullAndEmpty
  <1>2. \A i \in 1 .. Count : mData[Masked(mPopIndex + i - 1)] \in Elems
    <2> SUFFICES ASSUME NEW i \in 1 .. Count
                 PROVE  mData[Masked(mPopIndex + i - 1)] \in Elems
      OBVIOUS
    <2>1. mPopIndex + i - 1 \in Int /\ Size \in Nat \ {0}
      BY <1>1 DEF RingInv, Index
    <2>2. Masked(mPopIndex + i - 1) \in Slot
      BY <2>1, Division DEF Masked, Slot
    <2> QED BY <2>2 DEF RingInv
  <1> QED BY <1>1, <1>2 DEF Items

\* A push that succeeds appends to the list: no stored element is overwritten.
LEMMA PushAppends ==
    ASSUME RingInv, RingInv', NEW e \in Elem, Push(e), ~isFull
    PROVE  Items' = Append(Items, e)
  <1> USE RingAssumption
  <1>1. Count \in Nat /\ Count <= Size - 1
    BY FullAndEmpty
  <1>2. Count' = Count + 1 /\ Count + 1 <= Size - 1
    BY PushCount DEF Push
  <1>3. Masked(mPushIndex) = Masked(mPopIndex + Count)
    BY PushIndex DEF RingInv
  <1>4. mData' = [mData EXCEPT ![Masked(mPopIndex + Count)] = e] /\ mPopIndex' = mPopIndex
    BY <1>3 DEF Push
  <1>5. \A i \in 1 .. Count : mData'[Masked(mPopIndex + i - 1)] = mData[Masked(mPopIndex + i - 1)]
    <2> SUFFICES ASSUME NEW i \in 1 .. Count
                 PROVE  mData'[Masked(mPopIndex + i - 1)] = mData[Masked(mPopIndex + i - 1)]
      OBVIOUS
    <2> DEFINE a == mPopIndex + i - 1
               d == Count - i + 1
    <2>1. a \in Int /\ d \in 1 .. Size - 1 /\ a + d = mPopIndex + Count
      BY <1>1 DEF RingInv, Index
    <2>2. Masked(a) # Masked(a + d)
      BY <2>1, MaskDistinct
    <2>3. Masked(a) \in Slot
      BY <2>1, Division DEF Masked, Slot
    <2> QED BY <1>4, <2>1, <2>2, <2>3 DEF RingInv
  <1>6. mData'[Masked(mPopIndex + Count)] = e
    <2>1. mPopIndex + Count \in Int
      BY <1>1 DEF RingInv, Index
    <2>2. Masked(mPopIndex + Count) \in Slot
      BY <2>1, Division DEF Masked, Slot
    <2> QED BY <1>4, <2>2 DEF RingInv
  <1>7. Items' = [i \in 1 .. Count + 1 |-> mData'[Masked(mPopIndex + i - 1)]]
    BY <1>2, <1>4 DEF Items
  <1>8. mPopIndex + (Count + 1) - 1 = mPopIndex + Count
    BY <1>1 DEF RingInv, Index
  <1>9. Items \in Seq(Elems) /\ Len(Items) = Count
        /\ \A i \in 1 .. Count : Items[i] = mData[Masked(mPopIndex + i - 1)]
    BY ItemsIsSeq
  <1>10. Append(Items, e) = [i \in 1 .. Count + 1 |-> IF i = Count + 1 THEN e ELSE Items[i]]
    <2> DEFINE t == Append(Items, e)
    <2>1. /\ t \in Seq(Elems) /\ Len(t) = Count + 1
          /\ \A i \in 1 .. Count : t[i] = Items[i]
          /\ t[Count + 1] = e
      BY <1>9, AppendProperties DEF Elems
    <2> HIDE DEF t
    <2>2. t = [i \in 1 .. Count + 1 |-> t[i]]
      BY <1>1, <2>1
    <2>3. \A i \in 1 .. Count + 1 : t[i] = IF i = Count + 1 THEN e ELSE Items[i]
      BY <1>1, <2>1
    <2>4. t = [i \in 1 .. Count + 1 |-> IF i = Count + 1 THEN e ELSE Items[i]]
      BY <2>2, <2>3
    <2> QED BY <2>4 DEF t
  <1>11. \A i \in 1 .. Count + 1 :
            mData'[Masked(mPopIndex + i - 1)] = (IF i = Count + 1 THEN e ELSE Items[i])
    BY <1>1, <1>5, <1>6, <1>8, <1>9
  <1> QED BY <1>7, <1>10, <1>11

\* A pop takes the first element off the list and returns it.
LEMMA PopTakesHead ==
    ASSUME RingInv, RingInv', Pop, ~isEmpty
    PROVE  Items # <<>> /\ Items' = Tail(Items) /\ ret' = Head(Items)
  <1> USE RingAssumption
  <1>1. Count \in Nat /\ Count >= 1 /\ Count' = Count - 1
    BY FullAndEmpty, PopCount DEF Pop
  <1>2. Items \in Seq(Elems) /\ Len(Items) = Count
        /\ \A i \in 1 .. Count : Items[i] = mData[Masked(mPopIndex + i - 1)]
    BY ItemsIsSeq
  <1>3. mPopIndex \in Int /\ mPopIndex + 1 - 1 = mPopIndex
    BY DEF RingInv, Index
  <1>4. ret' = Items[1]
    BY <1>1, <1>2, <1>3 DEF Pop
  <1>5. \A i \in 1 .. Count - 1 : mData'[Masked(mPopIndex' + i - 1)] = Items[i + 1]
    <2> SUFFICES ASSUME NEW i \in 1 .. Count - 1
                 PROVE  mData[Masked(mPopIndex' + i - 1)] = Items[i + 1]
      BY DEF Pop
    <2> DEFINE b == mPopIndex + 1
    <2>1. b \in Int /\ b + (i - 1) = mPopIndex + (i + 1) - 1
      BY <1>1, <1>3
    <2>2. mPopIndex' = Plus(mPopIndex, 1) /\ mPopIndex' \in Int
      BY DEF Pop, RingInv, Index
    <2>3. Masked(Plus(Plus(mPopIndex, 1), i - 1)) = Masked(mPopIndex' + i - 1)
      <3>1. mPopIndex' + i - 1 \in Int /\ mPopIndex' + (i - 1) = mPopIndex' + i - 1
        BY <2>2, <1>1
      <3> QED BY <2>2, <3>1, MaskOfWrapped DEF Plus
    <2>4. Plus(Plus(mPopIndex, 1), i - 1) = Plus(mPopIndex, i)
      <3>1. i - 1 \in Int /\ 1 + (i - 1) = i
        BY <1>1
      <3>2. Plus(Plus(mPopIndex, 1), i - 1) = Plus(mPopIndex, 1 + (i - 1))
        BY <1>3, <3>1, PlusPlus
      <3> QED BY <3>1, <3>2
    <2>5. Masked(Plus(mPopIndex, i)) = Masked(mPopIndex + i)
      <3>1. mPopIndex + i \in Int
        BY <1>1, <1>3
      <3> QED BY <3>1, MaskOfWrapped DEF Plus
    <2>6. Items[i + 1] = mData[Masked(mPopIndex + i)]
      <3>1. i + 1 \in 1 .. Count /\ mPopIndex + (i + 1) - 1 = mPopIndex + i
        BY <1>1, <1>3
      <3> QED BY <1>2, <3>1
    <2> QED BY <2>3, <2>4, <2>5, <2>6
  <1>6. Items' = [i \in 1 .. Count - 1 |-> mData'[Masked(mPopIndex' + i - 1)]]
    BY <1>1 DEF Items
  <1>7. Tail(Items) = [i \in 1 .. Count - 1 |-> Items[i + 1]]
    <2> DEFINE t == Tail(Items)
    <2>0. Items # <<>>
      BY <1>1, <1>2
    <2>1. /\ t \in Seq(Elems) /\ Len(t) = Count - 1
          /\ \A i \in 1 .. Count - 1 : t[i] = Items[i + 1]
      BY <1>2, <2>0, HeadTailProperties
    <2> HIDE DEF t
    <2>2. t = [i \in 1 .. Count - 1 |-> t[i]]
      BY <1>1, <2>1
    <2>3. t = [i \in 1 .. Count - 1 |-> Items[i + 1]]
      BY <2>1, <2>2
    <2> QED BY <2>3 DEF t
  <1>8. Items' = Tail(Items)
    BY <1>5, <1>6, <1>7
  <1> QED BY <1>1, <1>2, <1>4, <1>8

\* The list is empty exactly when the indices are equal, and full exactly when isFull.
LEMMA ItemsBounds ==
    ASSUME RingInv
    PROVE  /\ isEmpty <=> Items = <<>>
           /\ isFull <=> ~(Len(Items) < Size - 1)
  <1>1. Count \in Nat /\ Count <= Size - 1 /\ (isFull <=> Count = Size - 1)
        /\ (isEmpty <=> Count = 0)
    BY FullAndEmpty
  <1>2. Items \in Seq(Elems) /\ Len(Items) = Count
    BY ItemsIsSeq
  <1>3. Items = <<>> <=> Len(Items) = 0
    BY <1>2
  <1> QED BY <1>1, <1>2, <1>3, RingAssumption

\* CRingBuffer is a bounded FIFO list of capacity Size - 1, whatever the number of
\* slots and however often the indices have wrapped.
THEOREM RingImplementsFifo == RingSpec => ImplementsFifo
  <1> USE RingAssumption
  <1>1. RingInit => Fifo!Init
    <2> SUFFICES ASSUME RingInit PROVE Fifo!Init
      OBVIOUS
    <2>1. Count = 0
      BY ZeroMod DEF RingInit, Count
    <2>2. Items = <<>>
      BY <2>1 DEF Items
    <2> QED BY <2>2 DEF RingInit, Fifo!Init
  <1>2. RingInv /\ RingInv' /\ [RingNext]_ringVars => [Fifo!Next]_<<Items, ret>>
    <2> SUFFICES ASSUME RingInv, RingInv', [RingNext]_ringVars
                 PROVE  [Fifo!Next]_<<Items, ret>>
      OBVIOUS
    <2>1. CASE Pop
      <3>1. CASE isEmpty
        <4>1. Items = <<>> /\ Items' = Items
          BY <2>1, <3>1, ItemsBounds DEF Pop, Items, Count
        <4> QED BY <2>1, <3>1, <4>1 DEF Pop, Fifo!Next, Fifo!Pop
      <3>2. CASE ~isEmpty
        <4>1. Items # <<>> /\ Items' = Tail(Items) /\ ret' = Head(Items)
          BY <2>1, <3>2, PopTakesHead
        <4> QED BY <4>1 DEF Fifo!Next, Fifo!Pop
      <3> QED BY <3>1, <3>2
    <2>2. CASE Clear
      <3>1. Count' = 0
        BY <2>2, ZeroMod DEF Clear, Count
      <3>2. Items' = <<>>
        BY <3>1 DEF Items
      <3> QED BY <2>2, <3>2 DEF Clear, Fifo!Next, Fifo!Clear
    <2>3. ASSUME NEW e \in Elem, Push(e) PROVE Fifo!Push(e)
      <3>1. CASE isFull
        <4>1. ~(Len(Items) < Size - 1) /\ Items' = Items
          BY <2>3, <3>1, ItemsBounds DEF Push, Items, Count
        <4> QED BY <2>3, <3>1, <4>1 DEF Push, Fifo!Push
      <3>2. CASE ~isFull
        <4>1. Len(Items) < Size - 1
          BY <3>2, ItemsBounds
        <4>2. Items' = Append(Items, e)
          BY <2>3, <3>2, PushAppends
        <4> QED BY <2>3, <3>2, <4>1, <4>2 DEF Push, Fifo!Push
      <3> QED BY <3>1, <3>2
    <2>4. CASE UNCHANGED ringVars
      <3>1. UNCHANGED <<Items, ret>>
        BY <2>4 DEF ringVars, Items, Count
      <3> QED BY <3>1
    <2> QED BY <2>1, <2>2, <2>3, <2>4 DEF RingNext, Fifo!Next
  <1> QED BY <1>1, <1>2, RingSafe, PTL DEF RingSpec, ImplementsFifo, Fifo!Spec

-----------------------------------------------------------------------------
(* The thread object *)

Unfinished(t) == threads[t] \in {"created", "run", "left", "clearHandle"}

\* start() holds the mutex from the check of the handle to its assignment.
LockInv ==
    \A c \in Controllers :
        /\ cpc[c] = "lock" => within[c] \in {"start", "end"}
        /\ cpc[c] \in {"start", "assign"} => mThreadMutex = c

\* Threads are created in order.
BornInv == \A t \in Thread : threads[t] = "unborn" <=> t > created

\* An unfinished thread is behind the handle, or its creator is about to put it there;
\* until then the handle is null.
SpawnInv ==
    /\ \A t \in Thread :
          Unfinished(t) => \/ mThreadHandle = t
                           \/ t = created /\ \E c \in Controllers : cpc[c] = "assign"
    /\ \A c \in Controllers :
          cpc[c] = "assign" => mThreadHandle = Null /\ created \in Thread

IInv == TypeOK /\ LockInv /\ BornInv /\ SpawnInv

\* The types hold initially, and no thread exists.
LEMMA InitIInv == Init => IInv
  <1> SUFFICES ASSUME Init PROVE IInv
    OBVIOUS
  <1> USE ThreadAssumption DEF Init, Thread, Null
  <1>1. TypeOK
    <2>1. created \in 0 .. MaxThreads /\ calls \in 0 .. MaxCalls
      OBVIOUS
    <2>2. /\ threads \in [Thread -> {"unborn", "created", "run", "left", "clearHandle", "post",
                                    "dead"}]
          /\ cpc \in [Controllers -> {"idle", "lock", "start", "assign", "stop", "setAlive",
                                     "end", "join", "wait", "allowMany", "return"}]
          /\ within \in [Controllers -> Operations \cup {"none"}]
          /\ mThreadHandle \in 0 .. created /\ joining \in [Controllers -> 0 .. created]
      OBVIOUS
    <2> QED BY <2>1, <2>2 DEF TypeOK
  <1>2. LockInv /\ BornInv /\ SpawnInv
    BY DEF LockInv, BornInv, SpawnInv, Unfinished
  <1> QED BY <1>1, <1>2 DEF IInv

\* The steps of a controller keep the invariant.
LEMMA ControllerKeepsIInv ==
    ASSUME IInv, NEW c \in Controllers, ControllerStep(c)
    PROVE  IInv'
  <1> USE ThreadAssumption DEF IInv, object, control, Goto
  <1>1. CASE lock(c)
    <2>1. TypeOK'
      BY <1>1 DEF lock, TypeOK, LockInv
    <2>2. LockInv'
      BY <1>1 DEF lock, TypeOK, LockInv
    <2>3. BornInv' /\ SpawnInv'
      BY <1>1 DEF lock, TypeOK, LockInv, BornInv, SpawnInv, Unfinished
    <2> QED BY <2>1, <2>2, <2>3
  <1>2. CASE start(c)
    <2>1. TypeOK'
      <3>1. created' \in 0 .. MaxThreads
        BY <1>2 DEF start, TypeOK
      <3>2. threads' \in [Thread -> {"unborn", "created", "run", "left", "clearHandle", "post",
                                     "dead"}]
        BY <1>2 DEF start, TypeOK
      <3>3. cpc' \in [Controllers -> {"idle", "lock", "start", "assign", "stop", "setAlive",
                                      "end", "join", "wait", "allowMany", "return"}]
        BY <1>2 DEF start, TypeOK
      <3>4. mJoinSem' \in BOOLEAN /\ refused' \in BOOLEAN
        BY <1>2 DEF start, TypeOK
      <3> QED BY <1>2, <3>1, <3>2, <3>3, <3>4 DEF start, TypeOK
    <2>2. LockInv'
      BY <1>2 DEF start, TypeOK, LockInv
    <2>3. BornInv'
      BY <1>2 DEF start, TypeOK, BornInv, Thread
    <2>4. SpawnInv'
      <3>1. CASE created' = created
        BY <1>2, <3>1 DEF start, TypeOK, SpawnInv, Unfinished
      <3>2. CASE created' = created + 1
        <4>1. \A d \in Controllers : cpc[d] # "assign"
          BY <1>2 DEF start, LockInv
        <4>2. \A t \in Thread : ~Unfinished(t)
          BY <1>2, <3>2, <4>1 DEF start, SpawnInv, TypeOK, Null, Thread
        <4>3. cpc'[c] = "assign" /\ created' \in Thread /\ mThreadHandle' = Null
          BY <1>2, <3>2 DEF start, TypeOK, Thread
        <4>4. \A t \in Thread : Unfinished(t)' => t = created'
          BY <1>2, <3>2, <4>2 DEF start, TypeOK, Unfinished
        <4> QED BY <4>3, <4>4 DEF SpawnInv
      <3> QED BY <1>2, <3>1, <3>2 DEF start
    <2> QED BY <2>1, <2>2, <2>3, <2>4
  <1>3. CASE assignHandle(c)
    <2>1. TypeOK'
      BY <1>3 DEF assignHandle, TypeOK, SpawnInv
    <2>2. LockInv' /\ BornInv'
      BY <1>3 DEF assignHandle, TypeOK, LockInv, BornInv
    <2>3. SpawnInv'
      <3>1. \A d \in Controllers : cpc'[d] # "assign"
        BY <1>3 DEF assignHandle, TypeOK, LockInv
      <3>2. \A t \in Thread : Unfinished(t) => t = created
        BY <1>3 DEF assignHandle, SpawnInv, Thread, Null
      <3> QED BY <1>3, <3>1, <3>2 DEF assignHandle, SpawnInv, Unfinished
    <2> QED BY <2>1, <2>2, <2>3
  <1>4. CASE stop(c)
    BY <1>4 DEF stop, AfterStop, TypeOK, LockInv, BornInv, SpawnInv, Unfinished
  <1>5. CASE setAliveFalse(c)
    BY <1>5 DEF setAliveFalse, AfterStop, TypeOK, LockInv, BornInv, SpawnInv, Unfinished
  <1>6. CASE end(c)
    BY <1>6 DEF end, TypeOK, LockInv, BornInv, SpawnInv, Unfinished
  <1>7. CASE join(c)
    BY <1>7 DEF join, TypeOK, LockInv, BornInv, SpawnInv, Unfinished
  <1>8. CASE joinWait(c)
    BY <1>8 DEF joinWait, TypeOK, LockInv, BornInv, SpawnInv, Unfinished
  <1>9. CASE allowManyJoins(c)
    BY <1>9 DEF allowManyJoins, TypeOK, LockInv, BornInv, SpawnInv, Unfinished
  <1>10. CASE return(c)
    <2>1. TypeOK'
      <3>1. Null \in 0 .. created
        BY DEF TypeOK, Null
      <3> QED BY <1>10, <3>1 DEF return, TypeOK
    <2>2. LockInv'
      BY <1>10 DEF return, TypeOK, LockInv
    <2>3. BornInv' /\ SpawnInv'
      BY <1>10 DEF return, TypeOK, BornInv, SpawnInv, Unfinished
    <2> QED BY <2>1, <2>2, <2>3
  <1> QED BY <1>1, <1>2, <1>3, <1>4, <1>5, <1>6, <1>7, <1>8, <1>9, <1>10 DEF ControllerStep

\* The steps of a thread keep the invariant.
LEMMA ThreadKeepsIInv ==
    ASSUME IInv, NEW t \in Thread, RunThread(t) \/ selfEnd(t)
    PROVE  IInv'
  <1> USE ThreadAssumption DEF IInv, object, control
  <1>1. TypeOK'
    <2>1. Null \in 0 .. created
      BY DEF TypeOK, Null
    <2> QED BY <2>1 DEF RunThread, selfEnd, setAliveTrue, leaveRun, clearAlive, clearHandle,
                        post, TypeOK
  <1>2. LockInv' /\ BornInv'
    BY DEF RunThread, selfEnd, setAliveTrue, leaveRun, clearAlive, clearHandle, post, TypeOK,
           LockInv, BornInv
  <1>3. SpawnInv'
    <2>1. CASE clearHandle(t)
      <3>1. \A u \in Thread : Unfinished(u) => u = t
        BY <2>1 DEF clearHandle, SpawnInv, Unfinished, Thread, Null
      <3>2. \A u \in Thread : ~Unfinished(u)'
        BY <2>1, <3>1 DEF clearHandle, TypeOK, Unfinished
      <3> QED BY <2>1, <3>2 DEF clearHandle, SpawnInv
    <2>2. CASE ~clearHandle(t)
      BY <2>2 DEF RunThread, selfEnd, setAliveTrue, leaveRun, clearAlive, post, TypeOK,
                  SpawnInv, Unfinished
    <2> QED BY <2>1, <2>2
  <1> QED BY <1>1, <1>2, <1>3

\* The inductive invariant.
THEOREM ThreadInductive == Spec => []IInv
  <1>1. IInv /\ [Next]_vars => IInv'
    <2> SUFFICES ASSUME IInv, [Next]_vars PROVE IInv'
      OBVIOUS
    <2>1. ASSUME NEW c \in Controllers, ControllerStep(c) PROVE IInv'
      BY <2>1, ControllerKeepsIInv
    <2>2. ASSUME NEW c \in Controllers, NEW op \in Operations, Call(c, op) PROVE IInv'
      BY <2>2, ThreadAssumption DEF Call, Goto, Operations, object, IInv, TypeOK, LockInv,
                                    BornInv, SpawnInv, Unfinished
    <2>3. ASSUME NEW t \in Thread, RunThread(t) \/ selfEnd(t) PROVE IInv'
      BY <2>3, ThreadKeepsIInv
    <2>4. CASE UNCHANGED vars
      BY <2>4 DEF vars, object, control, IInv, TypeOK, LockInv, BornInv, SpawnInv, Unfinished
    <2> QED BY <2>1, <2>2, <2>3, <2>4 DEF Next
  <1> QED BY <1>1, InitIInv, PTL DEF Spec

\* Type correctness of the thread object.
THEOREM ThreadTypeCorrect == Spec => []TypeOK
  BY ThreadInductive, PTL DEF IInv

\* There is never more than one thread that has been created and has not finished,
\* however the controllers' calls of start, stop, end and join interleave with its end.
THEOREM ThreadOneAtATime == Spec => []OneThreadAtATime
  <1>1. IInv => OneThreadAtATime
    <2> SUFFICES ASSUME IInv, NEW t \in Thread, NEW u \in Thread, t # u,
                        threads[t] # "unborn", threads[u] # "unborn",
                        ~Finished(t), ~Finished(u)
                 PROVE  FALSE
      BY DEF OneThreadAtATime
    <2>1. Unfinished(t) /\ Unfinished(u)
      BY DEF IInv, TypeOK, Unfinished, Finished
    <2> QED BY <2>1 DEF IInv, SpawnInv, Thread, Null
  <1> QED BY <1>1, ThreadInductive, PTL

\* The semaphore says that the first thread has finished, whoever posted it: unless
\* createThread failed, nobody but a thread that is through with run() does, and no other
\* thread exists before the first one is through.
JoinInv ==
    /\ \A t \in Thread : t # 1 /\ threads[t] # "unborn" => Finished(1)
    /\ ~refused =>
          /\ mJoinSem => Finished(1)
          /\ \A c \in Controllers : cpc[c] = "allowMany" => Finished(1)

\* Only the creation of a thread, its post and the joiners touch what JoinInv speaks of.
LEMMA StepKeepsJoinInv ==
    ASSUME IInv, JoinInv, [Next]_vars
    PROVE  JoinInv'
  <1> USE ThreadAssumption DEF IInv, object, control, Goto
  <1>0. 1 \in Thread
    BY DEF Thread
  <1>1. ASSUME NEW c \in Controllers, start(c) PROVE JoinInv'
    <2>1. CASE created' = created
      BY <1>0, <1>1, <2>1 DEF start, TypeOK, JoinInv, Finished
    <2>2. CASE created' = created + 1
      <3>1. \A d \in Controllers : cpc[d] # "assign"
        BY <1>1 DEF start, LockInv
      <3>2. ~Unfinished(1)
        BY <1>0, <1>1, <2>2, <3>1 DEF start, SpawnInv, TypeOK, Null, Thread
      <3>3. created # 0 => Finished(1)
        BY <1>0, <3>2 DEF BornInv, TypeOK, Unfinished, Finished
      <3>4. created = 0 => \A t \in Thread : t # 1 => threads'[t] = "unborn"
        BY <1>1, <2>2 DEF start, BornInv, TypeOK, Thread
      <3>5. Finished(1) => Finished(1)'
        BY <1>0, <1>1, <2>2 DEF start, TypeOK, BornInv, Finished
      <3>6. mJoinSem' = mJoinSem /\ refused' = refused /\ cpc'[c] = "assign"
        BY <1>1, <2>2 DEF start, TypeOK
      <3>7. \A d \in Controllers : cpc'[d] = "allowMany" => cpc[d] = "allowMany"
        BY <1>1, <2>2 DEF start, TypeOK
      <3>8. created \in Nat
        BY DEF TypeOK
      <3> QED BY <3>3, <3>4, <3>5, <3>6, <3>7 DEF JoinInv
    <2> QED BY <1>1, <2>1, <2>2 DEF start
  <1>2. ASSUME NEW c \in Controllers, joinWait(c) \/ allowManyJoins(c) PROVE JoinInv'
    BY <1>0, <1>2 DEF joinWait, allowManyJoins, TypeOK, JoinInv, Finished
  <1>3. ASSUME NEW c \in Controllers,
               \/ lock(c) \/ assignHandle(c) \/ stop(c) \/ setAliveFalse(c) \/ end(c)
               \/ join(c) \/ return(c)
        PROVE  JoinInv'
    <2>1. \A d \in Controllers : cpc'[d] = "allowMany" => cpc[d] = "allowMany"
      BY <1>3 DEF lock, assignHandle, stop, setAliveFalse, AfterStop, end, join, return,
                  TypeOK, LockInv
    <2> QED BY <1>3, <2>1 DEF lock, assignHandle, stop, setAliveFalse, end, join, return,
                              JoinInv, Finished
  <1>4. ASSUME NEW c \in Controllers, NEW op \in Operations, Call(c, op) PROVE JoinInv'
    BY <1>4 DEF Call, Operations, TypeOK, JoinInv, Finished
  <1>5. ASSUME NEW t \in Thread, RunThread(t) \/ selfEnd(t) PROVE JoinInv'
    <2>1. Finished(1) => Finished(1)'
      BY <1>0, <1>5 DEF RunThread, selfEnd, setAliveTrue, leaveRun, clearAlive, clearHandle,
                        post, TypeOK, Finished
    <2>2. post(t) => Finished(1)'
      BY <1>0, <1>5, <2>1 DEF post, TypeOK, JoinInv, Finished
    <2>3. mJoinSem' => mJoinSem \/ post(t)
      BY <1>5 DEF RunThread, selfEnd, setAliveTrue, leaveRun, clearAlive, clearHandle
    <2>4. \A u \in Thread : threads'[u] # "unborn" => threads[u] # "unborn"
      BY <1>5 DEF RunThread, selfEnd, setAliveTrue, leaveRun, clearAlive, clearHandle, post,
                  TypeOK
    <2>5. cpc' = cpc /\ refused' = refused
      BY <1>5 DEF RunThread, selfEnd, setAliveTrue, leaveRun, clearAlive, clearHandle, post
    <2> QED BY <2>1, <2>2, <2>3, <2>4, <2>5 DEF JoinInv
  <1>6. CASE UNCHANGED vars
    BY <1>6 DEF vars, JoinInv, Finished
  <1> QED BY <1>1, <1>2, <1>3, <1>4, <1>5, <1>6 DEF Next, ControllerStep

\* A join() that found the first thread behind the handle gets the semaphore only when
\* that thread has left run(), unless createThread failed before: for every number of
\* controllers that join, end and start at the same time.
THEOREM ThreadFirstJoinWaits == Spec => []FirstJoinWaits
  <1>1. Init => JoinInv
    BY DEF Init, JoinInv
  <1>2. JoinInv => FirstJoinWaits
    BY DEF JoinInv, FirstJoinWaits
  <1> QED BY <1>1, <1>2, StepKeepsJoinInv, ThreadInductive, PTL DEF Spec
=============================================================================
