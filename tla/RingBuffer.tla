----------------------------- MODULE RingBuffer ------------------------------
(***************************************************************************)
(* util::CRingBuffer<T, size>: an array of Size slots and two free-running *)
(* size_t indices that are masked on every access and wrap at the width of *)
(* size_t (IndexMod = 2^w).  One slot stays unused, so that a full list    *)
(* can be told from an empty one.                                          *)
(***************************************************************************)
EXTENDS Integers, Sequences

CONSTANTS
    Elem,       \* the elements that can be stored
    NoElem,     \* the null pointer pop returns on an empty list
    Size,       \* number of slots, a power of two in the code
    IndexMod    \* number of values of size_t

\* static_assert((size & (size - 1)) == 0): all the index arithmetic needs is that
\* the number of slots divides the number of index values.
ASSUME RingAssumption ==
    /\ Size \in Nat \ {0}
    /\ IndexMod \in Nat \ {0}
    /\ \E k \in 1 .. IndexMod : IndexMod = k * Size

VARIABLES
    mPopIndex,
    mPushIndex,
    mData,
    ret         \* what the last operation returned

ringVars == <<mPopIndex, mPushIndex, mData, ret>>

Index == 0 .. IndexMod - 1
Slot  == 0 .. Size - 1
Elems == Elem \cup {NoElem}       \* NoElem: a slot never written

\* index & cmIndexMask
Masked(i) == i % Size

\* size_t addition
Plus(i, n) == (i + n) % IndexMod

RingInit ==
    /\ mPopIndex = 0
    /\ mPushIndex = 0
    /\ mData = [s \in Slot |-> NoElem]
    /\ ret = NoElem

isEmpty == mPopIndex = mPushIndex

\* mutant: the mask taken for the number of slots, so no slot stays unused
isFullOffByOne == mPushIndex = Plus(mPopIndex, Size)
isFull == mPushIndex = Plus(mPopIndex, Size - 1)

Push(e) ==
    \/ /\ isFull
       /\ ret' = FALSE
       /\ UNCHANGED <<mPopIndex, mPushIndex, mData>>
    \/ /\ ~isFull
       /\ mData' = [mData EXCEPT ![Masked(mPushIndex)] = e]
       /\ mPushIndex' = Plus(mPushIndex, 1)
       /\ ret' = TRUE
       /\ UNCHANGED mPopIndex

\* mutant: the popped slot is the one after the increment
PopPreIncrement ==
    \/ /\ isEmpty
       /\ ret' = NoElem
       /\ UNCHANGED <<mPopIndex, mPushIndex, mData>>
    \/ /\ ~isEmpty
       /\ mPopIndex' = Plus(mPopIndex, 1)
       /\ ret' = mData[Masked(mPopIndex')]
       /\ UNCHANGED <<mPushIndex, mData>>

Pop ==
    \/ /\ isEmpty
       /\ ret' = NoElem
       /\ UNCHANGED <<mPopIndex, mPushIndex, mData>>
    \/ /\ ~isEmpty
       /\ ret' = mData[Masked(mPopIndex)]
       /\ mPopIndex' = Plus(mPopIndex, 1)
       /\ UNCHANGED <<mPushIndex, mData>>

Clear ==
    /\ mPopIndex' = 0
    /\ mPushIndex' = 0
    /\ ret' = NoElem
    /\ UNCHANGED mData

RingNext == Pop \/ Clear \/ \E e \in Elem : Push(e)

RingSpec == RingInit /\ [][RingNext]_ringVars

-----------------------------------------------------------------------------
(* Properties *)

\* Number of stored elements, from the two indices.
Count == (mPushIndex - mPopIndex) % IndexMod

\* The stored elements, oldest first: the refinement mapping.
Items == [i \in 1 .. Count |-> mData[Masked(mPopIndex + i - 1)]]

\* The indices stay in the range of size_t, and they never lie further apart than the
\* Size - 1 slots isFull allows, across their wrap-around: no push overwrites a slot
\* that has not been popped.
RingInv ==
    /\ mPopIndex \in Index
    /\ mPushIndex \in Index
    /\ mData \in [Slot -> Elems]
    /\ Count <= Size - 1

Fifo == INSTANCE BoundedFifo WITH items <- Items, Capacity <- Size - 1

\* Every operation of the ring, the ones on a full or an empty list and the ones
\* around the wrap of the indices included, is the operation of a bounded FIFO list.
ImplementsFifo == Fifo!Spec
=============================================================================
