----------------------------- MODULE BoundedFifo -----------------------------
(***************************************************************************)
(* What the users of util::CRingBuffer rely on: a first-in first-out list  *)
(* of at most Capacity elements whose push reports whether the element was *)
(* taken and whose pop hands out the oldest element, or nothing.           *)
(* RingBuffer.tla is shown to implement this specification.                *)
(***************************************************************************)
EXTENDS Naturals, Sequences

CONSTANTS
    Elem,       \* the elements that can be stored
    Capacity,   \* how many of them fit
    NoElem      \* the null pointer pop returns on an empty list

VARIABLES
    items,      \* the stored elements, oldest first
    ret         \* what the last operation returned

Init == items = <<>> /\ ret = NoElem

Push(e) ==
    IF Len(items) < Capacity
    THEN items' = Append(items, e) /\ ret' = TRUE
    ELSE items' = items /\ ret' = FALSE

Pop ==
    IF items = <<>>
    THEN items' = items /\ ret' = NoElem
    ELSE items' = Tail(items) /\ ret' = Head(items)

Clear == items' = <<>> /\ ret' = NoElem

Next == Pop \/ Clear \/ \E e \in Elem : Push(e)

Spec == Init /\ [][Next]_<<items, ret>>
=============================================================================
