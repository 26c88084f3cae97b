----------------------------- MODULE EcetProofs -----------------------------
(***************************************************************************)
(* Safety of the event chain execution thread, alone and with an E_RESTART *)
(* in its resource, for every number of producers, every capacity of the   *)
(* two lists and every fan-out.                                            *)
(***************************************************************************)
EXTENDS Restart, SequenceTheorems, TLAPS

\* NoLostWakeup strengthened to an inductive invariant.  The wake-up is already owed
\* from the moment on that the thread has found the external list empty, and a handle
\* is there exactly as long as the thread is.
WakeupInv ==
    /\ tpc \in {"pop", "suspend"} /\ mExternalEventList # <<>> => WakeupPending
    /\ tpc = "suspend" => mEventList = <<>>

\* The handle stands for the thread.
HandleInv == mThreadHandle <=> tpc # "none"

\* The external events of a list, and what it means for them to be in order.
Externals(list) == externals(elements(list))
InOrder(list) ==
    \A i, j \in 1 .. Len(list) :
        i < j /\ IsExternal(list[i]) /\ IsExternal(list[j]) => list[i].id < list[j].id
Before(S, T) == \A x \in S, y \in T : x.id < y.id

\* EveryEventOnceInOrder list by list: each is in order and comes behind the one before it;
\* the next number is larger than all that were given.
HistoryOK == delivered \in Seq(Event) /\ accepted \subseteq Event /\ gone \subseteq accepted
OrderInv ==
    /\ HistoryOK
    /\ InOrder(delivered) /\ InOrder(mEventList) /\ InOrder(mExternalEventList)
    /\ Before(Externals(delivered), Externals(mEventList))
    /\ Before(Externals(delivered), Externals(mExternalEventList))
    /\ Before(Externals(mEventList), Externals(mExternalEventList))
    /\ Externals(delivered) \cup Externals(mEventList) \cup Externals(mExternalEventList)
          = accepted \ gone
    /\ \A x \in accepted : x.id < calls

IInv == TypeOK /\ WakeupInv /\ HandleInv

-----------------------------------------------------------------------------
\* addEventEntry keeps the event list a list of events within its capacity.
LEMMA AddEntriesBounded ==
    ASSUME NEW list \in Seq(Event), Len(list) <= ListCap, NEW new \in Seq(Event)
    PROVE  /\ addEventEntries(list, new) \in Seq(Event)
           /\ Len(addEventEntries(list, new)) <= ListCap
  <1> DEFINE k == Fitting(new, ListCap - Len(list))
             kept == SubSeq(new, 1, k)
  <1>1. k \in 0 .. Len(new) /\ k <= ListCap - Len(list)
    BY EcetAssumption, LenProperties DEF Fitting
  <1>2. kept \in Seq(Event) /\ Len(kept) = k
    BY <1>1, SubSeqProperties
  <1>3. list \o kept \in Seq(Event) /\ Len(list \o kept) = Len(list) + k
    BY <1>2, ConcatProperties
  <1> QED BY <1>1, <1>3, LenProperties, EcetAssumption DEF addEventEntries
-----------------------------------------------------------------------------
(* The inductive invariant *)

\* Initially the lists are empty and there is no thread.
LEMMA InitIInv == Init => IInv
  <1> SUFFICES ASSUME Init PROVE IInv
    OBVIOUS
  <1> USE EcetAssumption DEF Init
  <1>1. TypeOK
    <2>1. mEventList \in Seq(Event) /\ Len(mEventList) <= ListCap
      OBVIOUS
    <2>2. mExternalEventList \in Seq(Event) /\ Len(mExternalEventList) <= ExtCap
      OBVIOUS
    <2>3. /\ ppc \in [Producers -> {"idle", "inserted", "flagged"}]
          /\ calls \in 0 .. MaxCalls
          /\ commands \in 0 .. MaxCommands
      OBVIOUS
    <2> QED BY <2>1, <2>2, <2>3 DEF TypeOK, States
  <1>2. WakeupInv /\ HandleInv
    BY DEF WakeupInv, HandleInv
  <1> QED BY <1>1, <1>2 DEF IInv

\* Every step keeps the types and the bounds of the two lists.
LEMMA TypeStep == TypeOK /\ [Next]_vars => TypeOK'
  <1> SUFFICES ASSUME TypeOK, [Next]_vars PROVE TypeOK'
    OBVIOUS
  <1> USE EcetAssumption DEF lists, history
  <1>1. ASSUME NEW p \in Producers, startEventChain(p) PROVE TypeOK'
    <2>1. calls' \in 0 .. MaxCalls
      BY <1>1 DEF startEventChain, TypeOK
    <2>2. /\ mExternalEventList' \in Seq(Event)
          /\ Len(mExternalEventList') <= ExtCap
      <3> DEFINE event == [src |-> p, id |-> calls]
      <3>1. event \in Event
        BY DEF TypeOK, Event
      <3>2. CASE Len(mExternalEventList) < ExtCap
        <4>1. mExternalEventList' = Append(mExternalEventList, event)
          BY <1>1, <3>2 DEF startEventChain, TypeOK
        <4> QED BY <3>1, <3>2, <4>1, AppendProperties, LenProperties DEF TypeOK
      <3>3. CASE Len(mExternalEventList) >= ExtCap
        BY <1>1, <3>3, LenProperties DEF startEventChain, TypeOK
      <3> QED BY <3>2, <3>3, LenProperties DEF TypeOK
    <2>3. ppc' \in [Producers -> {"idle", "inserted", "flagged"}]
      BY <1>1 DEF startEventChain, TypeOK
    <2> QED BY <1>1, <2>1, <2>2, <2>3 DEF startEventChain, TypeOK
  <1>2. ASSUME NEW p \in Producers, ProducerStep(p) PROVE TypeOK'
    BY <1>2 DEF ProducerStep, setProcessing, resumeSelfSuspend, TypeOK
  <1>3. CASE ThreadStep
    <2>1. CASE runThread
      BY <2>1 DEF runThread, TypeOK
    <2>2. CASE run
      BY <2>2 DEF run, TypeOK
    <2>3. CASE externalEventOccured
      BY <2>3 DEF externalEventOccured, TypeOK
    <2>4. CASE transferExternalEvents
      <3>1. mEventList' \in Seq(Event) /\ Len(mEventList') <= ListCap
        BY <2>4, AddEntriesBounded DEF transferExternalEvents, TypeOK
      <3>2. mExternalEventList' \in Seq(Event) /\ Len(mExternalEventList') <= ExtCap
        BY <2>4 DEF transferExternalEvents
      <3> QED BY <2>4, <3>1, <3>2 DEF transferExternalEvents, TypeOK
    <2>5. CASE becomeIdle
      BY <2>5 DEF becomeIdle, TypeOK
    <2>6. CASE receiveInputEvent
      <3>1. PICK n \in 0 .. FanOut :
              mEventList' = addEventEntries(Tail(mEventList), [i \in 1 .. n |-> InternalEvent])
        BY <2>6 DEF receiveInputEvent
      <3>2. [i \in 1 .. n |-> InternalEvent] \in Seq(Event)
        <4>1. InternalEvent \in Event
          BY DEF InternalEvent, Event
        <4> QED BY <4>1
      <3>3. Tail(mEventList) \in Seq(Event) /\ Len(Tail(mEventList)) <= ListCap
        BY <2>6, HeadTailProperties, LenProperties DEF receiveInputEvent, TypeOK
      <3>4. mEventList' \in Seq(Event) /\ Len(mEventList') <= ListCap
        BY <3>1, <3>2, <3>3, AddEntriesBounded
      <3> QED BY <2>6, <3>4 DEF receiveInputEvent, TypeOK
    <2>7. CASE selfSuspend
      BY <2>7 DEF selfSuspend, TypeOK
    <2>8. CASE resumed
      BY <2>8 DEF resumed, TypeOK
    <2>9. CASE exitThread
      BY <2>9 DEF exitThread, TypeOK
    <2> QED BY <1>3, <2>1, <2>2, <2>3, <2>4, <2>5, <2>6, <2>7, <2>8, <2>9 DEF ThreadStep
  <1>4. ASSUME NEW c \in Commands, changeExecutionState(c) PROVE TypeOK'
    <2>1. Target(c) \in States /\ FirstStep(c) \in {"ready", "start", "stop", "clear"}
      BY <1>4 DEF Commands, Target, FirstStep, States
    <2> QED BY <1>4, <2>1 DEF changeExecutionState, TypeOK
  <1>5. CASE ManagerStep
    <2>1. CASE start
      BY <2>1 DEF start, TypeOK
    <2>2. CASE clearEventList
      BY <2>2 DEF clearEventList, TypeOK
    <2>3. CASE clearExternalEventList
      BY <2>3 DEF clearExternalEventList, TypeOK
    <2>4. CASE stop
      BY <2>4 DEF stop, TypeOK
    <2>5. CASE onAliveChanged
      BY <2>5 DEF onAliveChanged, TypeOK
    <2> QED BY <1>5, <2>1, <2>2, <2>3, <2>4, <2>5 DEF ManagerStep
  <1>6. CASE UNCHANGED vars
    BY <1>6 DEF vars, TypeOK
  <1> QED BY <1>1, <1>2, <1>3, <1>4, <1>5, <1>6 DEF Next

\* Every step keeps the wake-up owed and the handle in step with the thread.
LEMMA WakeupStep ==
    ASSUME IInv, [Next]_vars
    PROVE  WakeupInv' /\ HandleInv'
  <1> USE DEF lists, history, IInv, WakeupInv, HandleInv, WakeupPending
  <1>1. ASSUME NEW p \in Producers, startEventChain(p) PROVE WakeupInv' /\ HandleInv'
    <2>1. HandleInv'
      BY <1>1 DEF startEventChain
    <2>2. CASE mExternalEventList' = mExternalEventList /\ ppc' = ppc
      BY <1>1, <2>2 DEF startEventChain
    <2>3. CASE ppc' = [ppc EXCEPT ![p] = "inserted"]
      <3>1. ppc'[p] = "inserted"
        BY <2>3 DEF TypeOK
      <3> QED BY <1>1, <2>1, <3>1 DEF startEventChain
    <2> QED BY <1>1, <2>2, <2>3 DEF startEventChain
  <1>2. ASSUME NEW p \in Producers, ProducerStep(p) PROVE WakeupInv' /\ HandleInv'
    <2>1. CASE setProcessing(p)
      <3>1. ppc'[p] = "flagged"
        BY <2>1 DEF setProcessing, TypeOK
      <3> QED BY <2>1, <3>1 DEF setProcessing
    <2>2. CASE resumeSelfSuspend(p)
      BY <2>2 DEF resumeSelfSuspend
    <2> QED BY <1>2, <2>1, <2>2 DEF ProducerStep
  <1>3. CASE ThreadStep
    <2>1. CASE runThread
      BY <2>1 DEF runThread
    <2>2. CASE run
      BY <2>2 DEF run
    <2>3. CASE externalEventOccured
      BY <2>3 DEF externalEventOccured
    <2>4. CASE transferExternalEvents
      BY <2>4 DEF transferExternalEvents
    <2>5. CASE becomeIdle
      BY <2>5 DEF becomeIdle
    <2>6. CASE receiveInputEvent
      BY <2>6 DEF receiveInputEvent
    <2>7. CASE selfSuspend
      BY <2>7 DEF selfSuspend
    <2>8. CASE resumed
      BY <2>8 DEF resumed
    <2>9. CASE exitThread
      BY <2>9 DEF exitThread
    <2> QED BY <1>3, <2>1, <2>2, <2>3, <2>4, <2>5, <2>6, <2>7, <2>8, <2>9 DEF ThreadStep
  <1>4. ASSUME NEW c \in Commands, changeExecutionState(c) PROVE WakeupInv' /\ HandleInv'
    BY <1>4 DEF changeExecutionState
  <1>5. CASE ManagerStep
    <2>1. CASE start
      BY <2>1 DEF start
    <2>2. CASE clearEventList
      BY <2>2 DEF clearEventList
    <2>3. CASE clearExternalEventList
      BY <2>3 DEF clearExternalEventList
    <2>4. CASE stop
      BY <2>4 DEF stop
    <2>5. CASE onAliveChanged
      BY <2>5 DEF onAliveChanged
    <2> QED BY <1>5, <2>1, <2>2, <2>3, <2>4, <2>5 DEF ManagerStep
  <1>6. CASE UNCHANGED vars
    BY <1>6 DEF vars
  <1> QED BY <1>1, <1>2, <1>3, <1>4, <1>5, <1>6 DEF Next

-----------------------------------------------------------------------------
(* The events and their order *)

\* Disjointness is a consequence of the order.
LEMMA BeforeDisjoint ==
    ASSUME NEW S, NEW T, S \subseteq Event, T \subseteq Event, Before(S, T)
    PROVE  S \cap T = {}
  <1> SUFFICES ASSUME NEW x \in S, x \in T PROVE FALSE
    OBVIOUS
  <1>1. x.id \in Nat /\ x.id < x.id
    BY DEF Before, Event
  <1> QED BY <1>1

\* The external events of a list are events.
LEMMA ExternalsAreEvents ==
    ASSUME NEW s \in Seq(Event)
    PROVE  Externals(s) \subseteq Event
  BY ElementOfSeq DEF Externals, externals, elements

\* The elements of a list and one more.
LEMMA AppendElements ==
    ASSUME NEW s \in Seq(Event), NEW x \in Event
    PROVE  elements(Append(s, x)) = elements(s) \cup {x}
  <1> DEFINE t == Append(s, x)
  <1>1. /\ Len(s) \in Nat /\ Len(t) = Len(s) + 1 /\ t[Len(s) + 1] = x
        /\ \A i \in 1 .. Len(s) : t[i] = s[i]
    OBVIOUS
  <1>2. \A i \in 1 .. Len(t) : i \in 1 .. Len(s) \/ i = Len(s) + 1
    BY <1>1
  <1>3. elements(t) \subseteq elements(s) \cup {x}
    BY <1>1, <1>2 DEF elements
  <1>4. \A i \in 1 .. Len(s) : i \in 1 .. Len(t)
    BY <1>1
  <1>5. Len(s) + 1 \in 1 .. Len(t)
    BY <1>1
  <1>6. elements(s) \cup {x} \subseteq elements(t)
    BY <1>1, <1>4, <1>5 DEF elements
  <1> QED BY <1>3, <1>6

\* An event behind a list that it is behind of.
LEMMA AppendInOrder ==
    ASSUME NEW s \in Seq(Event), NEW x \in Event, IsExternal(x), InOrder(s),
           Before(Externals(s), {x})
    PROVE  InOrder(Append(s, x)) /\ Externals(Append(s, x)) = Externals(s) \cup {x}
  <1> DEFINE t == Append(s, x)
  <1>1. /\ Len(s) \in Nat /\ Len(t) = Len(s) + 1 /\ t[Len(s) + 1] = x
        /\ \A i \in 1 .. Len(s) : t[i] = s[i]
    OBVIOUS
  <1>2. \A i \in 1 .. Len(t) : i \in 1 .. Len(s) \/ i = Len(s) + 1
    BY <1>1
  <1>3. elements(t) = elements(s) \cup {x}
    BY AppendElements
  <1>4. Externals(t) = Externals(s) \cup {x}
    BY <1>3 DEF Externals, externals
  <1>5. InOrder(t)
    <2> SUFFICES ASSUME NEW i \in 1 .. Len(t), NEW j \in 1 .. Len(t), i < j,
                        IsExternal(t[i]), IsExternal(t[j])
                 PROVE  t[i].id < t[j].id
      BY DEF InOrder
    <2>1. i \in 1 .. Len(s)
      BY <1>1
    <2>2. s[i] \in Externals(s)
      BY <1>1, <2>1 DEF Externals, externals, elements
    <2>3. CASE j \in 1 .. Len(s)
      BY <1>1, <2>1, <2>3 DEF InOrder
    <2>4. CASE j = Len(s) + 1
      BY <1>1, <2>1, <2>2, <2>4 DEF Before
    <2> QED BY <1>2, <2>3, <2>4
  <1> QED BY <1>4, <1>5

\* A list behind a list.
LEMMA ConcatInOrder ==
    ASSUME NEW s \in Seq(Event), NEW t \in Seq(Event), InOrder(s), InOrder(t),
           Before(Externals(s), Externals(t))
    PROVE  InOrder(s \o t) /\ Externals(s \o t) = Externals(s) \cup Externals(t)
  <1> DEFINE c == s \o t
  <1>1. /\ Len(s) \in Nat /\ Len(t) \in Nat /\ Len(c) = Len(s) + Len(t)
        /\ \A i \in 1 .. Len(s) : c[i] = s[i]
        /\ \A i \in 1 .. Len(t) : c[Len(s) + i] = t[i]
    BY ConcatProperties, LenProperties
  <1>2. ASSUME NEW i \in 1 .. Len(c)
        PROVE  \/ i \in 1 .. Len(s)
               \/ \E k \in 1 .. Len(t) : i = Len(s) + k
    <2>1. CASE ~(i \in 1 .. Len(s))
      <3>1. i - Len(s) \in 1 .. Len(t) /\ i = Len(s) + (i - Len(s))
        BY <1>1, <2>1
      <3> QED BY <3>1
    <2> QED BY <2>1
  <1> HIDE DEF c
  <1>3. elements(c) = elements(s) \cup elements(t)
    <2>1. ASSUME NEW i \in 1 .. Len(c) PROVE c[i] \in elements(s) \cup elements(t)
      BY <1>1, <1>2 DEF elements
    <2>2. \A i \in 1 .. Len(s) : i \in 1 .. Len(c)
      BY <1>1
    <2>3. \A i \in 1 .. Len(t) : Len(s) + i \in 1 .. Len(c)
      BY <1>1
    <2>4. elements(s) \subseteq elements(c)
      BY <1>1, <2>2 DEF elements
    <2>5. elements(t) \subseteq elements(c)
      BY <1>1, <2>3 DEF elements
    <2>6. elements(c) \subseteq elements(s) \cup elements(t)
      BY <2>1 DEF elements
    <2> QED BY <2>4, <2>5, <2>6
  <1>4. Externals(c) = Externals(s) \cup Externals(t)
    BY <1>3 DEF Externals, externals
  <1>5. InOrder(c)
    <2> SUFFICES ASSUME NEW i \in 1 .. Len(c), NEW j \in 1 .. Len(c), i < j,
                        IsExternal(c[i]), IsExternal(c[j])
                 PROVE  c[i].id < c[j].id
      BY DEF InOrder
    <2>1. CASE i \in 1 .. Len(s) /\ j \in 1 .. Len(s)
      BY <1>1, <2>1 DEF InOrder
    <2>2. ASSUME i \in 1 .. Len(s), NEW k \in 1 .. Len(t), j = Len(s) + k
          PROVE  c[i].id < c[j].id
      <3>1. c[i] = s[i] /\ c[j] = t[k]
        BY <1>1, <2>2
      <3>2. s[i] \in Externals(s) /\ t[k] \in Externals(t)
        BY <2>2, <3>1 DEF Externals, externals, elements
      <3> QED BY <3>1, <3>2 DEF Before
    <2>3. ASSUME NEW l \in 1 .. Len(t), i = Len(s) + l, NEW k \in 1 .. Len(t), j = Len(s) + k
          PROVE  c[i].id < c[j].id
      <3>1. c[i] = t[l] /\ c[j] = t[k] /\ l < k
        BY <1>1, <2>3
      <3> QED BY <3>1 DEF InOrder
    <2>4. ASSUME NEW l \in 1 .. Len(t), i = Len(s) + l, j \in 1 .. Len(s)
          PROVE  FALSE
      BY <1>1, <2>4
    <2> QED BY <1>2, <2>1, <2>2, <2>3, <2>4
  <1> QED BY <1>4, <1>5 DEF c

\* A list that is cut in two: the ends are in order, one behind the other.
LEMMA CutInOrder ==
    ASSUME NEW s \in Seq(Event), InOrder(s), NEW k \in 0 .. Len(s)
    PROVE  /\ SubSeq(s, 1, k) \in Seq(Event)
           /\ InOrder(SubSeq(s, 1, k))
           /\ Externals(SubSeq(s, 1, k)) \cup externals({s[i] : i \in k + 1 .. Len(s)})
                 = Externals(s)
           /\ Externals(SubSeq(s, 1, k)) \cap externals({s[i] : i \in k + 1 .. Len(s)}) = {}
  <1> DEFINE t == SubSeq(s, 1, k)
  <1>1. \A i \in 1 .. k : s[i] \in Event
    BY LenProperties, ElementOfSeq
  <1>2. /\ k \in Nat /\ Len(s) \in Nat /\ k <= Len(s)
        /\ t \in Seq(Event) /\ Len(t) = k /\ \A i \in 1 .. k : t[i] = s[i]
    BY <1>1, LenProperties, SubSeqProperties
  <1> HIDE DEF t
  <1>3. InOrder(t)
    BY <1>2 DEF InOrder
  <1>4. elements(t) = {s[i] : i \in 1 .. k}
    BY <1>2 DEF elements
  <1>5. elements(s) = {s[i] : i \in 1 .. k} \cup {s[i] : i \in k + 1 .. Len(s)}
    <2>1. \A i \in 1 .. Len(s) : i \in 1 .. k \/ i \in k + 1 .. Len(s)
      BY <1>2
    <2>2. \A i \in 1 .. k : i \in 1 .. Len(s)
      BY <1>2
    <2>3. \A i \in k + 1 .. Len(s) : i \in 1 .. Len(s)
      BY <1>2
    <2> QED BY <2>1, <2>2, <2>3 DEF elements
  <1>6. Externals(t) \cup externals({s[i] : i \in k + 1 .. Len(s)}) = Externals(s)
    BY <1>4, <1>5 DEF Externals, externals
  <1>7. Externals(t) \cap externals({s[i] : i \in k + 1 .. Len(s)}) = {}
    <2> SUFFICES ASSUME NEW x \in Externals(t), x \in externals({s[i] : i \in k + 1 .. Len(s)})
                 PROVE  FALSE
      OBVIOUS
    <2>1. PICK i \in 1 .. k : x = s[i]
      BY <1>4 DEF Externals, externals
    <2>2. PICK j \in k + 1 .. Len(s) : x = s[j]
      BY DEF externals
    <2>3. i \in 1 .. Len(s) /\ j \in 1 .. Len(s) /\ i < j
      BY <1>2
    <2>4. IsExternal(x) /\ x.id < x.id
      BY <2>1, <2>2, <2>3 DEF InOrder, Externals, externals
    <2>5. x.id \in Nat
      BY <1>1, <2>1 DEF Event
    <2> QED BY <2>4, <2>5
  <1> QED BY <1>2, <1>3, <1>6, <1>7 DEF t

\* The first event is before the others.
LEMMA TailInOrder ==
    ASSUME NEW s \in Seq(Event), s # <<>>, InOrder(s)
    PROVE  /\ Tail(s) \in Seq(Event) /\ Head(s) \in Event
           /\ InOrder(Tail(s))
           /\ Externals(s) = Externals(Tail(s)) \cup externals({Head(s)})
           /\ IsExternal(Head(s)) => Before({Head(s)}, Externals(Tail(s)))
  <1> DEFINE t == Tail(s)
  <1>1. /\ t \in Seq(Event) /\ Len(t) = Len(s) - 1 /\ Head(s) = s[1] /\ Head(s) \in Event
        /\ \A i \in 1 .. Len(t) : t[i] = s[i + 1]
        /\ Len(s) \in Nat /\ Len(s) # 0
    BY HeadTailProperties, LenProperties, EmptySeq
  <1> HIDE DEF t
  <1>2. \A i \in 1 .. Len(t) : i + 1 \in 1 .. Len(s) /\ 1 < i + 1
    BY <1>1
  <1>3. \A i \in 1 .. Len(s) : i = 1 \/ (i - 1 \in 1 .. Len(t) /\ (i - 1) + 1 = i)
    BY <1>1
  <1>4. InOrder(t)
    <2> SUFFICES ASSUME NEW i \in 1 .. Len(t), NEW j \in 1 .. Len(t), i < j,
                        IsExternal(t[i]), IsExternal(t[j])
                 PROVE  t[i].id < t[j].id
      BY DEF InOrder
    <2>1. i + 1 < j + 1
      OBVIOUS
    <2> QED BY <1>1, <1>2, <2>1 DEF InOrder
  <1>5. 1 \in 1 .. Len(s)
    BY <1>1
  <1>6. elements(s) = elements(t) \cup {Head(s)}
    <2>1. ASSUME NEW i \in 1 .. Len(s) PROVE s[i] \in elements(t) \cup {Head(s)}
      <3>1. CASE i = 1
        BY <1>1, <3>1
      <3>2. CASE i - 1 \in 1 .. Len(t) /\ (i - 1) + 1 = i
        <4>1. t[i - 1] = s[i]
          BY <1>1, <3>2
        <4> QED BY <3>2, <4>1 DEF elements
      <3> QED BY <1>3, <3>1, <3>2
    <2>2. elements(s) \subseteq elements(t) \cup {Head(s)}
      BY <2>1 DEF elements
    <2>3. elements(t) \cup {Head(s)} \subseteq elements(s)
      BY <1>1, <1>2, <1>5 DEF elements
    <2> QED BY <2>2, <2>3
  <1>7. Externals(s) = Externals(t) \cup externals({Head(s)})
    BY <1>6 DEF Externals, externals
  <1>8. ASSUME IsExternal(Head(s)), NEW y \in Externals(t) PROVE Head(s).id < y.id
    <2>1. PICK i \in 1 .. Len(t) : y = t[i] /\ IsExternal(t[i])
      BY <1>8 DEF Externals, externals, elements
    <2> QED BY <1>1, <1>2, <1>5, <1>8, <2>1 DEF InOrder
  <1> QED BY <1>1, <1>4, <1>7, <1>8 DEF Before, t

\* An empty list.
LEMMA EmptyInOrder == InOrder(<<>>) /\ Externals(<<>>) = {} /\ <<>> \in Seq(Event)
  <1>1. 1 .. Len(<<>>) = {}
    OBVIOUS
  <1> QED BY <1>1 DEF InOrder, Externals, externals, elements

\* Events of the blocks of the resource do not count.
LEMMA InternalInOrder ==
    ASSUME NEW k \in Nat
    PROVE  LET s == [i \in 1 .. k |-> InternalEvent]
           IN  s \in Seq(Event) /\ InOrder(s) /\ Externals(s) = {}
  <1> DEFINE s == [i \in 1 .. k |-> InternalEvent]
  <1>1. InternalEvent \in Event /\ ~IsExternal(InternalEvent)
    BY DEF InternalEvent, Event, IsExternal
  <1>2. s \in Seq(Event) /\ Len(s) = k /\ \A i \in 1 .. k : s[i] = InternalEvent
    BY <1>1
  <1> HIDE DEF s
  <1>3. InOrder(s) /\ Externals(s) = {}
    BY <1>1, <1>2 DEF InOrder, Externals, externals, elements
  <1> QED BY <1>2, <1>3 DEF s

\* addEventEntry keeps the order; what it does not keep it drops.
LEMMA AddEntriesInOrder ==
    ASSUME NEW list \in Seq(Event), Len(list) <= ListCap, NEW new \in Seq(Event),
           InOrder(list), InOrder(new), Before(Externals(list), Externals(new))
    PROVE  LET result == addEventEntries(list, new)
               lost   == externals(dropped(list, new))
           IN  /\ InOrder(result)
               /\ Externals(list) \subseteq Externals(result)
               /\ Externals(result) \cup lost = Externals(list) \cup Externals(new)
               /\ Externals(result) \cap lost = {}
  <1>1. PICK k \in 0 .. Len(new) : k = Fitting(new, ListCap - Len(list))
    <2>1. Len(new) \in Nat /\ Len(list) \in Nat
      BY LenProperties
    <2>2. Fitting(new, ListCap - Len(list)) \in 0 .. Len(new)
      BY <2>1, EcetAssumption DEF Fitting
    <2> QED BY <2>2
  <1>2. PICK kept : kept = SubSeq(new, 1, k)
    OBVIOUS
  <1>3. PICK lost : lost = externals({new[i] : i \in k + 1 .. Len(new)})
    OBVIOUS
  <1>4. /\ kept \in Seq(Event) /\ InOrder(kept) /\ Externals(kept) \cup lost = Externals(new)
        /\ Externals(kept) \cap lost = {}
    BY <1>2, <1>3, CutInOrder
  <1>5. Before(Externals(list), Externals(kept)) /\ Before(Externals(list), lost)
    BY <1>4 DEF Before
  <1>6. InOrder(list \o kept) /\ Externals(list \o kept) = Externals(list) \cup Externals(kept)
    BY <1>4, <1>5, ConcatInOrder
  <1>7. Externals(list) \cap lost = {}
    <2>1. Externals(list) \subseteq Event /\ lost \subseteq Event
      BY <1>4, ExternalsAreEvents
    <2> QED BY <1>5, <2>1, BeforeDisjoint
  <1>8. addEventEntries(list, new) = list \o kept /\ externals(dropped(list, new)) = lost
    BY <1>1, <1>2, <1>3 DEF addEventEntries, dropped
  <1> QED BY <1>4, <1>6, <1>7, <1>8

\* What the blocks of the resource send does not touch the external events.
LEMMA InternalEntriesInOrder ==
    ASSUME NEW list \in Seq(Event), Len(list) <= ListCap, InOrder(list), NEW k \in Nat
    PROVE  LET result == addEventEntries(list, [i \in 1 .. k |-> InternalEvent])
           IN  InOrder(result) /\ Externals(result) = Externals(list)
  <1>1. PICK new : new = [i \in 1 .. k |-> InternalEvent]
    OBVIOUS
  <1>2. new \in Seq(Event) /\ InOrder(new) /\ Externals(new) = {}
    BY <1>1, InternalInOrder
  <1>3. Before(Externals(list), Externals(new))
    BY <1>2 DEF Before
  <1>4. /\ InOrder(addEventEntries(list, new))
        /\ Externals(list) \subseteq Externals(addEventEntries(list, new))
        /\ Externals(addEventEntries(list, new)) \cup externals(dropped(list, new))
              = Externals(list) \cup Externals(new)
    BY <1>2, <1>3, AddEntriesInOrder
  <1>5. Externals(addEventEntries(list, new)) = Externals(list)
    BY <1>2, <1>4
  <1> QED BY <1>1, <1>4, <1>5

\* Initially nothing was handed in.
LEMMA InitOrderInv == Init => OrderInv
  <1> SUFFICES ASSUME Init PROVE OrderInv
    OBVIOUS
  <1>1. /\ delivered = <<>> /\ mEventList = <<>> /\ mExternalEventList = <<>>
        /\ accepted = {} /\ gone = {}
    BY DEF Init
  <1> QED BY <1>1, EmptyInOrder DEF OrderInv, HistoryOK, Before

\* A step that leaves lists and history alone.
LEMMA SameOrderInv ==
    ASSUME OrderInv, UNCHANGED <<lists, history, calls>>
    PROVE  OrderInv'
  BY DEF OrderInv, HistoryOK, lists, history

\* Every step keeps the events in order.
LEMMA OrderStep ==
    ASSUME TypeOK, OrderInv, [Next]_vars
    PROVE  OrderInv'
  <1>1. /\ mEventList \in Seq(Event) /\ mExternalEventList \in Seq(Event)
        /\ delivered \in Seq(Event) /\ Len(mEventList) <= ListCap
        /\ calls \in Nat
    BY EcetAssumption DEF TypeOK, OrderInv, HistoryOK
  <1>2. /\ Externals(mEventList) \subseteq Event /\ Externals(mExternalEventList) \subseteq Event
        /\ Externals(delivered) \subseteq Event
    BY <1>1, ExternalsAreEvents
  <1>3. ASSUME NEW p \in Producers, startEventChain(p) PROVE OrderInv'
    <2>1. CASE mExternalEventList' = mExternalEventList /\ accepted' = accepted
      <3>1. \A x \in accepted : x.id < calls'
        <4>1. \A x \in accepted : x.id \in Nat /\ x.id < calls
          BY DEF OrderInv, HistoryOK, Event
        <4> QED BY <1>1, <1>3, <4>1 DEF startEventChain
      <3> QED BY <1>3, <2>1, <3>1 DEF startEventChain, OrderInv, HistoryOK
    <2>2. PICK event : event = [src |-> p, id |-> calls]
      OBVIOUS
    <2>3. event \in Event /\ IsExternal(event) /\ event.id = calls
      BY <1>1, <2>2, EcetAssumption DEF Event, IsExternal
    <2>4. CASE /\ mExternalEventList' = Append(mExternalEventList, event)
               /\ accepted' = accepted \cup {event}
      <3>1. \A x \in accepted : x.id < event.id
        BY <2>3 DEF OrderInv
      <3>2. event \notin accepted
        BY <1>1, <2>3, <3>1
      <3>3. /\ Before(Externals(delivered), {event}) /\ Before(Externals(mEventList), {event})
            /\ Before(Externals(mExternalEventList), {event})
        BY <3>1 DEF OrderInv, Before
      <3>4. /\ InOrder(mExternalEventList')
            /\ Externals(mExternalEventList') = Externals(mExternalEventList) \cup {event}
        BY <1>1, <2>3, <2>4, <3>3, AppendInOrder DEF OrderInv
      <3>5. UNCHANGED <<delivered, mEventList, gone>> /\ calls' = calls + 1
        BY <1>3 DEF startEventChain
      <3>6. /\ Before(Externals(delivered), Externals(mExternalEventList'))
            /\ Before(Externals(mEventList), Externals(mExternalEventList'))
        BY <3>3, <3>4 DEF OrderInv, Before
      <3>7. HistoryOK' /\ gone \subseteq accepted
        BY <2>3, <2>4, <3>5 DEF OrderInv, HistoryOK
      <3>8. Externals(delivered) \cup Externals(mEventList) \cup Externals(mExternalEventList')
               = accepted' \ gone
        BY <2>4, <3>2, <3>4, <3>7 DEF OrderInv
      <3>9. \A x \in accepted' : x.id < calls'
        <4>1. \A x \in accepted' : x.id \in Nat /\ x.id <= calls
          BY <1>1, <2>3, <2>4 DEF OrderInv, HistoryOK, Event
        <4> QED BY <1>1, <3>5, <4>1
      <3> QED BY <3>4, <3>5, <3>6, <3>7, <3>8, <3>9 DEF OrderInv
    <2> QED BY <1>3, <2>1, <2>2, <2>4, Zenon DEF startEventChain
  <1>4. CASE transferExternalEvents
    <2>1. PICK fallen : fallen = externals(dropped(mEventList, mExternalEventList))
      OBVIOUS
    <2>2. /\ mEventList' = addEventEntries(mEventList, mExternalEventList)
          /\ mExternalEventList' = <<>> /\ gone' = gone \cup fallen
          /\ UNCHANGED <<delivered, accepted, calls>>
      BY <1>4, <2>1 DEF transferExternalEvents
    <2>3. /\ InOrder(mEventList')
          /\ Externals(mEventList') \cup fallen
                = Externals(mEventList) \cup Externals(mExternalEventList)
          /\ Externals(mEventList') \cap fallen = {}
      BY <1>1, <2>1, <2>2, AddEntriesInOrder DEF OrderInv
    <2>4. /\ Before(Externals(delivered), Externals(mEventList'))
          /\ Before(Externals(delivered), fallen)
      BY <2>3 DEF OrderInv, Before
    <2>5. Externals(delivered) \cap fallen = {}
      <3>1. fallen \subseteq Event
        BY <1>2, <2>3
      <3> QED BY <1>2, <2>4, <3>1, BeforeDisjoint
    <2>6. HistoryOK'
      BY <2>2, <2>3 DEF OrderInv, HistoryOK
    <2>7. Externals(delivered) \cup Externals(mEventList') = accepted \ gone'
      BY <2>2, <2>3, <2>5 DEF OrderInv
    <2> QED BY <2>2, <2>3, <2>4, <2>6, <2>7, EmptyInOrder DEF OrderInv, Before
  <1>5. CASE receiveInputEvent
    <2>1. PICK k \in 0 .. FanOut :
             mEventList' = addEventEntries(Tail(mEventList), [i \in 1 .. k |-> InternalEvent])
      BY <1>5 DEF receiveInputEvent
    <2>2. PICK first, rest : first = Head(mEventList) /\ rest = Tail(mEventList)
      OBVIOUS
    <2>3. mEventList # <<>>
      BY <1>5 DEF receiveInputEvent
    <2>4. /\ rest \in Seq(Event) /\ first \in Event /\ InOrder(rest) /\ Len(rest) <= ListCap
          /\ Externals(mEventList) = Externals(rest) \cup externals({first})
          /\ IsExternal(first) => Before({first}, Externals(rest))
      <3>1. Len(Tail(mEventList)) <= ListCap
        BY <1>1, <2>3, HeadTailProperties, LenProperties, EcetAssumption
      <3> QED BY <1>1, <2>2, <2>3, <3>1, TailInOrder DEF OrderInv
    <2>6. InOrder(mEventList') /\ Externals(mEventList') = Externals(rest)
      <3>1. k \in Nat
        BY EcetAssumption
      <3> QED BY <2>1, <2>2, <2>4, <3>1, InternalEntriesInOrder
    <2>7. UNCHANGED <<mExternalEventList, accepted, gone, calls>>
      BY <1>5 DEF receiveInputEvent
    <2>8. CASE IsExternal(first)
      <3>1. delivered' = Append(delivered, first)
        BY <1>5, <2>2, <2>8 DEF receiveInputEvent
      <3>2. externals({first}) = {first} /\ Externals(mEventList) = Externals(rest) \cup {first}
        BY <2>4, <2>8 DEF externals
      <3>3. Before(Externals(delivered), {first})
        BY <3>2 DEF OrderInv, Before
      <3>4. /\ InOrder(delivered') /\ Externals(delivered') = Externals(delivered) \cup {first}
            /\ delivered' \in Seq(Event)
        BY <1>1, <2>4, <2>8, <3>1, <3>3, AppendInOrder DEF OrderInv
      <3>5. /\ Before(Externals(delivered'), Externals(mEventList'))
            /\ Before(Externals(delivered'), Externals(mExternalEventList))
            /\ Before(Externals(mEventList'), Externals(mExternalEventList))
        BY <2>4, <2>6, <2>8, <3>2, <3>4 DEF OrderInv, Before
      <3>6. Externals(delivered') \cup Externals(mEventList') \cup Externals(mExternalEventList)
               = accepted \ gone
        BY <2>6, <3>2, <3>4 DEF OrderInv
      <3>7. HistoryOK'
        BY <2>7, <3>4 DEF OrderInv, HistoryOK
      <3> QED BY <2>6, <2>7, <3>4, <3>5, <3>6, <3>7 DEF OrderInv
    <2>9. CASE ~IsExternal(first)
      <3>1. delivered' = delivered
        BY <1>5, <2>2, <2>9 DEF receiveInputEvent
      <3>2. Externals(mEventList') = Externals(mEventList)
        BY <2>4, <2>6, <2>9 DEF externals
      <3> QED BY <2>6, <2>7, <3>1, <3>2 DEF OrderInv, HistoryOK
    <2> QED BY <2>8, <2>9
  <1>6. CASE clearEventList
    <2>1. /\ mEventList' = <<>> /\ gone' = gone \cup Externals(mEventList)
          /\ UNCHANGED <<mExternalEventList, delivered, accepted, calls>>
      BY <1>6 DEF clearEventList, Externals
    <2>2. /\ Externals(delivered) \cap Externals(mEventList) = {}
          /\ Externals(mEventList) \cap Externals(mExternalEventList) = {}
      BY <1>2, BeforeDisjoint DEF OrderInv
    <2>3. Externals(delivered) \cup Externals(mExternalEventList) = accepted \ gone'
      BY <2>1, <2>2 DEF OrderInv
    <2>4. HistoryOK'
      BY <2>1 DEF OrderInv, HistoryOK
    <2> QED BY <2>1, <2>3, <2>4, EmptyInOrder DEF OrderInv, Before
  <1>7. CASE clearExternalEventList
    <2>1. /\ mExternalEventList' = <<>> /\ gone' = gone \cup Externals(mExternalEventList)
          /\ UNCHANGED <<mEventList, delivered, accepted, calls>>
      BY <1>7 DEF clearExternalEventList, Externals
    <2>2. /\ Externals(delivered) \cap Externals(mExternalEventList) = {}
          /\ Externals(mEventList) \cap Externals(mExternalEventList) = {}
      BY <1>2, BeforeDisjoint DEF OrderInv
    <2>3. Externals(delivered) \cup Externals(mEventList) = accepted \ gone'
      BY <2>1, <2>2 DEF OrderInv
    <2>4. HistoryOK'
      BY <2>1 DEF OrderInv, HistoryOK
    <2> QED BY <2>1, <2>3, <2>4, EmptyInOrder DEF OrderInv, Before
  <1>8. CASE UNCHANGED <<lists, history, calls>>
    BY <1>8, SameOrderInv
  <1> QED
    BY <1>3, <1>4, <1>5, <1>6, <1>7, <1>8
    DEF Next, vars, ProducerStep, setProcessing, resumeSelfSuspend, ThreadStep, runThread, run,
        externalEventOccured, becomeIdle, selfSuspend, resumed, exitThread,
        changeExecutionState, ManagerStep, start, stop, onAliveChanged

\* List by list and all in all it is the same.
LEMMA OrderMeansOnce ==
    ASSUME IInv, OrderInv
    PROVE  EveryEventOnceInOrder
  <1>1. /\ mEventList \in Seq(Event) /\ mExternalEventList \in Seq(Event)
        /\ delivered \in Seq(Event)
    BY DEF IInv, TypeOK, OrderInv, HistoryOK
  <1>2. PICK both : both = delivered \o mEventList
    OBVIOUS
  <1>3. /\ both \in Seq(Event) /\ InOrder(both)
        /\ Externals(both) = Externals(delivered) \cup Externals(mEventList)
    BY <1>1, <1>2, ConcatInOrder, ConcatProperties DEF OrderInv
  <1>4. PICK out : out = both \o mExternalEventList
    OBVIOUS
  <1>5. Before(Externals(both), Externals(mExternalEventList))
    BY <1>3 DEF OrderInv, Before
  <1>6. /\ InOrder(out)
        /\ Externals(out) = Externals(both) \cup Externals(mExternalEventList)
    BY <1>1, <1>3, <1>4, <1>5, ConcatInOrder DEF OrderInv
  <1>7. PICK ext : ext = {i \in 1 .. Len(out) : IsExternal(out[i])}
    OBVIOUS
  <1>8. {out[i] : i \in ext} = accepted \ gone
    <2>1. {out[i] : i \in ext} = Externals(out)
      BY <1>7 DEF Externals, externals, elements
    <2> QED BY <1>3, <1>6, <2>1 DEF OrderInv
  <1>9. \A i, j \in ext : i < j => out[i].id < out[j].id
    BY <1>6, <1>7 DEF InOrder
  <1> QED BY <1>2, <1>4, <1>7, <1>8, <1>9, Zenon DEF EveryEventOnceInOrder

\* The invariant and the property it strengthens.
LEMMA WakeupOwed == IInv => NoLostWakeup
  BY DEF IInv, WakeupInv, NoLostWakeup

-----------------------------------------------------------------------------
(* The theorems *)

\* The invariant that is inductive for the event chain execution thread.
THEOREM EcetInductive == Spec => []IInv
  <1>1. IInv /\ [Next]_vars => IInv'
    BY TypeStep, WakeupStep DEF IInv
  <1> QED BY <1>1, InitIInv, PTL DEF Spec

\* The lists never exceed their capacities, whatever the FBs send and whoever hands in
\* events.
THEOREM EcetTypeCorrect == Spec => []TypeOK
  BY EcetInductive, PTL DEF IInv

\* The thread never sleeps on an external event: for any number of producers and any
\* capacities, whenever it is suspended with an event waiting, a wake-up is posted or owed.
THEOREM EcetNoLostWakeup == Spec => []NoLostWakeup
  BY WakeupOwed, EcetInductive, PTL

\* startEventChain, transferExternalEvents and the execution of the blocks hand every
\* accepted event on once and in the order of the calls, for any number of producers, any
\* fan-out and any capacity; what a full list or a kill discards is all that is missing.
THEOREM EcetEveryEventOnceInOrder == Spec => []EveryEventOnceInOrder
  <1>1. IInv /\ OrderInv /\ [Next]_vars => OrderInv'
    BY OrderStep DEF IInv
  <1>2. IInv /\ OrderInv => EveryEventOnceInOrder
    BY OrderMeansOnce
  <1> QED BY <1>1, <1>2, InitOrderInv, EcetInductive, PTL DEF Spec

\* A thread is only created when the previous one has ended.
THEOREM EcetOneThread == Spec => OneThread
  <1>1. IInv /\ [Next]_vars => [tpc' = "spawned" /\ tpc # "spawned" => tpc = "none"]_vars
    <2> SUFFICES ASSUME IInv, Next, tpc' = "spawned", tpc # "spawned" PROVE tpc = "none"
      OBVIOUS
    <2>1. start
      BY DEF Next, startEventChain, ProducerStep, setProcessing, resumeSelfSuspend, ThreadStep,
             runThread, run, externalEventOccured, transferExternalEvents, becomeIdle,
             receiveInputEvent, selfSuspend, resumed, exitThread, changeExecutionState,
             ManagerStep, clearEventList, clearExternalEventList, stop, onAliveChanged
    <2> QED BY <2>1 DEF start, IInv, HandleInv
  <1> QED BY <1>1, EcetInductive, PTL DEF Spec, OneThread

-----------------------------------------------------------------------------
(* E_RESTART in the resource *)

RestartTypeOK ==
    /\ rState \in States
    /\ mEventToSend \in {"none", "COLD", "WARM", "STOP"}
    /\ stopSemaphore \in BOOLEAN
    /\ rcmd \in Commands
    /\ rpc \in {"none", "base", "event", "rerun", "chain", "chained"}
    /\ xpc \in {"none", "test", "send", "sent", "stop", "post"}
    /\ stopsSent \in 0 .. 2
    /\ quiet \in BOOLEAN

\* The executing thread cannot be in two places.
InsideInv == xpc # "none" => tpc = "loop"

\* How far a Stop has come.  An earlier chain may already have executed STOP when the new
\* one is started; then the semaphore is posted or about to be.
CommandInv ==
    /\ rcmd = "Stop" /\ rpc \in {"event", "rerun"} => rState = "Stopped"
    /\ rcmd = "Stop" /\ rpc \in {"rerun", "chain", "chained"} => mEventToSend = "STOP"
    /\ rcmd = "Stop" /\ rpc = "chain" => rState = "Running" \/ xpc = "post" \/ stopSemaphore
    /\ rpc = "chained" => chain.src = Manager

\* StopIsOwed, from the moment on that the chain has been started.
Owed ==
    \/ ChainLost
    \/ xpc \in {"stop", "post"}
    \/ mEventToSend = "STOP" /\ xpc \in {"test", "send", "sent"}
    \/ mEventToSend = "STOP" /\ rState = "Running" /\ chain \in waiting
OwedInv == rcmd = "Stop" /\ rpc = "chained" /\ ~stopSemaphore => Owed

\* A Stop that began in peace: nothing happens before its chain is started, and then only
\* its own entry is executed, once.
Progress(S, pcs, semaphore, sends, state) ==
    /\ waiting \subseteq S /\ xpc \in pcs /\ (stopSemaphore <=> semaphore)
    /\ stopsSent = sends /\ rState = state
CleanInv ==
    rcmd = "Stop" /\ quiet =>
        /\ rpc \in {"event", "rerun", "chain"} =>
              waiting = {} /\ xpc = "none" /\ ~stopSemaphore /\ stopsSent = 0
        /\ rpc = "chained" =>
              \/ Progress({chain}, {"none"}, FALSE, 0, "Running")
              \/ Progress({}, {"test", "send"}, FALSE, 0, "Running")
              \/ Progress({}, {"sent", "stop"}, FALSE, 1, "Running")
              \/ Progress({}, {"post"}, FALSE, 1, "Stopped")
              \/ Progress({}, {"none"}, TRUE, 1, "Stopped")

EcetInv == IInv /\ OrderInv
RestartInv == RestartTypeOK /\ InsideInv /\ CommandInv /\ OwedInv /\ CleanInv

\* An entry of E_RESTART executed by the thread of the resource is one of the events it
\* delivers; the block sends later, in steps of its own.
LEMMA ReceiveIsReceive ==
    ASSUME TypeOK, receiveRestartEvent
    PROVE  receiveInputEvent
  <1>1. PICK t : t = Tail(mEventList)
    OBVIOUS
  <1>2. mEventList \in Seq(Event) /\ mEventList # <<>> /\ Len(mEventList) <= ListCap
    BY DEF TypeOK, receiveRestartEvent
  <1>3. t \in Seq(Event) /\ Len(t) <= ListCap /\ Len(t) \in Nat
    BY <1>1, <1>2, HeadTailProperties, LenProperties, EcetAssumption
  <1>4. [i \in 1 .. 0 |-> InternalEvent] = <<>>
    OBVIOUS
  <1>5. Fitting(<<>>, ListCap - Len(t)) = 0
    BY <1>3, EcetAssumption DEF Fitting
  <1>6. addEventEntries(t, <<>>) = t
    <2>1. SubSeq(<<>>, 1, 0) = <<>>
      OBVIOUS
    <2> QED BY <1>3, <1>5, <2>1, ConcatEmptySeq DEF addEventEntries
  <1>7. mEventList' = addEventEntries(Tail(mEventList), [i \in 1 .. 0 |-> InternalEvent])
    BY <1>1, <1>4, <1>6 DEF receiveRestartEvent
  <1>8. 0 \in 0 .. FanOut
    BY EcetAssumption
  <1>9. IsExternal(Head(mEventList))
    BY EcetAssumption, RestartAssumption DEF receiveRestartEvent, IsExternal
  <1> QED BY <1>7, <1>8, <1>9 DEF receiveRestartEvent, receiveInputEvent

\* What the block sends goes to the end of the event list.
LEMMA SendKeepsEcetInv ==
    ASSUME EcetInv, InsideInv, sendEvent
    PROVE  EcetInv'
  <1>1. PICK k \in 0 .. FanOut :
           mEventList' = addEventEntries(mEventList, [i \in 1 .. k |-> InternalEvent])
    BY DEF sendEvent
  <1>2. /\ k \in Nat /\ mEventList \in Seq(Event) /\ Len(mEventList) <= ListCap
        /\ InOrder(mEventList) /\ tpc = "loop"
    BY EcetAssumption DEF EcetInv, IInv, TypeOK, OrderInv, InsideInv, sendEvent
  <1>3. InOrder(mEventList') /\ Externals(mEventList') = Externals(mEventList)
    BY <1>1, <1>2, InternalEntriesInOrder
  <1>4. mEventList' \in Seq(Event) /\ Len(mEventList') <= ListCap
    <2>1. [i \in 1 .. k |-> InternalEvent] \in Seq(Event)
      BY <1>2, InternalInOrder
    <2> QED BY <1>1, <1>2, <2>1, AddEntriesBounded
  <1>5. TypeOK'
    BY <1>4 DEF sendEvent, EcetInv, IInv, TypeOK
  <1>6. WakeupInv' /\ HandleInv'
    BY <1>2 DEF sendEvent, EcetInv, IInv, WakeupInv, HandleInv
  <1>7. OrderInv'
    BY <1>3 DEF sendEvent, history, EcetInv, OrderInv, HistoryOK
  <1> QED BY <1>5, <1>6, <1>7 DEF EcetInv, IInv

\* The resource around E_RESTART keeps the invariant of its thread.
LEMMA EcetInvStep ==
    ASSUME EcetInv, InsideInv, [RestartNext]_allVars
    PROVE  EcetInv'
  <1>1. CASE [Next]_vars
    BY <1>1, TypeStep, WakeupStep, OrderStep DEF EcetInv, IInv
  <1>2. CASE sendEvent
    BY <1>2, SendKeepsEcetInv
  <1>3. CASE baseChange
    <2>1. mpc' = mpc \/ mpc' = "ready"
      BY <1>3 DEF baseChange
    <2>2. TypeOK'
      BY <1>3, <2>1 DEF baseChange, lists, history, EcetInv, IInv, TypeOK
    <2>3. WakeupInv' /\ HandleInv' /\ OrderInv'
      BY <1>3 DEF baseChange, lists, history, EcetInv, IInv, WakeupInv, WakeupPending,
         HandleInv, OrderInv, HistoryOK
    <2> QED BY <2>2, <2>3 DEF EcetInv, IInv
  <1>4. CASE receiveRestartEvent
    <2>1. Next
      BY <1>4, ReceiveIsReceive DEF EcetInv, IInv, Next, ThreadStep
    <2> QED BY <1>1, <2>1
  <1>5. ASSUME NEW c \in Commands, Command(c) PROVE Next
    BY <1>5 DEF Command, Next
  <1>6. CASE startNewEventChain
    BY <1>1, <1>6, RestartAssumption DEF startNewEventChain, Next
  <1>7. CASE OtherThreadStep \/ OtherManagerStep
    BY <1>1, <1>7 DEF OtherThreadStep, OtherManagerStep, Next
  <1>8. ASSUME NEW p \in Producers, OtherProducer(p) \/ Wake(p) PROVE Next
    BY <1>8 DEF OtherProducer, Wake, Next
  <1>9. CASE UNCHANGED vars
    BY <1>1, <1>9
  <1> QED
    BY <1>1, <1>2, <1>3, <1>4, <1>5, <1>6, <1>7, <1>8, <1>9
    DEF RestartNext, allVars, RestartStep, setEvent, keepRunning, startReturns, waitForStop,
        ExecuteStep, testEvent, testStop, finallyStop, releaseSemaphore

\* The entries of E_RESTART are external events.
LEMMA EntriesAreExternal ==
    ASSUME NEW s, NEW t
    PROVE  {x \in elements(s) \cup elements(t) : x.src = Manager} =
              {x \in Externals(s) \cup Externals(t) : x.src = Manager}
  BY EcetAssumption, RestartAssumption DEF Externals, externals, IsExternal

\* While E_RESTART itself does nothing, an entry of it can only be dropped.
LEMMA OthersKeepRestartInv ==
    ASSUME RestartInv, UNCHANGED restartVars, InsideInv', gone \subseteq gone',
           waiting' \subseteq waiting, waiting \ waiting' \subseteq gone',
           chain.src = Manager /\ chain \in accepted' => chain \in accepted
    PROVE  RestartInv'
  <1> USE DEF RestartInv, restartVars
  <1>1. RestartTypeOK' /\ CommandInv'
    BY DEF RestartTypeOK, CommandInv
  <1>2. OwedInv'
    <2> SUFFICES ASSUME rcmd = "Stop", rpc = "chained", ~stopSemaphore, Owed PROVE Owed'
      BY DEF OwedInv
    <2>1. ChainLost => ChainLost'
      BY DEF ChainLost, CommandInv
    <2>2. chain \in waiting => chain \in waiting' \/ ChainLost'
      BY DEF ChainLost
    <2> QED BY <2>1, <2>2 DEF Owed
  <1>3. CleanInv'
    <2> SUFFICES ASSUME rcmd = "Stop", quiet PROVE CleanInv'
      BY DEF CleanInv
    <2>1. CASE rpc = "chained"
      BY <2>1 DEF CleanInv, Progress
    <2>2. CASE rpc # "chained"
      BY <2>2 DEF CleanInv
    <2> QED BY <2>1, <2>2
  <1> QED BY <1>1, <1>2, <1>3

\* The executing thread is busy elsewhere.
LEMMA OtherThreadKeepsRestartInv ==
    ASSUME EcetInv, RestartInv, OtherThreadStep
    PROVE  RestartInv'
  <1>1. UNCHANGED restartVars /\ InsideInv' /\ accepted' = accepted
    BY DEF OtherThreadStep, restartVars, InsideInv, ThreadStep, runThread, run,
           externalEventOccured, transferExternalEvents, becomeIdle, receiveInputEvent,
           selfSuspend, resumed, exitThread, history
  <1>2. /\ mEventList \in Seq(Event) /\ mExternalEventList \in Seq(Event)
        /\ Len(mEventList) <= ListCap
        /\ InOrder(mEventList) /\ InOrder(mExternalEventList)
        /\ Before(Externals(mEventList), Externals(mExternalEventList))
    BY DEF EcetInv, IInv, TypeOK, OrderInv
  <1>3. /\ waiting = {x \in Externals(mEventList) \cup Externals(mExternalEventList) :
                        x.src = Manager}
        /\ waiting' = {x \in Externals(mEventList') \cup Externals(mExternalEventList') :
                        x.src = Manager}
    BY EntriesAreExternal DEF waiting
  <1>4. CASE transferExternalEvents
    <2>1. PICK fallen : fallen = externals(dropped(mEventList, mExternalEventList))
      OBVIOUS
    <2>2. /\ mEventList' = addEventEntries(mEventList, mExternalEventList)
          /\ mExternalEventList' = <<>> /\ gone' = gone \cup fallen
      BY <1>4, <2>1 DEF transferExternalEvents
    <2>3. Externals(mEventList') \cup fallen
             = Externals(mEventList) \cup Externals(mExternalEventList)
      BY <1>2, <2>1, <2>2, AddEntriesInOrder
    <2>4. Externals(mExternalEventList') = {}
      BY <2>2, EmptyInOrder
    <2> QED BY <1>1, <1>3, <2>2, <2>3, <2>4, OthersKeepRestartInv
  <1>5. CASE receiveInputEvent
    <2>1. PICK k \in 0 .. FanOut :
             mEventList' = addEventEntries(Tail(mEventList), [i \in 1 .. k |-> InternalEvent])
      BY <1>5 DEF receiveInputEvent
    <2>2. PICK first, rest : first = Head(mEventList) /\ rest = Tail(mEventList)
      OBVIOUS
    <2>3. mEventList # <<>> /\ first.src # Manager /\ UNCHANGED <<mExternalEventList, gone>>
      BY <1>5, <2>2 DEF receiveInputEvent, OtherThreadStep
    <2>4. /\ rest \in Seq(Event) /\ InOrder(rest) /\ Len(rest) <= ListCap
          /\ Externals(mEventList) = Externals(rest) \cup externals({first})
      <3>1. Len(Tail(mEventList)) <= ListCap
        BY <1>2, <2>3, HeadTailProperties, LenProperties, EcetAssumption
      <3> QED BY <1>2, <2>2, <2>3, <3>1, TailInOrder
    <2>5. Externals(mEventList') = Externals(rest)
      <3>1. k \in Nat
        BY EcetAssumption
      <3> QED BY <2>1, <2>2, <2>4, <3>1, InternalEntriesInOrder
    <2>6. waiting' = waiting
      BY <1>3, <2>3, <2>4, <2>5 DEF externals
    <2> QED BY <1>1, <2>3, <2>6, OthersKeepRestartInv
  <1>6. CASE UNCHANGED <<lists, history>>
    BY <1>1, <1>6, OthersKeepRestartInv DEF lists, history, waiting
  <1> QED
    BY <1>4, <1>5, <1>6
    DEF OtherThreadStep, ThreadStep, runThread, run, externalEventOccured, becomeIdle,
        selfSuspend, resumed, exitThread

\* Other producers, and the command after E_RESTART has returned.
LEMMA OutsideKeepsRestartInv ==
    ASSUME EcetInv, RestartInv,
           \/ OtherManagerStep
           \/ \E p \in Producers : OtherProducer(p) \/ Wake(p)
           \/ UNCHANGED allVars
    PROVE  RestartInv'
  <1>1. CASE OtherManagerStep
    <2>1. UNCHANGED restartVars /\ rpc = "none"
      BY <1>1 DEF OtherManagerStep
    <2>2. tpc # "none" => tpc' = tpc
      BY <1>1 DEF OtherManagerStep, ManagerStep, start, clearEventList, clearExternalEventList,
         stop, onAliveChanged, EcetInv, IInv, HandleInv
    <2>3. InsideInv'
      BY <2>1, <2>2 DEF restartVars, RestartInv, InsideInv
    <2> QED BY <2>1, <2>3 DEF restartVars, RestartInv, RestartTypeOK, CommandInv, OwedInv, CleanInv
  <1>2. ASSUME NEW p \in Producers, OtherProducer(p) PROVE RestartInv'
    <2>1. /\ UNCHANGED restartVars /\ p # Manager
          /\ UNCHANGED <<mEventList, tpc, gone>>
      BY <1>2 DEF OtherProducer, startEventChain
    <2>2. PICK event : event = [src |-> p, id |-> calls]
      OBVIOUS
    <2>3. event.src # Manager
      BY <2>1, <2>2
    <2>4. CASE mExternalEventList' = mExternalEventList /\ accepted' = accepted
      BY <2>1, <2>4, OthersKeepRestartInv DEF waiting, RestartInv, InsideInv, restartVars
    <2>5. CASE /\ mExternalEventList' = Append(mExternalEventList, event)
               /\ accepted' = accepted \cup {event}
      <3>1. mExternalEventList \in Seq(Event) /\ event \in Event
        BY <2>2 DEF EcetInv, IInv, TypeOK, Event
      <3>2. elements(mExternalEventList') = elements(mExternalEventList) \cup {event}
        BY <2>5, <3>1, AppendElements
      <3>3. waiting' = waiting
        BY <2>1, <2>3, <3>2 DEF waiting
      <3> QED BY <2>1, <2>3, <2>5, <3>3, OthersKeepRestartInv DEF RestartInv, InsideInv, restartVars
    <2> QED BY <1>2, <2>2, <2>4, <2>5, Zenon DEF OtherProducer, startEventChain
  <1>3. ASSUME NEW p \in Producers, Wake(p) PROVE RestartInv'
    <2>1. UNCHANGED restartVars /\ UNCHANGED <<lists, tpc, history>>
      BY <1>3 DEF Wake, ProducerStep, setProcessing, resumeSelfSuspend
    <2> QED BY <2>1, OthersKeepRestartInv DEF lists, history, waiting, RestartInv, InsideInv,
         restartVars
  <1>4. CASE UNCHANGED allVars
    BY <1>4, OthersKeepRestartInv DEF allVars, vars, lists, history, waiting, RestartInv,
       InsideInv, restartVars
  <1> QED BY <1>1, <1>2, <1>3, <1>4

-----------------------------------------------------------------------------
\* The management thread in E_RESTART, up to the chain.
LEMMA CommandKeepsRestartInv ==
    ASSUME EcetInv, RestartInv,
           \/ \E c \in Commands : Command(c)
           \/ baseChange \/ setEvent \/ keepRunning \/ startReturns \/ waitForStop
    PROVE  RestartInv'
  <1> USE DEF RestartInv
  <1>1. ASSUME NEW c \in Commands, Command(c) PROVE RestartInv'
    BY <1>1 DEF Command, changeExecutionState, RestartTypeOK, InsideInv, CommandInv, OwedInv,
       CleanInv
  <1>2. CASE baseChange
    <2>1. waiting' = waiting /\ rpc' \in {"event", "none"} /\ UNCHANGED <<rcmd, xpc, tpc>>
      BY <1>2 DEF baseChange, lists, waiting
    <2>2. stopsSent' \in 0 .. 2 /\ (rcmd = "Stop" => stopsSent' = 0)
      BY <1>2 DEF baseChange, RestartTypeOK
    <2>3. quiet' \in BOOLEAN
      BY <1>2 DEF baseChange, RestartTypeOK
    <2>4. rcmd = "Stop" /\ quiet' => waiting = {} /\ xpc = "none" /\ ~stopSemaphore
      BY <1>2 DEF baseChange
    <2>5. rState' \in States /\ (rcmd = "Stop" /\ rpc' = "event" => rState' = "Stopped")
      BY <1>2 DEF baseChange, RestartTypeOK, Target, States, Commands, Legal
    <2>6. RestartTypeOK' /\ InsideInv'
      BY <1>2, <2>1, <2>2, <2>3, <2>5 DEF baseChange, RestartTypeOK, InsideInv
    <2>7. CommandInv' /\ OwedInv'
      BY <2>1, <2>5 DEF CommandInv, OwedInv
    <2>8. CleanInv'
      <3>1. stopSemaphore' = stopSemaphore
        BY <1>2 DEF baseChange
      <3> QED BY <2>1, <2>2, <2>4, <3>1 DEF CleanInv
    <2> QED BY <2>6, <2>7, <2>8
  <1>3. CASE setEvent
    <2>1. /\ rpc = "event" /\ UNCHANGED <<rState, stopSemaphore, rcmd, xpc, chain, stopsSent, quiet>>
          /\ UNCHANGED <<mEventList, mExternalEventList, tpc>>
      BY <1>3 DEF setEvent, vars, lists
    <2>2. /\ mEventToSend' \in {"none", "COLD", "WARM", "STOP"}
          /\ rpc' \in {"none", "chain", "rerun"}
          /\ rcmd = "Stop" => mEventToSend' = "STOP" /\ rpc' = "rerun"
      <3>1. CASE rcmd = "Stop"
        BY <1>3, <3>1 DEF setEvent
      <3>2. CASE rcmd = "Start"
        BY <1>3, <3>2 DEF setEvent
      <3>3. CASE rcmd \notin {"Start", "Stop"}
        BY <1>3, <3>3 DEF setEvent
      <3> QED BY <3>1, <3>2, <3>3
    <2>3. waiting' = waiting
      BY <2>1 DEF waiting
    <2>4. RestartTypeOK' /\ InsideInv'
      BY <2>1, <2>2 DEF RestartTypeOK, InsideInv
    <2>5. CommandInv' /\ OwedInv'
      BY <2>1, <2>2 DEF CommandInv, OwedInv
    <2>6. CleanInv'
      BY <2>1, <2>2, <2>3 DEF CleanInv
    <2> QED BY <2>4, <2>5, <2>6
  <1>4. CASE keepRunning
    <2>1. /\ rpc = "rerun" /\ rpc' = "chain"
          /\ UNCHANGED <<mEventToSend, stopSemaphore, rcmd, xpc, chain, stopsSent, quiet>>
          /\ UNCHANGED <<mEventList, mExternalEventList, tpc>>
      BY <1>4 DEF keepRunning, vars, lists
    <2>2. rState' \in States /\ (rcmd = "Stop" => rState' = "Running")
      BY <1>4, <2>1 DEF keepRunning, RestartTypeOK, CommandInv, Legal, States
    <2>3. waiting' = waiting
      BY <2>1 DEF waiting
    <2>4. RestartTypeOK' /\ InsideInv'
      BY <2>1, <2>2 DEF RestartTypeOK, InsideInv
    <2>5. CommandInv' /\ OwedInv'
      BY <2>1, <2>2 DEF CommandInv, OwedInv
    <2>6. CleanInv'
      BY <2>1, <2>2, <2>3 DEF CleanInv
    <2> QED BY <2>4, <2>5, <2>6
  <1>5. CASE startReturns \/ waitForStop
    <2>1. /\ rpc' = "none" /\ stopSemaphore' \in BOOLEAN
          /\ UNCHANGED <<rState, mEventToSend, rcmd, xpc, chain, stopsSent, quiet, tpc>>
      <3>1. CASE startReturns
        BY <3>1 DEF startReturns, vars, RestartTypeOK
      <3>2. CASE waitForStop
        BY <3>2 DEF waitForStop, vars
      <3> QED BY <1>5, <3>1, <3>2
    <2> QED BY <2>1 DEF RestartTypeOK, InsideInv, CommandInv, OwedInv, CleanInv
  <1> QED BY <1>1, <1>2, <1>3, <1>4, <1>5

\* The chain is started, or refused by a full list.
LEMMA ChainKeepsRestartInv ==
    ASSUME EcetInv, RestartInv, startNewEventChain
    PROVE  RestartInv'
  <1> USE DEF RestartInv
  <1>1. /\ rpc = "chain" /\ rpc' = "chained" /\ chain' = [src |-> Manager, id |-> calls]
        /\ UNCHANGED <<rState, mEventToSend, stopSemaphore, rcmd, xpc, stopsSent, quiet>>
        /\ UNCHANGED <<mEventList, tpc, gone>>
    BY DEF startNewEventChain, startEventChain
  <1>2. chain'.src = Manager /\ chain'.id = calls
    BY <1>1
  <1>3. RestartTypeOK' /\ InsideInv' /\ CommandInv'
    BY <1>1, <1>2 DEF RestartTypeOK, InsideInv, CommandInv
  <1>4. \/ waiting' = waiting \cup {chain'}
        \/ waiting' = waiting /\ chain' \notin accepted'
    <2>1. PICK event : event = [src |-> Manager, id |-> calls]
      OBVIOUS
    <2>2. CASE mExternalEventList' = Append(mExternalEventList, event)
      <3>1. mExternalEventList \in Seq(Event) /\ event \in Event
        BY <2>1, RestartAssumption DEF EcetInv, IInv, TypeOK, Event
      <3>2. elements(mExternalEventList') = elements(mExternalEventList) \cup {event}
        BY <2>2, <3>1, AppendElements
      <3>3. event.src = Manager /\ event = chain'
        BY <1>1, <2>1
      <3> QED BY <1>1, <3>2, <3>3 DEF waiting
    <2>3. CASE mExternalEventList' = mExternalEventList /\ accepted' = accepted
      <3>1. \A x \in accepted : x.id < calls /\ calls \in Nat
        BY EcetAssumption DEF EcetInv, IInv, OrderInv, TypeOK
      <3>2. chain' \notin accepted
        BY <1>2, <3>1
      <3> QED BY <1>1, <2>3, <3>2 DEF waiting
    <2> QED BY <2>1, <2>2, <2>3, Zenon DEF startNewEventChain, startEventChain
  <1>5. OwedInv'
    <2> SUFFICES ASSUME rcmd = "Stop", ~stopSemaphore PROVE Owed'
      BY <1>1 DEF OwedInv
    <2>1. mEventToSend' = "STOP" /\ (rState' = "Running" \/ xpc' = "post")
      BY <1>1 DEF CommandInv
    <2> QED BY <1>4, <2>1 DEF Owed, ChainLost
  <1>6. CleanInv'
    <2> SUFFICES ASSUME rcmd = "Stop", quiet
                 PROVE  Progress({chain}, {"none"}, FALSE, 0, "Running")'
      BY <1>1 DEF CleanInv
    <2>1. waiting = {} /\ xpc = "none" /\ ~stopSemaphore /\ stopsSent = 0
      BY <1>1 DEF CleanInv
    <2>2. rState = "Running"
      BY <1>1, <2>1 DEF CommandInv
    <2> QED BY <1>1, <1>4, <2>1, <2>2 DEF Progress
  <1> QED BY <1>3, <1>5, <1>6

-----------------------------------------------------------------------------
\* An entry of E_RESTART is executed.
LEMMA ReceiveKeepsRestartInv ==
    ASSUME EcetInv, RestartInv, receiveRestartEvent
    PROVE  RestartInv'
  <1> USE DEF RestartInv
  <1>1. PICK first, rest : first = Head(mEventList) /\ rest = Tail(mEventList)
    OBVIOUS
  <1>2. /\ xpc = "none" /\ mEventList # <<>> /\ first.src = Manager /\ mEventList' = rest
        /\ tpc' = "loop" /\ xpc' = IF rState = "Running" THEN "test" ELSE "none"
        /\ UNCHANGED <<mExternalEventList, accepted, gone>>
        /\ UNCHANGED <<rState, mEventToSend, stopSemaphore, rcmd, rpc, chain, stopsSent, quiet>>
    BY <1>1 DEF receiveRestartEvent
  <1>3. waiting = waiting' \cup {first} /\ first \notin waiting'
    <2>1. /\ mEventList \in Seq(Event) /\ mExternalEventList \in Seq(Event)
          /\ InOrder(mEventList)
          /\ Before(Externals(mEventList), Externals(mExternalEventList))
      BY DEF EcetInv, IInv, TypeOK, OrderInv
    <2>2. IsExternal(first)
      BY <1>2, EcetAssumption, RestartAssumption DEF IsExternal
    <2>3. /\ rest \in Seq(Event) /\ first \in Event
          /\ Externals(mEventList) = Externals(rest) \cup {first}
          /\ Before({first}, Externals(rest))
      <3>1. /\ rest \in Seq(Event) /\ first \in Event
            /\ Externals(mEventList) = Externals(rest) \cup externals({first})
            /\ Before({first}, Externals(rest))
        BY <1>1, <1>2, <2>1, <2>2, TailInOrder
      <3> QED BY <2>2, <3>1 DEF externals
    <2>4. Before({first}, Externals(mExternalEventList))
      BY <2>1, <2>3 DEF Before
    <2>5. /\ first \notin Externals(rest) /\ first \notin Externals(mExternalEventList)
      <3>1. first.id \in Nat
        BY <2>3 DEF Event
      <3> QED BY <2>3, <2>4, <3>1 DEF Before
    <2>6. /\ waiting = {x \in Externals(mEventList) \cup Externals(mExternalEventList) :
                          x.src = Manager}
          /\ waiting' = {x \in Externals(rest) \cup Externals(mExternalEventList) :
                          x.src = Manager}
      BY <1>2, EntriesAreExternal DEF waiting
    <2> QED BY <1>2, <2>3, <2>5, <2>6
  <1>4. RestartTypeOK' /\ InsideInv' /\ CommandInv'
    BY <1>2 DEF RestartTypeOK, InsideInv, CommandInv
  <1>5. OwedInv'
    <2> SUFFICES ASSUME rcmd = "Stop", rpc = "chained", ~stopSemaphore PROVE Owed'
      BY <1>2 DEF OwedInv
    <2>1. mEventToSend' = "STOP" /\ Owed
      BY <1>2 DEF CommandInv, OwedInv
    <2>2. CASE ChainLost
      BY <1>2, <2>2 DEF Owed, ChainLost
    <2>3. CASE rState = "Running"
      BY <1>2, <2>1, <2>3 DEF Owed
    <2> QED BY <1>2, <2>1, <2>2, <2>3 DEF Owed
  <1>6. CleanInv'
    <2> SUFFICES ASSUME rcmd = "Stop", quiet PROVE CleanInv'
      BY <1>2 DEF CleanInv
    <2>1. rpc \notin {"event", "rerun", "chain"}
      BY <1>3 DEF CleanInv
    <2>2. CASE rpc = "chained"
      <3>1. Progress({chain}, {"none"}, FALSE, 0, "Running")
        BY <1>2, <1>3, <2>2 DEF CleanInv, Progress
      <3>2. waiting' = {}
        BY <1>3, <3>1 DEF Progress
      <3>3. Progress({}, {"test", "send"}, FALSE, 0, "Running")'
        BY <1>2, <3>1, <3>2 DEF Progress
      <3> QED BY <1>2, <2>2, <3>3 DEF CleanInv
    <2>3. CASE rpc # "chained"
      BY <1>2, <2>1, <2>3 DEF CleanInv
    <2> QED BY <2>2, <2>3
  <1> QED BY <1>4, <1>5, <1>6

\* executeEvent, step by step.
LEMMA ExecuteKeepsRestartInv ==
    ASSUME EcetInv, RestartInv, testEvent \/ sendEvent \/ testStop \/ finallyStop \/ releaseSemaphore
    PROVE  RestartInv'
  <1> USE DEF RestartInv
  <1>1. waiting' = waiting /\ UNCHANGED <<tpc, accepted, gone, rcmd, rpc, chain, quiet, mEventToSend>>
    <2>1. CASE sendEvent
      <3>1. PICK k \in 0 .. FanOut :
               mEventList' = addEventEntries(mEventList, [i \in 1 .. k |-> InternalEvent])
        BY <2>1 DEF sendEvent
      <3>2. /\ k \in Nat /\ mEventList \in Seq(Event) /\ Len(mEventList) <= ListCap
            /\ InOrder(mEventList)
        BY EcetAssumption DEF EcetInv, IInv, TypeOK, OrderInv
      <3>3. Externals(mEventList') = Externals(mEventList)
        BY <3>1, <3>2, InternalEntriesInOrder
      <3>4. /\ mExternalEventList' = mExternalEventList
            /\ UNCHANGED <<tpc, accepted, gone, rcmd, rpc, chain, quiet, mEventToSend>>
        BY <2>1 DEF sendEvent, history
      <3>5. /\ waiting = {x \in Externals(mEventList) \cup Externals(mExternalEventList) :
                            x.src = Manager}
            /\ waiting' = {x \in Externals(mEventList') \cup Externals(mExternalEventList) :
                            x.src = Manager}
        BY <3>4, EntriesAreExternal DEF waiting
      <3> QED BY <3>3, <3>4, <3>5
    <2>2. CASE testEvent \/ testStop \/ finallyStop \/ releaseSemaphore
      BY <2>2 DEF testEvent, testStop, finallyStop, releaseSemaphore, vars, lists, history, waiting
    <2> QED BY <2>1, <2>2
  <1>2. ChainLost' = ChainLost
    BY <1>1 DEF ChainLost
  <1>3. CASE testEvent
    <2>1. /\ xpc = "test" /\ xpc' = IF mEventToSend = "none" THEN "none" ELSE "send"
          /\ UNCHANGED <<rState, stopSemaphore, stopsSent>>
      BY <1>3 DEF testEvent
    <2>2. RestartTypeOK' /\ InsideInv' /\ CommandInv'
      BY <1>1, <2>1 DEF RestartTypeOK, InsideInv, CommandInv
    <2>3. OwedInv'
      BY <1>1, <1>2, <2>1 DEF OwedInv, Owed, CommandInv
    <2>4. CleanInv'
      BY <1>1, <2>1 DEF CleanInv, Progress, CommandInv
    <2> QED BY <2>2, <2>3, <2>4
  <1>4. CASE sendEvent
    <2>1. /\ xpc = "send" /\ xpc' = "sent" /\ UNCHANGED <<rState, stopSemaphore>>
          /\ stopsSent' = IF mEventToSend = "STOP" /\ stopsSent < 2 THEN stopsSent + 1
                                                                    ELSE stopsSent
      BY <1>4 DEF sendEvent
    <2>2. stopsSent' \in 0 .. 2
      BY <2>1 DEF RestartTypeOK
    <2>3. RestartTypeOK' /\ InsideInv' /\ CommandInv'
      BY <1>1, <2>1, <2>2 DEF RestartTypeOK, InsideInv, CommandInv
    <2>4. OwedInv'
      BY <1>1, <1>2, <2>1 DEF OwedInv, Owed, CommandInv
    <2>5. CleanInv'
      BY <1>1, <2>1 DEF CleanInv, Progress, CommandInv
    <2> QED BY <2>3, <2>4, <2>5
  <1>5. CASE testStop
    <2>1. /\ xpc = "sent" /\ xpc' = IF mEventToSend = "STOP" THEN "stop" ELSE "none"
          /\ UNCHANGED <<rState, stopSemaphore, stopsSent>>
      BY <1>5 DEF testStop
    <2>2. RestartTypeOK' /\ InsideInv' /\ CommandInv'
      BY <1>1, <2>1 DEF RestartTypeOK, InsideInv, CommandInv
    <2>3. OwedInv'
      BY <1>1, <1>2, <2>1 DEF OwedInv, Owed, CommandInv
    <2>4. CleanInv'
      BY <1>1, <2>1 DEF CleanInv, Progress, CommandInv
    <2> QED BY <2>2, <2>3, <2>4
  <1>6. CASE finallyStop
    <2>1. /\ xpc = "stop" /\ xpc' = "post" /\ UNCHANGED <<stopSemaphore, stopsSent>>
          /\ rState' \in States /\ (rState \in {"Running", "Stopped"} => rState' = "Stopped")
      BY <1>6 DEF finallyStop, RestartTypeOK, States, Legal
    <2>2. RestartTypeOK' /\ InsideInv' /\ CommandInv'
      BY <1>1, <2>1 DEF RestartTypeOK, InsideInv, CommandInv
    <2>3. OwedInv'
      BY <1>1, <2>1 DEF OwedInv, Owed
    <2>4. CleanInv'
      BY <1>1, <2>1 DEF CleanInv, Progress
    <2> QED BY <2>2, <2>3, <2>4
  <1>7. CASE releaseSemaphore
    <2>1. xpc = "post" /\ xpc' = "none" /\ stopSemaphore' /\ UNCHANGED <<rState, stopsSent>>
      BY <1>7 DEF releaseSemaphore
    <2>2. stopSemaphore' \in BOOLEAN
      BY <1>7 DEF releaseSemaphore
    <2>3. RestartTypeOK' /\ InsideInv' /\ CommandInv' /\ OwedInv'
      BY <1>1, <2>1, <2>2 DEF RestartTypeOK, InsideInv, CommandInv, OwedInv
    <2>4. CleanInv'
      BY <1>1, <2>1 DEF CleanInv, Progress
    <2> QED BY <2>3, <2>4
  <1> QED BY <1>3, <1>4, <1>5, <1>6, <1>7

-----------------------------------------------------------------------------
\* The invariant of the resource and of E_RESTART in it holds throughout.
THEOREM RestartInductive == RestartSpec => [](EcetInv /\ RestartInv)
  <1>1. RestartInit => EcetInv /\ RestartInv
    <2> SUFFICES ASSUME RestartInit PROVE EcetInv /\ RestartInv
      OBVIOUS
    <2>1. EcetInv
      BY InitIInv, InitOrderInv DEF RestartInit, EcetInv
    <2>2. RestartInv
      <3>1. stopSemaphore \in BOOLEAN /\ quiet \in BOOLEAN
        BY DEF RestartInit
      <3>2. RestartTypeOK
        BY <3>1 DEF RestartInit, RestartTypeOK, States, Commands
      <3>3. InsideInv /\ CommandInv /\ OwedInv /\ CleanInv
        BY DEF RestartInit, InsideInv, CommandInv, OwedInv, CleanInv
      <3> QED BY <3>2, <3>3 DEF RestartInv
    <2> QED BY <2>1, <2>2
  <1>2. EcetInv /\ RestartInv /\ [RestartNext]_allVars => (EcetInv /\ RestartInv)'
    <2> SUFFICES ASSUME EcetInv, RestartInv, [RestartNext]_allVars PROVE EcetInv' /\ RestartInv'
      OBVIOUS
    <2>1. EcetInv'
      BY EcetInvStep DEF RestartInv
    <2>2. RestartInv'
      BY OtherThreadKeepsRestartInv, OutsideKeepsRestartInv, CommandKeepsRestartInv,
         ChainKeepsRestartInv, ReceiveKeepsRestartInv, ExecuteKeepsRestartInv, Zenon
      DEF RestartNext, RestartStep, ExecuteStep
    <2> QED BY <2>1, <2>2
  <1> QED BY <1>1, <1>2, PTL DEF RestartSpec

\* The management thread that waits in changeExecutionState of E_RESTART is never
\* forgotten: for every fan-out, every capacity and any number of other producers, the
\* post is on its way or the entry was lost to a full list.
THEOREM RestartStopIsOwed == RestartSpec => []StopIsOwed
  <1>1. RestartInv => StopIsOwed
    BY DEF RestartInv, OwedInv, Owed, StopIsOwed, Waits
  <1> QED BY <1>1, RestartInductive, PTL

\* A Stop of E_RESTART that begins in peace returns only after STOP was sent, once, and
\* with the block stopped.
THEOREM RestartCleanStop == RestartSpec => CleanStop
  <1>1. RestartInv /\ [RestartNext]_allVars =>
          [ (rcmd = "Stop" /\ rpc = "chained" /\ rpc' = "none" /\ quiet)
            => stopsSent = 1 /\ rState = "Stopped" ]_allVars
    <2> SUFFICES ASSUME RestartInv, RestartNext, rcmd = "Stop", rpc = "chained", rpc' = "none",
                        quiet
                 PROVE  stopsSent = 1 /\ rState = "Stopped"
      OBVIOUS
    <2>1. waitForStop
      BY DEF RestartNext, Command, RestartStep, baseChange, setEvent, keepRunning,
         startNewEventChain, startReturns, ExecuteStep, receiveRestartEvent, testEvent,
         sendEvent, testStop, finallyStop, releaseSemaphore, OtherThreadStep, OtherManagerStep,
         OtherProducer, Wake, restartVars
    <2>2. stopSemaphore
      BY <2>1 DEF waitForStop
    <2> QED BY <2>2 DEF RestartInv, CleanInv, Progress
  <1> QED BY <1>1, RestartInductive, PTL DEF RestartSpec, CleanStop

\* What was proved of the executing thread alone holds in a resource with an E_RESTART,
\* which sends into the event list in steps of its own and waits for the thread.
THEOREM RestartKeepsEvents == RestartSpec => [](NoLostWakeup /\ EveryEventOnceInOrder)
  <1>1. EcetInv => NoLostWakeup /\ EveryEventOnceInOrder
    BY WakeupOwed, OrderMeansOnce DEF EcetInv
  <1> QED BY <1>1, RestartInductive, PTL
=============================================================================
