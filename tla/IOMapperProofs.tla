--------------------------- MODULE IOMapperProofs ---------------------------
(***************************************************************************)
(* Proofs about IOMapper for every set of ids, blocks and handles.         *)
(*                                                                         *)
(* The maps are correct because every id has one handle and one observer,  *)
(* a handle is registered once in its life (ListInv), and a block that is  *)
(* about to register is registered nowhere (FlagInv).  A block that was    *)
(* caught by management in the middle of an event (raced) loses these      *)
(* guarantees, and with it the handles it is linked to; the other blocks   *)
(* keep theirs.                                                            *)
(***************************************************************************)
EXTENDS IOMapper, TLAPS

BlockPC == {"idle", "deinitialise", "unlisten", "register", "listen", "use"}
ConfigPC == {"idle", "push", "getDirection", "remove"}
ControllerPC == {"loop", "check", "onChange", "call", "drop", "ended"}

\* Types of the threads' local variables.
Locals ==
    /\ b \in [Blocks -> [pc : BlockPC, id : Ids \cup {None}, handle : Handles \cup {None},
                         ok : BOOLEAN]]
    /\ c \in [pc : ConfigPC, id : Ids \cup {None}, handle : Handles \cup {None}, ok : BOOLEAN]
    /\ t \in [pc : ControllerPC, todo : SUBSET Handles, handle : Handles \cup {None}]
    /\ m \in [pc : {"ready", "deinitialise", "unlisten"}, fb : Blocks \cup {None}]
    /\ (m.pc = "ready") <=> (m.fb = None)
    /\ \A o \in Blocks : b[o].pc = "register" => b[o].id # None
    /\ c.pc # "idle" => c.handle # None

\* A handle is registered under one id, and only while it lives; the one that is on its
\* way into the list of the controller is not in it; what the controller still has to drop
\* is what is registered of its list.
ListInv ==
    /\ \A i, j \in Ids : mHandles[i] = mHandles[j] /\ mHandles[i] # None => i = j
    /\ \A i \in Ids : mHandles[i] # None => mHandles[i] \in alive
    /\ c.pc = "push" => c.handle \in alive \ handles
    /\ t.pc = "drop" => /\ t.todo \subseteq handles
                        /\ \A i \in Ids : mHandles[i] \in handles => mHandles[i] \in t.todo

\* A block is registered under one id, and has the handle of this id.
BlockSide(o) ==
    /\ \A i, j \in Ids : mObservers[i] = o /\ mObservers[j] = o => i = j
    /\ \A h \in Handles :
          (mHandle[o] = h) <=> \E i \in Ids : mObservers[i] = o /\ mHandles[i] = h

\* A handle has the observer of its id.
HandleSide ==
    \A h \in Handles, o \in Blocks :
        (mObserver[h] = o) <=> \E i \in Ids : mObservers[i] = o /\ mHandles[i] = h

\* A block is ready when its handle fits, unless INIT has just reset it.
ReadyInv(o) ==
    /\ mIsReady[o] => <<mHandle[o], o>> \in Fitting
    /\ <<mHandle[o], o>> \in Fitting =>
          mIsReady[o] \/ (b[o].pc = "deinitialise" /\ b[o].id # None)

\* What the position in an event, or in a command, says of the registration.
FlagInv(o) ==
    /\ m.fb = o => b[o].pc = "idle" /\ mFBState[o] # "Running"
    /\ m.fb = o /\ m.pc = "unlisten" => ~Registered(o)
    /\ b[o].pc \in {"idle", "use", "deinitialise"} /\ ~(m.fb = o /\ m.pc = "unlisten") =>
          (mIsListening[o] <=> Registered(o))
    /\ b[o].pc \in {"unlisten", "register"} => ~Registered(o)
    /\ b[o].pc = "register" => ~mIsListening[o]
    /\ b[o].pc = "listen" => (b[o].ok <=> Registered(o))

\* The inductive invariant.
MapperInv ==
    /\ TypeOK
    /\ Locals
    /\ ListInv
    /\ \A o \in Blocks \ raced : BlockSide(o) /\ ReadyInv(o) /\ FlagInv(o)
    /\ raced = {} => HandleSide

-----------------------------------------------------------------------------
(* The methods of the mapper *)

\* registerHandle tells the observer of the id, which had no handle.
LEMMA RegisterHandle ==
    ASSUME MapperInv, NEW i \in Ids, NEW h \in Handles \ alive, mHandles[i] = None,
           registerHandle(i, h), UNCHANGED <<mIsListening, mFBState, b, m, raced>>
    PROVE  /\ mHandles' = [mHandles EXCEPT ![i] = h]
           /\ mHandles' \in [Ids -> Handles \cup {None}]
           /\ mObservers' \in [Ids -> Blocks \cup {None}]
           /\ mObserver' \in [Handles -> Blocks \cup {None}]
           /\ mHandle' \in [Blocks -> Handles \cup {None}]
           /\ mIsReady' \in [Blocks -> BOOLEAN]
           /\ \A o \in Blocks \ raced : BlockSide(o)' /\ ReadyInv(o)' /\ FlagInv(o)'
           /\ (raced = {} => HandleSide)'
<1> USE IOMapperAssumption
<1> USE DEF registerHandle, connect, unlinked
<1>1. /\ mHandles' = [mHandles EXCEPT ![i] = h]
      /\ mHandles' \in [Ids -> Handles \cup {None}]
      /\ mObservers' = mObservers
      /\ mObservers' \in [Ids -> Blocks \cup {None}]
      /\ mObserver' \in [Handles -> Blocks \cup {None}]
      /\ mHandle' \in [Blocks -> Handles \cup {None}]
  BY DEF MapperInv, TypeOK
<1>4. mIsReady' \in [Blocks -> BOOLEAN]
  <2>1. CASE mObservers[i] = None
    BY <2>1 DEF MapperInv, TypeOK
  <2>2. CASE mObservers[i] # None
    <3>1. mObservers[i] \in Blocks
      BY <2>2 DEF MapperInv, TypeOK
    <3>2. mIsReady' = [mIsReady EXCEPT ![mObservers[i]] =
                         @ \/ <<h, mObservers[i]>> \in Fitting]
      BY <2>2
    <3> QED
      BY <3>1, <3>2, Zenon DEF MapperInv, TypeOK
  <2> QED
    BY <2>1, <2>2
<1>2. ASSUME NEW o \in Blocks \ raced
      PROVE  BlockSide(o)' /\ ReadyInv(o)' /\ FlagInv(o)'
  <2>1. BlockSide(o)'
    BY <1>1 DEF MapperInv, TypeOK, ListInv, BlockSide
  <2>2. ReadyInv(o)'
    <3>1. CASE mObservers[i] # o
      <4>1. mHandle'[o] = mHandle[o] /\ (mIsReady'[o] <=> mIsReady[o])
        BY <3>1 DEF MapperInv, TypeOK
      <4> QED
        BY <4>1 DEF MapperInv, ReadyInv
    <3>2. CASE mObservers[i] = o
      <4>1. mHandle[o] \notin Handles
        BY <3>2 DEF MapperInv, TypeOK, ListInv, BlockSide
      <4>2. ~mIsReady[o]
        BY <4>1 DEF MapperInv, ReadyInv
      <4>3. o # None
        OBVIOUS
      <4>4. mHandle'[o] = h
        BY <3>2, <4>3 DEF MapperInv, TypeOK
      <4>5. mIsReady'[o] <=> <<h, o>> \in Fitting
        BY <3>2, <4>2, <4>3 DEF MapperInv, TypeOK
      <4> QED
        BY <4>4, <4>5 DEF ReadyInv
    <3> QED
      BY <3>1, <3>2
  <2>3. FlagInv(o)'
    BY <1>1 DEF MapperInv, FlagInv, Registered
  <2> QED
    BY <2>1, <2>2, <2>3
<1>3. (raced = {} => HandleSide)'
  BY <1>1 DEF MapperInv, TypeOK, ListInv, HandleSide
<1> QED
  BY <1>1, <1>2, <1>3, <1>4

\* deregisterHandle takes a handle, which has one id, from the map and from its observer.
LEMMA DeregisterHandle ==
    ASSUME MapperInv, NEW h \in Handles,
           deregisterHandle(h), UNCHANGED <<mIsListening, mFBState, b, m, raced>>
    PROVE  /\ mHandles' = [i \in Ids |-> IF mHandles[i] = h THEN None ELSE mHandles[i]]
           /\ mHandles' \in [Ids -> Handles \cup {None}]
           /\ mObservers' \in [Ids -> Blocks \cup {None}]
           /\ mObserver' \in [Handles -> Blocks \cup {None}]
           /\ mHandle' \in [Blocks -> Handles \cup {None}]
           /\ mIsReady' \in [Blocks -> BOOLEAN]
           /\ \A o \in Blocks \ raced : BlockSide(o)' /\ ReadyInv(o)' /\ FlagInv(o)'
           /\ (raced = {} => HandleSide)'
<1> USE IOMapperAssumption
<1> USE DEF disconnect, unlinked
<1>1. /\ mHandles' = [i \in Ids |-> IF mHandles[i] = h THEN None ELSE mHandles[i]]
      /\ mHandles' \in [Ids -> Handles \cup {None}]
      /\ mObservers' = mObservers
      /\ mObservers' \in [Ids -> Blocks \cup {None}]
      /\ mObserver' \in [Handles -> Blocks \cup {None}]
      /\ mHandle' \in [Blocks -> Handles \cup {None}]
      /\ mIsReady' \in [Blocks -> BOOLEAN]
  <2>1. CASE \A i \in Ids : mHandles[i] # h
    BY <2>1 DEF deregisterHandle, MapperInv, TypeOK
  <2>2. CASE \E i \in Ids : mHandles[i] = h
    <3>1. PICK i \in Ids :
            /\ mHandles[i] = h
            /\ mHandles' = [mHandles EXCEPT ![i] = None]
            /\ IF mObservers[i] # None THEN disconnect(h, mObservers[i]) ELSE unlinked
            /\ UNCHANGED mObservers
      BY <2>2 DEF deregisterHandle
    <3>2. \A j \in Ids : mHandles[j] = h => j = i
      BY <3>1 DEF MapperInv, ListInv, TypeOK
    <3>3. mHandles' = [j \in Ids |-> IF mHandles[j] = h THEN None ELSE mHandles[j]]
      BY <3>1, <3>2 DEF MapperInv, TypeOK
    <3> QED
      BY <3>1, <3>3 DEF MapperInv, TypeOK
  <2> QED
    BY <2>1, <2>2
<1>2. CASE \A i \in Ids : mHandles[i] # h
  <2>1. UNCHANGED <<mHandles, mObservers, mObserver, mHandle, mIsReady>>
    BY <1>2 DEF deregisterHandle
  <2> QED
    BY <1>1, <2>1 DEF MapperInv, BlockSide, ReadyInv, FlagInv, Registered, HandleSide
<1>3. CASE \E i \in Ids : mHandles[i] = h
  <2>1. PICK i \in Ids :
          /\ mHandles[i] = h
          /\ IF mObservers[i] # None THEN disconnect(h, mObservers[i]) ELSE unlinked
    BY <1>3 DEF deregisterHandle
  <2>2. ASSUME NEW o \in Blocks \ raced
        PROVE  BlockSide(o)' /\ ReadyInv(o)' /\ FlagInv(o)'
    <3>1. BlockSide(o)'
      BY <1>1, <2>1 DEF MapperInv, TypeOK, ListInv, BlockSide
    <3>2. ReadyInv(o)'
      BY <1>1, <2>1 DEF MapperInv, TypeOK, ListInv, BlockSide, ReadyInv
    <3>3. FlagInv(o)'
      BY <1>1 DEF MapperInv, FlagInv, Registered
    <3> QED
      BY <3>1, <3>2, <3>3
  <2>3. (raced = {} => HandleSide)'
    BY <1>1, <2>1 DEF MapperInv, TypeOK, ListInv, HandleSide
  <2> QED
    BY <1>1, <2>2, <2>3
<1> QED
  BY <1>2, <1>3

\* deregisterObserver takes a block from the map and from its handle; other blocks keep
\* what they have.
LEMMA DeregisterObserver ==
    ASSUME MapperInv, NEW o \in Blocks, deregisterObserver(o), raced' = raced
    PROVE  /\ mHandles' = mHandles
           /\ mObservers' \in [Ids -> Blocks \cup {None}]
           /\ mObserver' \in [Handles -> Blocks \cup {None}]
           /\ mHandle' \in [Blocks -> Handles \cup {None}]
           /\ mIsReady' \in [Blocks -> BOOLEAN]
           /\ \A p \in Blocks : p # o => (Registered(p)' <=> Registered(p))
           /\ o \notin raced => ~Registered(o)'
           /\ \A p \in Blocks \ raced :
                 /\ BlockSide(p)'
                 /\ \/ mHandle'[p] = mHandle[p] /\ (mIsReady'[p] <=> mIsReady[p])
                    \/ mHandle'[p] = None /\ ~mIsReady'[p]
           /\ (raced = {} => HandleSide)'
<1> USE IOMapperAssumption
<1> USE DEF disconnect, unlinked
<1>1. CASE \A i \in Ids : mObservers[i] # o
  <2>1. UNCHANGED <<mHandles, mObservers, mObserver, mHandle, mIsReady>>
    BY <1>1 DEF deregisterObserver
  <2> QED
    BY <1>1, <2>1 DEF MapperInv, TypeOK, BlockSide, Registered, HandleSide
<1>2. CASE \E i \in Ids : mObservers[i] = o
  <2>1. PICK i \in Ids :
          /\ mObservers[i] = o
          /\ mObservers' = [mObservers EXCEPT ![i] = None]
          /\ IF mHandles[i] # None THEN disconnect(mHandles[i], o) ELSE unlinked
          /\ UNCHANGED mHandles
    BY <1>2 DEF deregisterObserver
  <2>2. /\ mHandles' = mHandles
        /\ mObservers' \in [Ids -> Blocks \cup {None}]
        /\ mObserver' \in [Handles -> Blocks \cup {None}]
        /\ mHandle' \in [Blocks -> Handles \cup {None}]
        /\ mIsReady' \in [Blocks -> BOOLEAN]
    BY <2>1 DEF MapperInv, TypeOK
  <2>3. \A p \in Blocks : p # o => (Registered(p)' <=> Registered(p))
    BY <2>1 DEF MapperInv, TypeOK, Registered
  <2>4. o \notin raced => ~Registered(o)'
    BY <2>1 DEF MapperInv, TypeOK, Registered, BlockSide
  <2>5. ASSUME NEW p \in Blocks \ raced
        PROVE  BlockSide(p)'
    BY <2>1, <2>2 DEF MapperInv, TypeOK, ListInv, BlockSide
  <2>6. ASSUME NEW p \in Blocks \ raced
        PROVE  \/ mHandle'[p] = mHandle[p] /\ (mIsReady'[p] <=> mIsReady[p])
               \/ mHandle'[p] = None /\ ~mIsReady'[p]
    BY <2>1 DEF MapperInv, TypeOK
  <2>7. (raced = {} => HandleSide)'
    BY <2>1, <2>2 DEF MapperInv, TypeOK, ListInv, BlockSide, HandleSide
  <2> QED
    BY <2>2, <2>3, <2>4, <2>5, <2>6, <2>7
<1> QED
  BY <1>1, <1>2

\* registerObserver under a free id links a block that is registered nowhere with the handle
\* that is there.
LEMMA RegisterObserver ==
    ASSUME MapperInv, NEW o \in Blocks, NEW i \in Ids, mObservers[i] = None,
           o \notin raced => ~Registered(o),
           registerObserver(i, o), raced' = raced
    PROVE  /\ mHandles' = mHandles
           /\ mObservers' \in [Ids -> Blocks \cup {None}]
           /\ mObserver' \in [Handles -> Blocks \cup {None}]
           /\ mHandle' \in [Blocks -> Handles \cup {None}]
           /\ mIsReady' \in [Blocks -> BOOLEAN]
           /\ \A p \in Blocks : p # o => (Registered(p)' <=> Registered(p))
           /\ Registered(o)'
           /\ \A p \in Blocks \ raced :
                 /\ BlockSide(p)'
                 /\ p # o => mHandle'[p] = mHandle[p] /\ (mIsReady'[p] <=> mIsReady[p])
                 /\ p = o => (mIsReady'[o] <=> <<mHandle'[o], o>> \in Fitting)
           /\ (raced = {} => HandleSide)'
<1> USE IOMapperAssumption
<1> USE DEF registerObserver, connect, unlinked
<1>1. /\ mHandles' = mHandles
      /\ mObservers' = [mObservers EXCEPT ![i] = o]
      /\ mObservers' \in [Ids -> Blocks \cup {None}]
      /\ mObserver' \in [Handles -> Blocks \cup {None}]
      /\ mHandle' \in [Blocks -> Handles \cup {None}]
  BY DEF MapperInv, TypeOK
<1>2. mIsReady' \in [Blocks -> BOOLEAN]
  <2>1. CASE mHandles[i] = None
    BY <2>1 DEF MapperInv, TypeOK
  <2>2. CASE mHandles[i] # None
    <3>1. mIsReady' = [mIsReady EXCEPT ![o] = @ \/ <<mHandles[i], o>> \in Fitting]
      BY <2>2
    <3> QED
      BY <3>1, Zenon DEF MapperInv, TypeOK
  <2> QED
    BY <2>1, <2>2
<1>3. /\ \A p \in Blocks : p # o => (Registered(p)' <=> Registered(p))
      /\ Registered(o)'
  BY <1>1 DEF MapperInv, TypeOK, Registered
<1>4. ASSUME NEW p \in Blocks \ raced
      PROVE  BlockSide(p)'
  BY <1>1 DEF MapperInv, TypeOK, ListInv, BlockSide, Registered
<1>5. ASSUME NEW p \in Blocks \ raced, p # o
      PROVE  mHandle'[p] = mHandle[p] /\ (mIsReady'[p] <=> mIsReady[p])
  BY <1>5 DEF MapperInv, TypeOK
<1>6. ASSUME o \notin raced
      PROVE  mIsReady'[o] <=> <<mHandle'[o], o>> \in Fitting
  <2>1. mHandle[o] \notin Handles
    BY <1>6 DEF MapperInv, BlockSide, Registered
  <2>2. ~mIsReady[o]
    <3>1. <<mHandle[o], o>> \notin Fitting
      BY <2>1
    <3>2. o \in Blocks \ raced
      BY <1>6
    <3> QED
      BY <3>1, <3>2, Zenon DEF MapperInv, ReadyInv
  <2>3. CASE mHandles[i] = None
    <3>1. mHandle' = mHandle /\ mIsReady' = mIsReady
      BY <2>3
    <3>2. <<mHandle[o], o>> \notin Fitting
      BY <2>1
    <3> QED
      BY <2>2, <3>1, <3>2
  <2>4. CASE mHandles[i] # None
    <3>1. mHandle'[o] = mHandles[i]
      BY <2>4 DEF MapperInv, TypeOK
    <3>2. mIsReady'[o] <=> <<mHandles[i], o>> \in Fitting
      BY <2>2, <2>4 DEF MapperInv, TypeOK
    <3> QED
      BY <3>1, <3>2
  <2> QED
    BY <2>3, <2>4
<1>7. (raced = {} => HandleSide)'
  BY <1>1 DEF MapperInv, TypeOK, ListInv, BlockSide, HandleSide, Registered
<1> QED
  BY <1>1, <1>2, <1>3, <1>4, <1>5, <1>6, <1>7
-----------------------------------------------------------------------------
(* The invariant is inductive. *)

\* Nothing is registered and every thread is idle.
LEMMA MapperInit == Init => MapperInv
<1> USE IOMapperAssumption
<1> SUFFICES ASSUME Init PROVE MapperInv
  OBVIOUS
<1>1. TypeOK
  BY DEF Init, TypeOK
<1>2. Locals
  BY DEF Init, Locals, Idle, BlockPC, ConfigPC, ControllerPC
<1>3. ListInv
  BY DEF Init, ListInv, Idle
<1>4. ASSUME NEW o \in Blocks
      PROVE  BlockSide(o) /\ ReadyInv(o) /\ FlagInv(o)
  <2>1. BlockSide(o)
    BY DEF Init, BlockSide
  <2>2. ReadyInv(o)
    <3>1. <<mHandle[o], o>> \notin Fitting
      BY DEF Init
    <3> QED
      BY <3>1 DEF Init, ReadyInv
  <2>3. FlagInv(o)
    BY DEF Init, FlagInv, Registered, Idle
  <2> QED
    BY <2>1, <2>2, <2>3
<1>5. HandleSide
  BY DEF Init, HandleSide
<1> QED
  BY <1>1, <1>2, <1>3, <1>4, <1>5 DEF MapperInv

\* What a step does that leaves the maps and the blocks' links alone.
LEMMA MapperAlone ==
    ASSUME MapperInv, UNCHANGED mapper, raced \subseteq raced'
    PROVE  /\ \A o \in Blocks \ raced' : BlockSide(o)'
           /\ (raced = {} => HandleSide)'
BY DEF MapperInv, mapper, BlockSide, HandleSide

\* A step of a thread that is not the block's leaves the block alone, up to the link.
LEMMA BlockAlone ==
    ASSUME MapperInv, UNCHANGED <<mapper, mIsReady, mIsListening, mFBState, b, m, raced>>
    PROVE  /\ \A o \in Blocks \ raced' : BlockSide(o)' /\ ReadyInv(o)' /\ FlagInv(o)'
           /\ (raced = {} => HandleSide)'
BY DEF MapperInv, mapper, BlockSide, HandleSide, ReadyInv, FlagInv, Registered

\* The thread of the controller: it drops what is registered of its list before it deletes
\* the handles.
LEMMA ControllerStepInv == MapperInv /\ ControllerStep => MapperInv'
<1> USE IOMapperAssumption
<1> USE DEF ControllerPC, ConfigPC, othersThanController
<1> SUFFICES ASSUME MapperInv, ControllerStep PROVE MapperInv'
  OBVIOUS
<1>1. CASE checkForInputChanges
  <2>1. TypeOK' /\ Locals' /\ ListInv'
    BY <1>1 DEF checkForInputChanges, MapperInv, TypeOK, Locals, ListInv, mapper, flags, lists
  <2>2. UNCHANGED <<mapper, mIsReady, mIsListening, mFBState, b, m, raced>>
    BY <1>1 DEF checkForInputChanges, flags
  <2> QED
    BY <2>1, <2>2, BlockAlone DEF MapperInv
<1>2. CASE hasObserver
  <2>1. TypeOK' /\ Locals' /\ ListInv'
    <3>1. PICK h \in t.todo :
            t' = [t EXCEPT !.pc = IF mObserver[h] # None THEN "onChange" ELSE "check",
                           !.handle = h, !.todo = @ \ {h}]
      BY <1>2 DEF hasObserver
    <3>2. h \in Handles /\ t.pc = "check"
      BY <1>2 DEF hasObserver, MapperInv, Locals
    <3>3. t'.pc \in {"onChange", "check"} /\ t'.todo = t.todo \ {h} /\ t'.handle = h
      BY <3>1 DEF MapperInv, Locals
    <3>4. t' \in [pc : ControllerPC, todo : SUBSET Handles, handle : Handles \cup {None}]
      BY <3>1, <3>2 DEF MapperInv, Locals
    <3> QED
      BY <1>2, <3>2, <3>3, <3>4
      DEF hasObserver, MapperInv, TypeOK, Locals, ListInv, mapper, flags, lists
  <2>2. UNCHANGED <<mapper, mIsReady, mIsListening, mFBState, b, m, raced>>
    BY <1>2 DEF hasObserver, flags
  <2> QED
    BY <2>1, <2>2, BlockAlone DEF MapperInv
<1>3. CASE testObserver
  <2>1. TypeOK' /\ Locals' /\ ListInv'
    BY <1>3 DEF testObserver, MapperInv, TypeOK, Locals, ListInv, mapper, flags, lists
  <2>2. UNCHANGED <<mapper, mIsReady, mIsListening, mFBState, b, m, raced>>
    BY <1>3 DEF testObserver, flags
  <2> QED
    BY <2>1, <2>2, BlockAlone DEF MapperInv
<1>4. CASE callObserver
  <2>1. TypeOK' /\ Locals' /\ ListInv'
    BY <1>4 DEF callObserver, MapperInv, TypeOK, Locals, ListInv, mapper, flags, lists
  <2>2. UNCHANGED <<mapper, mIsReady, mIsListening, mFBState, b, m, raced>>
    BY <1>4 DEF callObserver, flags
  <2> QED
    BY <2>1, <2>2, BlockAlone DEF MapperInv
<1>5. CASE checked
  <2>1. TypeOK' /\ Locals' /\ ListInv'
    BY <1>5 DEF checked, MapperInv, TypeOK, Locals, ListInv, mapper, flags, lists
  <2>2. UNCHANGED <<mapper, mIsReady, mIsListening, mFBState, b, m, raced>>
    BY <1>5 DEF checked, flags
  <2> QED
    BY <2>1, <2>2, BlockAlone DEF MapperInv
<1>6. CASE dropHandles
  <2>1. TypeOK' /\ Locals' /\ ListInv'
    BY <1>6 DEF dropHandles, MapperInv, TypeOK, Locals, ListInv, mapper, flags, lists
  <2>2. UNCHANGED <<mapper, mIsReady, mIsListening, mFBState, b, m, raced>>
    BY <1>6 DEF dropHandles, flags
  <2> QED
    BY <2>1, <2>2, BlockAlone DEF MapperInv
<1>7. CASE clearHandles
  <2>1. TypeOK' /\ Locals' /\ ListInv'
    BY <1>7 DEF clearHandles, MapperInv, TypeOK, Locals, ListInv, mapper, flags, lists
  <2>2. UNCHANGED <<mapper, mIsReady, mIsListening, mFBState, b, m, raced>>
    BY <1>7 DEF clearHandles, flags
  <2> QED
    BY <2>1, <2>2, BlockAlone DEF MapperInv
<1>8. CASE dropHandle
  <2>1. PICK h \in t.todo : deregisterHandle(h) /\ t' = [t EXCEPT !.todo = @ \ {h}]
    BY <1>8 DEF dropHandle
  <2>2. h \in Handles /\ UNCHANGED <<mIsListening, mFBState, handles, alive, mHandleMutex, b, c,
                                          m, raced>>
    BY <1>8 DEF dropHandle, lists, MapperInv, Locals
  <2>3. mHandles' = [i \in Ids |-> IF mHandles[i] = h THEN None ELSE mHandles[i]]
    BY <2>1, <2>2, DeregisterHandle
  <2>4. TypeOK'
    BY <1>8, <2>1, <2>2, DeregisterHandle DEF dropHandle, MapperInv, TypeOK, Locals
  <2>5. Locals'
    BY <2>1, <2>2 DEF MapperInv, Locals
  <2>6. ListInv'
    BY <1>8, <2>1, <2>2, <2>3 DEF dropHandle, MapperInv, TypeOK, Locals, ListInv
  <2> QED
    BY <2>1, <2>2, <2>4, <2>5, <2>6, DeregisterHandle DEF MapperInv
<1> QED
  BY <1>1, <1>2, <1>3, <1>4, <1>5, <1>6, <1>7, <1>8 DEF ControllerStep

\* The thread of the configuration block: a new handle is registered under a free id, and a
\* handle is deregistered before it is deleted.
LEMMA ConfigStepInv == MapperInv /\ ConfigStep => MapperInv'
<1> USE IOMapperAssumption
<1> USE DEF ControllerPC, ConfigPC
<1> SUFFICES ASSUME MapperInv, ConfigStep PROVE MapperInv'
  OBVIOUS
<1>1. ASSUME NEW i \in Ids, getHandle(i) PROVE MapperInv'
  <2>1. TypeOK' /\ Locals' /\ ListInv'
    BY <1>1 DEF getHandle, MapperInv, TypeOK, Locals, ListInv, mapper, flags, lists
  <2>2. UNCHANGED <<mapper, mIsReady, mIsListening, mFBState, b, m, raced>>
    BY <1>1 DEF getHandle, flags
  <2> QED
    BY <2>1, <2>2, BlockAlone DEF MapperInv
<1>2. CASE pushHandle
  <2>1. TypeOK' /\ Locals' /\ ListInv'
    BY <1>2 DEF pushHandle, Idle, MapperInv, TypeOK, Locals, ListInv, mapper, flags, lists
  <2>2. UNCHANGED <<mapper, mIsReady, mIsListening, mFBState, b, m, raced>>
    BY <1>2 DEF pushHandle, flags
  <2> QED
    BY <2>1, <2>2, BlockAlone DEF MapperInv
<1>3. CASE getDirection
  <2>1. TypeOK' /\ Locals' /\ ListInv'
    BY <1>3 DEF getDirection, MapperInv, TypeOK, Locals, ListInv, mapper, flags, lists
  <2>2. UNCHANGED <<mapper, mIsReady, mIsListening, mFBState, b, m, raced>>
    BY <1>3 DEF getDirection, flags
  <2> QED
    BY <2>1, <2>2, BlockAlone DEF MapperInv
<1>4. ASSUME NEW i \in Ids, NEW h \in Handles, addHandle(i, h) PROVE MapperInv'
  <2>1. /\ h \in Handles \ alive /\ mHandles[i] = None /\ registerHandle(i, h)
        /\ UNCHANGED <<mIsListening, mFBState, handles, mHandleMutex, b, t, m, raced>>
        /\ alive' = alive \cup {h}
        /\ c' = [c EXCEPT !.pc = "push", !.handle = h]
    BY <1>4 DEF addHandle
  <2>2. mHandles' = [mHandles EXCEPT ![i] = h]
    BY <2>1, RegisterHandle
  <2>3. TypeOK'
    BY <2>1, RegisterHandle DEF MapperInv, TypeOK
  <2>4. Locals'
    BY <2>1 DEF MapperInv, Locals
  <2>5. ListInv'
    BY <2>1, <2>2 DEF MapperInv, TypeOK, Locals, ListInv
  <2> QED
    BY <2>1, <2>3, <2>4, <2>5, RegisterHandle DEF MapperInv
<1>5. CASE removeHandle
  <2>1. CASE c.handle \in handles
    <3>1. /\ c.handle \in Handles /\ deregisterHandle(c.handle)
          /\ UNCHANGED <<mIsListening, mFBState, mHandleMutex, b, t, m, raced>>
          /\ alive' = alive \ {c.handle} /\ handles' = handles \ {c.handle}
          /\ c' = Idle
          /\ t.pc # "drop"
      BY <1>5, <2>1 DEF removeHandle, MapperInv, TypeOK
    <3>2. mHandles' = [i \in Ids |-> IF mHandles[i] = c.handle THEN None ELSE mHandles[i]]
      BY <3>1, DeregisterHandle
    <3>3. TypeOK'
      BY <3>1, DeregisterHandle DEF MapperInv, TypeOK
    <3>4. Locals'
      BY <3>1 DEF MapperInv, Locals, Idle
    <3>5. ListInv'
      BY <3>1, <3>2 DEF MapperInv, TypeOK, Locals, ListInv, Idle
    <3> QED
      BY <3>1, <3>3, <3>4, <3>5, DeregisterHandle DEF MapperInv
  <2>2. CASE c.handle \notin handles
    <3>1. UNCHANGED <<mapper, mIsReady, mIsListening, mFBState, b, m, raced>>
      BY <1>5, <2>2 DEF removeHandle, unlinked, mapper
    <3>2. UNCHANGED <<handles, alive, mHandleMutex, t>> /\ c' = Idle
      BY <1>5, <2>2 DEF removeHandle, MapperInv, TypeOK
    <3>3. TypeOK' /\ Locals' /\ ListInv'
      BY <3>1, <3>2 DEF Idle, MapperInv, TypeOK, Locals, ListInv, mapper
    <3> QED
      BY <3>1, <3>3, BlockAlone DEF MapperInv
  <2> QED
    BY <2>1, <2>2
<1>6. CASE deleteController
  <2>1. CASE handles = {} /\ t' = [t EXCEPT !.pc = "loop"] /\ unlinked
             /\ UNCHANGED <<mHandles, mObservers, handles, alive>>
    <3>1. UNCHANGED <<mapper, mIsReady, mIsListening, mFBState, b, m, raced>>
      BY <1>6, <2>1 DEF deleteController, unlinked, mapper
    <3>2. TypeOK' /\ Locals' /\ ListInv'
      BY <1>6, <2>1, <3>1 DEF deleteController, MapperInv, TypeOK, Locals, ListInv, mapper
    <3> QED
      BY <3>1, <3>2, BlockAlone DEF MapperInv
  <2>2. ASSUME NEW h \in handles, deregisterHandle(h), handles' = handles \ {h},
               alive' = alive \ {h}, UNCHANGED t
        PROVE  MapperInv'
    <3>1. /\ h \in Handles
          /\ UNCHANGED <<mIsListening, mFBState, mHandleMutex, b, c, m, raced>>
          /\ c.pc = "idle" /\ t.pc = "ended"
      BY <1>6 DEF deleteController, MapperInv, TypeOK
    <3>2. mHandles' = [i \in Ids |-> IF mHandles[i] = h THEN None ELSE mHandles[i]]
      BY <2>2, <3>1, DeregisterHandle
    <3>3. TypeOK'
      BY <2>2, <3>1, DeregisterHandle DEF MapperInv, TypeOK
    <3>4. Locals'
      BY <2>2, <3>1 DEF MapperInv, Locals
    <3>5. ListInv'
      BY <2>2, <3>1, <3>2 DEF MapperInv, TypeOK, ListInv
    <3> QED
      BY <2>2, <3>1, <3>3, <3>4, <3>5, DeregisterHandle DEF MapperInv
  <2> QED
    BY <1>6, <2>1, <2>2 DEF deleteController
<1> QED
  BY <1>1, <1>2, <1>3, <1>4, <1>5, <1>6 DEF ConfigStep

\* What a step of a block's thread leaves alone.
LEMMA BlockListInv ==
    ASSUME MapperInv, mHandles' = mHandles, othersIdle
    PROVE  ListInv'
BY DEF MapperInv, ListInv, othersIdle, lists

\* The executing threads: a block that registers is registered nowhere else, and listens
\* when it is done exactly if it got the id.
LEMMA BlockStepInv == ASSUME MapperInv, NEW o \in Blocks, BlockStep(o) PROVE MapperInv'
<1> USE IOMapperAssumption
<1> USE DEF BlockPC
<1>1. ASSUME NEW i \in Ids, initialise(o, i) PROVE MapperInv'
  <2>1. /\ UNCHANGED <<mapper, mIsListening>> /\ othersIdle
        /\ mIsReady' = [mIsReady EXCEPT ![o] = FALSE]
        /\ b' = [b EXCEPT ![o] = [Idle EXCEPT !.pc = "deinitialise", !.id = i]]
        /\ b[o].pc = "idle" /\ mFBState[o] = "Running"
    BY <1>1 DEF initialise
  <2>2. TypeOK' /\ Locals'
    BY <2>1 DEF MapperInv, TypeOK, Locals, Idle, othersIdle, mapper, lists
  <2>3. ListInv'
    BY <2>1, BlockListInv DEF mapper
  <2>4. ASSUME NEW p \in Blocks \ raced PROVE ReadyInv(p)' /\ FlagInv(p)'
    <3>1. CASE p = o
      BY <2>1, <3>1 DEF MapperInv, TypeOK, Locals, ReadyInv, FlagInv, Registered, Idle,
         othersIdle, mapper
    <3>2. CASE p # o
      <4>1. /\ b'[p] = b[p] /\ (mIsReady'[p] <=> mIsReady[p])
            /\ UNCHANGED <<mObservers, mHandle, mIsListening, mFBState, m>>
        BY <2>1, <3>2 DEF MapperInv, TypeOK, Locals, othersIdle, mapper
      <4> QED
        BY <4>1 DEF MapperInv, ReadyInv, FlagInv, Registered
    <3> QED
      BY <3>1, <3>2
  <2> QED
    BY <2>1, <2>2, <2>3, <2>4, MapperAlone DEF MapperInv, othersIdle
<1>2. CASE INITwithoutQI(o)
  <2>1. UNCHANGED <<mapper, mIsReady>> /\ othersIdle
    BY <1>2 DEF INITwithoutQI
  <2>2. TypeOK'
    BY <1>2, <2>1 DEF INITwithoutQI, MapperInv, TypeOK, othersIdle, mapper, lists
  <2>3. Locals'
    BY <1>2, <2>1 DEF INITwithoutQI, MapperInv, Locals, TypeOK, Idle, Block, deinitialised,
       othersIdle, mapper
  <2>4. ListInv'
    BY <2>1, BlockListInv DEF mapper
  <2>5. ASSUME NEW p \in Blocks \ raced PROVE ReadyInv(p)'
    BY <1>2, <2>1 DEF INITwithoutQI, MapperInv, Locals, ReadyInv, Idle, Block, deinitialised, mapper
  <2>6. ASSUME NEW p \in Blocks \ raced PROVE FlagInv(p)'
    BY <1>2, <2>1 DEF INITwithoutQI, MapperInv, TypeOK, Locals, FlagInv, Registered, Idle, Block,
       deinitialised,
       othersIdle, mapper
  <2> QED
    BY <2>1, <2>2, <2>3, <2>4, <2>5, <2>6, MapperAlone DEF MapperInv, othersIdle
<1>3. CASE unlisten(o)
  <2>1. UNCHANGED <<mapper, mIsReady>> /\ othersIdle
    BY <1>3 DEF unlisten
  <2>2. TypeOK'
    BY <1>3, <2>1 DEF unlisten, MapperInv, TypeOK, othersIdle, mapper, lists
  <2>3. Locals'
    BY <1>3, <2>1 DEF unlisten, MapperInv, Locals, TypeOK, Idle, Block, deinitialised,
       othersIdle, mapper
  <2>4. ListInv'
    BY <2>1, BlockListInv DEF mapper
  <2>5. ASSUME NEW p \in Blocks \ raced PROVE ReadyInv(p)'
    BY <1>3, <2>1 DEF unlisten, MapperInv, Locals, ReadyInv, Idle, Block, deinitialised, mapper
  <2>6. ASSUME NEW p \in Blocks \ raced PROVE FlagInv(p)'
    BY <1>3, <2>1 DEF unlisten, MapperInv, TypeOK, Locals, FlagInv, Registered, Idle, Block,
       deinitialised,
       othersIdle, mapper
  <2> QED
    BY <2>1, <2>2, <2>3, <2>4, <2>5, <2>6, MapperAlone DEF MapperInv, othersIdle
<1>4. CASE listen(o)
  <2>1. UNCHANGED <<mapper, mIsReady>> /\ othersIdle
    BY <1>4 DEF listen
  <2>2. TypeOK'
    <3>1. b[o].ok \in BOOLEAN
      BY DEF MapperInv, Locals
    <3>2. mIsListening' \in [Blocks -> BOOLEAN]
      BY <1>4, <3>1, Zenon DEF listen, MapperInv, TypeOK
    <3> QED
      BY <2>1, <3>2 DEF MapperInv, TypeOK, othersIdle, mapper, lists
  <2>3. Locals'
    BY <1>4, <2>1 DEF listen, MapperInv, Locals, TypeOK, Idle, Block, deinitialised, othersIdle,
       mapper
  <2>4. ListInv'
    BY <2>1, BlockListInv DEF mapper
  <2>5. ASSUME NEW p \in Blocks \ raced PROVE ReadyInv(p)'
    BY <1>4, <2>1 DEF listen, MapperInv, Locals, ReadyInv, Idle, Block, deinitialised, mapper
  <2>6. ASSUME NEW p \in Blocks \ raced PROVE FlagInv(p)'
    BY <1>4, <2>1 DEF listen, MapperInv, TypeOK, Locals, FlagInv, Registered, Idle, Block,
       deinitialised,
       othersIdle, mapper
  <2> QED
    BY <2>1, <2>2, <2>3, <2>4, <2>5, <2>6, MapperAlone DEF MapperInv, othersIdle
<1>5. CASE REQ(o)
  <2>1. UNCHANGED <<mapper, mIsReady>> /\ othersIdle
    BY <1>5 DEF REQ
  <2>2. TypeOK'
    BY <1>5, <2>1 DEF REQ, MapperInv, TypeOK, othersIdle, mapper, lists
  <2>3. Locals'
    BY <1>5, <2>1 DEF REQ, MapperInv, Locals, TypeOK, Idle, Block, deinitialised, othersIdle, mapper
  <2>4. ListInv'
    BY <2>1, BlockListInv DEF mapper
  <2>5. ASSUME NEW p \in Blocks \ raced PROVE ReadyInv(p)'
    BY <1>5, <2>1 DEF REQ, MapperInv, Locals, ReadyInv, Idle, Block, deinitialised, mapper
  <2>6. ASSUME NEW p \in Blocks \ raced PROVE FlagInv(p)'
    BY <1>5, <2>1 DEF REQ, MapperInv, TypeOK, Locals, FlagInv, Registered, Idle, Block,
       deinitialised,
       othersIdle, mapper
  <2> QED
    BY <2>1, <2>2, <2>3, <2>4, <2>5, <2>6, MapperAlone DEF MapperInv, othersIdle
<1>6. CASE useHandle(o)
  <2>1. UNCHANGED <<mapper, mIsReady>> /\ othersIdle
    BY <1>6 DEF useHandle
  <2>2. TypeOK'
    BY <1>6, <2>1 DEF useHandle, MapperInv, TypeOK, othersIdle, mapper, lists
  <2>3. Locals'
    BY <1>6, <2>1 DEF useHandle, MapperInv, Locals, TypeOK, Idle, Block, deinitialised,
       othersIdle, mapper
  <2>4. ListInv'
    BY <2>1, BlockListInv DEF mapper
  <2>5. ASSUME NEW p \in Blocks \ raced PROVE ReadyInv(p)'
    BY <1>6, <2>1 DEF useHandle, MapperInv, Locals, ReadyInv, Idle, Block, deinitialised, mapper
  <2>6. ASSUME NEW p \in Blocks \ raced PROVE FlagInv(p)'
    BY <1>6, <2>1 DEF useHandle, MapperInv, TypeOK, Locals, FlagInv, Registered, Idle, Block,
       deinitialised,
       othersIdle, mapper
  <2> QED
    BY <2>1, <2>2, <2>3, <2>4, <2>5, <2>6, MapperAlone DEF MapperInv, othersIdle
<1>7. CASE deinitialise(o) /\ ~mIsListening[o]
  <2>1. UNCHANGED <<mapper, mIsReady, mIsListening>> /\ othersIdle /\ deinitialised(o)
        /\ b[o].pc = "deinitialise"
    BY <1>7 DEF deinitialise, unlinked, mapper
  <2>2. TypeOK'
    BY <2>1 DEF MapperInv, TypeOK, othersIdle, mapper, lists
  <2>3. Locals'
    BY <2>1 DEF MapperInv, Locals, Idle, deinitialised, othersIdle
  <2>4. ListInv'
    BY <2>1, BlockListInv DEF mapper
  <2>5. ASSUME NEW p \in Blocks \ raced PROVE ReadyInv(p)' /\ FlagInv(p)'
    <3>1. CASE p # o
      BY <2>1, <3>1 DEF MapperInv, Locals, ReadyInv, FlagInv, Registered, deinitialised,
         othersIdle, mapper
    <3>2. CASE p = o
      <4>1. ~Registered(o) /\ m.fb # o
        BY <1>7, <2>1, <3>2 DEF MapperInv, FlagInv
      <4>2. mHandle[o] \notin Handles
        BY <3>2, <4>1 DEF MapperInv, BlockSide, Registered
      <4>3. <<mHandle[o], o>> \notin Fitting
        BY <4>2
      <4>4. ReadyInv(p)'
        BY <2>1, <3>2, <4>3 DEF MapperInv, ReadyInv, mapper
      <4>5. FlagInv(p)'
        BY <1>7, <2>1, <3>2, <4>1 DEF MapperInv, TypeOK, Locals, FlagInv, Registered, Idle,
           deinitialised,
           othersIdle, mapper
      <4> QED
        BY <4>4, <4>5
    <3> QED
      BY <3>1, <3>2
  <2> QED
    BY <2>1, <2>2, <2>3, <2>4, <2>5, MapperAlone DEF MapperInv, othersIdle
<1>8. CASE deinitialise(o) /\ mIsListening[o]
  <2>1. /\ deregisterObserver(o) /\ othersIdle /\ mIsListening' = mIsListening
        /\ b' = [b EXCEPT ![o].pc = "unlisten"] /\ raced' = raced
        /\ b[o].pc = "deinitialise"
    BY <1>8 DEF deinitialise, Block, othersIdle
  <2>2. TypeOK'
    BY <2>1, DeregisterObserver DEF MapperInv, TypeOK, othersIdle, lists
  <2>3. Locals'
    BY <2>1 DEF MapperInv, Locals, othersIdle
  <2>4. ListInv'
    BY <2>1, DeregisterObserver, BlockListInv
  <2>5. ASSUME NEW p \in Blocks \ raced PROVE ReadyInv(p)'
    <3>1. \/ mHandle'[p] = mHandle[p] /\ (mIsReady'[p] <=> mIsReady[p])
          \/ mHandle'[p] = None /\ ~mIsReady'[p]
      BY <2>1, DeregisterObserver
    <3>2. <<None, p>> \notin Fitting
      OBVIOUS
    <3>3. CASE p # o
      BY <2>1, <3>1, <3>2, <3>3 DEF MapperInv, Locals, ReadyInv
    <3>4. CASE p = o
      <4>1. ~Registered(o)' /\ BlockSide(o)'
        BY <2>1, <3>4, DeregisterObserver
      <4>2. mHandle'[o] \notin Handles
        BY <4>1 DEF BlockSide, Registered
      <4>3. <<mHandle'[o], o>> \notin Fitting
        BY <4>2
      <4> QED
        BY <3>1, <3>4, <4>3 DEF MapperInv, ReadyInv
    <3> QED
      BY <3>3, <3>4
  <2>6. ASSUME NEW p \in Blocks \ raced PROVE FlagInv(p)'
    <3>1. CASE p # o
      <4>1. Registered(p)' <=> Registered(p)
        BY <2>1, <3>1, DeregisterObserver
      <4> QED
        BY <2>1, <3>1, <4>1 DEF MapperInv, Locals, FlagInv, othersIdle
    <3>2. CASE p = o
      <4>1. ~Registered(o)'
        BY <2>1, <3>2, DeregisterObserver
      <4> QED
        BY <2>1, <3>2, <4>1 DEF MapperInv, Locals, FlagInv, othersIdle
    <3> QED
      BY <3>1, <3>2
  <2> QED
    BY <2>1, <2>2, <2>3, <2>4, <2>5, <2>6, DeregisterObserver DEF MapperInv
<1>9. CASE register(o) /\ mObservers[b[o].id] # None
  <2>1. UNCHANGED <<mapper, mIsReady, mIsListening>> /\ othersIdle /\ b[o].pc = "register"
        /\ b' = [b EXCEPT ![o].pc = "listen", ![o].ok = FALSE]
    BY <1>9 DEF register, unlinked, mapper
  <2>2. TypeOK'
    BY <2>1 DEF MapperInv, TypeOK, othersIdle, mapper, lists
  <2>3. Locals'
    BY <2>1 DEF MapperInv, Locals, othersIdle
  <2>4. ListInv'
    BY <2>1, BlockListInv DEF mapper
  <2>5. ASSUME NEW p \in Blocks \ raced PROVE ReadyInv(p)' /\ FlagInv(p)'
    BY <2>1 DEF MapperInv, Locals, ReadyInv, FlagInv, Registered, othersIdle, mapper
  <2> QED
    BY <2>1, <2>2, <2>3, <2>4, <2>5, MapperAlone DEF MapperInv, othersIdle
<1>10. CASE register(o) /\ mObservers[b[o].id] = None
  <2> DEFINE i == b[o].id
  <2>1. /\ i \in Ids /\ mObservers[i] = None /\ registerObserver(i, o) /\ othersIdle
        /\ mIsListening' = mIsListening /\ raced' = raced
        /\ b' = [b EXCEPT ![o].pc = "listen", ![o].ok = TRUE]
        /\ b[o].pc = "register"
        /\ o \notin raced => ~Registered(o)
    BY <1>10 DEF register, othersIdle, MapperInv, Locals, FlagInv
  <2> HIDE DEF i
  <2>2. TypeOK'
    BY <2>1, RegisterObserver DEF MapperInv, TypeOK, othersIdle, lists
  <2>3. Locals'
    BY <2>1 DEF MapperInv, Locals, othersIdle
  <2>4. ListInv'
    BY <2>1, RegisterObserver, BlockListInv
  <2>5. ASSUME NEW p \in Blocks \ raced PROVE ReadyInv(p)'
    <3>1. /\ p # o => mHandle'[p] = mHandle[p] /\ (mIsReady'[p] <=> mIsReady[p])
          /\ p = o => (mIsReady'[o] <=> <<mHandle'[o], o>> \in Fitting)
      BY <2>1, RegisterObserver
    <3> QED
      BY <2>1, <3>1 DEF MapperInv, Locals, ReadyInv
  <2>6. ASSUME NEW p \in Blocks \ raced PROVE FlagInv(p)'
    <3>1. Registered(o)' /\ (p # o => (Registered(p)' <=> Registered(p)))
      BY <2>1, RegisterObserver
    <3> QED
      BY <2>1, <3>1 DEF MapperInv, Locals, FlagInv, othersIdle
  <2> QED
    BY <2>1, <2>2, <2>3, <2>4, <2>5, <2>6, RegisterObserver DEF MapperInv
<1> QED
  BY <1>1, <1>2, <1>3, <1>4, <1>5, <1>6, <1>7, <1>8, <1>9, <1>10 DEF BlockStep

\* The management thread: a block that is not in the middle of an event is left as its own
\* thread would leave it.
LEMMA ManagementStepInv == MapperInv /\ ManagementStep => MapperInv'
<1> USE IOMapperAssumption
<1> SUFFICES ASSUME MapperInv, ManagementStep PROVE MapperInv'
  OBVIOUS
<1>1. ASSUME NEW o \in Managed, stop(o) PROVE MapperInv'
  <2>1. /\ UNCHANGED <<mapper, mIsReady, handles, alive, mHandleMutex, b, c, t>>
        /\ raced \subseteq raced'
    BY <1>1 DEF stop, lists, threads
  <2>2. TypeOK'
    BY <1>1, <2>1 DEF stop, MapperInv, TypeOK, Locals, mapper
  <2>3. Locals'
    BY <1>1, <2>1 DEF stop, MapperInv, Locals, threads
  <2>4. ListInv'
    BY <2>1 DEF MapperInv, ListInv, mapper
  <2>5. ASSUME NEW p \in Blocks \ raced' PROVE ReadyInv(p)' /\ FlagInv(p)'
    <3>1. ReadyInv(p)'
      BY <2>1 DEF MapperInv, ReadyInv, mapper
    <3>2. FlagInv(p)'
      BY <1>1, <2>1 DEF stop, MapperInv, TypeOK, Locals, FlagInv, Registered, mapper, threads
    <3> QED
      BY <3>1, <3>2
  <2> QED
    BY <2>1, <2>2, <2>3, <2>4, <2>5, MapperAlone DEF MapperInv
<1>2. ASSUME NEW o \in Managed, kill(o) PROVE MapperInv'
  <2>1. /\ UNCHANGED <<mapper, mIsReady, handles, alive, mHandleMutex, b, c, t>>
        /\ raced \subseteq raced'
    BY <1>2 DEF kill, lists, threads
  <2>2. TypeOK'
    BY <1>2, <2>1 DEF kill, MapperInv, TypeOK, Locals, mapper
  <2>3. Locals'
    BY <1>2, <2>1 DEF kill, MapperInv, Locals, threads
  <2>4. ListInv'
    BY <2>1 DEF MapperInv, ListInv, mapper
  <2>5. ASSUME NEW p \in Blocks \ raced' PROVE ReadyInv(p)' /\ FlagInv(p)'
    <3>1. ReadyInv(p)'
      BY <2>1 DEF MapperInv, ReadyInv, mapper
    <3>2. FlagInv(p)'
      BY <1>2, <2>1 DEF kill, MapperInv, TypeOK, Locals, FlagInv, Registered, mapper, threads
    <3> QED
      BY <3>1, <3>2
  <2> QED
    BY <2>1, <2>2, <2>3, <2>4, <2>5, MapperAlone DEF MapperInv
<1>3. ASSUME NEW o \in Managed, reset(o) PROVE MapperInv'
  <2>1. /\ UNCHANGED <<mapper, mIsReady, handles, alive, mHandleMutex, b, c, t>>
        /\ raced \subseteq raced'
    BY <1>3 DEF reset, lists, threads
  <2>2. TypeOK'
    BY <1>3, <2>1 DEF reset, MapperInv, TypeOK, Locals, mapper
  <2>3. Locals'
    BY <1>3, <2>1 DEF reset, MapperInv, Locals, threads
  <2>4. ListInv'
    BY <2>1 DEF MapperInv, ListInv, mapper
  <2>5. ASSUME NEW p \in Blocks \ raced' PROVE ReadyInv(p)' /\ FlagInv(p)'
    <3>1. ReadyInv(p)'
      BY <2>1 DEF MapperInv, ReadyInv, mapper
    <3>2. FlagInv(p)'
      BY <1>3, <2>1 DEF reset, MapperInv, TypeOK, Locals, FlagInv, Registered, mapper, threads
    <3> QED
      BY <3>1, <3>2
  <2> QED
    BY <2>1, <2>2, <2>3, <2>4, <2>5, MapperAlone DEF MapperInv
<1>4. ASSUME NEW o \in Managed, start(o) PROVE MapperInv'
  <2>1. /\ UNCHANGED <<mapper, mIsReady, handles, alive, mHandleMutex, b, c, t>>
        /\ raced \subseteq raced'
    BY <1>4 DEF start, lists, threads
  <2>2. TypeOK'
    BY <1>4, <2>1 DEF start, MapperInv, TypeOK, Locals, mapper
  <2>3. Locals'
    BY <1>4, <2>1 DEF start, MapperInv, Locals, threads
  <2>4. ListInv'
    BY <2>1 DEF MapperInv, ListInv, mapper
  <2>5. ASSUME NEW p \in Blocks \ raced' PROVE ReadyInv(p)' /\ FlagInv(p)'
    <3>1. ReadyInv(p)'
      BY <2>1 DEF MapperInv, ReadyInv, mapper
    <3>2. FlagInv(p)'
      BY <1>4, <2>1 DEF start, MapperInv, TypeOK, Locals, FlagInv, Registered, mapper, threads
    <3> QED
      BY <3>1, <3>2
  <2> QED
    BY <2>1, <2>2, <2>3, <2>4, <2>5, MapperAlone DEF MapperInv
<1>5. CASE unlistenKilled
  <2>1. /\ UNCHANGED <<mapper, mIsReady, handles, alive, mHandleMutex, b, c, t>>
        /\ raced \subseteq raced'
    BY <1>5 DEF unlistenKilled, lists, threads
  <2>2. TypeOK'
    BY <1>5, <2>1 DEF unlistenKilled, MapperInv, TypeOK, Locals, mapper
  <2>3. Locals'
    BY <1>5, <2>1 DEF unlistenKilled, MapperInv, Locals, threads
  <2>4. ListInv'
    BY <2>1 DEF MapperInv, ListInv, mapper
  <2>5. ASSUME NEW p \in Blocks \ raced' PROVE ReadyInv(p)' /\ FlagInv(p)'
    <3>1. ReadyInv(p)'
      BY <2>1 DEF MapperInv, ReadyInv, mapper
    <3>2. FlagInv(p)'
      BY <1>5, <2>1 DEF unlistenKilled, MapperInv, TypeOK, Locals, FlagInv, Registered, mapper,
         threads
    <3> QED
      BY <3>1, <3>2
  <2> QED
    BY <2>1, <2>2, <2>3, <2>4, <2>5, MapperAlone DEF MapperInv
<1>6. CASE deinitialiseKilled /\ ~mIsListening[m.fb]
  <2>1. UNCHANGED <<mapper, mIsReady, mIsListening, mFBState, handles, alive, mHandleMutex, b, c,
                    t, raced>>
        /\ m' = [pc |-> "ready", fb |-> None] /\ m.pc = "deinitialise"
    BY <1>6 DEF deinitialiseKilled, unlinked, mapper, lists
  <2>2. TypeOK'
    BY <2>1 DEF MapperInv, TypeOK, mapper
  <2>3. Locals'
    BY <2>1 DEF MapperInv, Locals
  <2>4. ListInv'
    BY <2>1 DEF MapperInv, ListInv, mapper
  <2>5. ASSUME NEW p \in Blocks \ raced PROVE ReadyInv(p)' /\ FlagInv(p)'
    BY <2>1 DEF MapperInv, Locals, ReadyInv, FlagInv, Registered, mapper
  <2> QED
    BY <2>1, <2>2, <2>3, <2>4, <2>5, MapperAlone DEF MapperInv
<1>7. CASE deinitialiseKilled /\ mIsListening[m.fb]
  <2>1. PICK o \in Blocks :
        /\ deregisterObserver(o)
        /\ UNCHANGED <<mIsListening, mFBState, handles, alive, mHandleMutex, b, c, t, raced>>
        /\ m' = [pc |-> "unlisten", fb |-> o] /\ m.pc = "deinitialise" /\ m.fb = o
    BY <1>7 DEF deinitialiseKilled, MapperInv, Locals, lists
  <2>2. TypeOK'
    BY <2>1, DeregisterObserver DEF MapperInv, TypeOK
  <2>3. Locals'
    BY <2>1 DEF MapperInv, Locals
  <2>4. ListInv'
    <3>1. mHandles' = mHandles
      BY <2>1, DeregisterObserver
    <3> QED
      BY <2>1, <3>1 DEF MapperInv, ListInv
  <2>5. ASSUME NEW p \in Blocks \ raced PROVE ReadyInv(p)'
    <3>1. \/ mHandle'[p] = mHandle[p] /\ (mIsReady'[p] <=> mIsReady[p])
          \/ mHandle'[p] = None /\ ~mIsReady'[p]
      BY <2>1, DeregisterObserver
    <3>2. <<None, p>> \notin Fitting
      OBVIOUS
    <3> QED
      BY <2>1, <3>1, <3>2 DEF MapperInv, ReadyInv
  <2>6. ASSUME NEW p \in Blocks \ raced PROVE FlagInv(p)'
    <3>1. CASE p # o
      <4>1. Registered(p)' <=> Registered(p)
        BY <2>1, <3>1, DeregisterObserver
      <4> QED
        BY <2>1, <3>1, <4>1 DEF MapperInv, FlagInv
    <3>2. CASE p = o
      <4>1. ~Registered(o)'
        BY <2>1, <3>2, DeregisterObserver
      <4> QED
        BY <2>1, <3>2, <4>1 DEF MapperInv, FlagInv
    <3> QED
      BY <3>1, <3>2
  <2> QED
    BY <2>1, <2>2, <2>3, <2>4, <2>5, <2>6, DeregisterObserver DEF MapperInv
<1> QED
  BY <1>1, <1>2, <1>3, <1>4, <1>5, <1>6, <1>7 DEF ManagementStep

\* Every step of the system keeps the invariant.
LEMMA MapperStep == MapperInv /\ [Next]_vars => MapperInv'
<1> SUFFICES ASSUME MapperInv, [Next]_vars PROVE MapperInv'
  OBVIOUS
<1>1. ASSUME UNCHANGED <<mapper, flags, lists, threads, raced>> PROVE MapperInv'
  <2>1. TypeOK' /\ Locals' /\ ListInv'
    BY <1>1 DEF MapperInv, TypeOK, Locals, ListInv, mapper, flags, lists, threads
  <2>2. UNCHANGED <<mapper, mIsReady, mIsListening, mFBState, b, m, raced>>
    BY <1>1 DEF flags, threads
  <2> QED
    BY <2>1, <2>2, BlockAlone DEF MapperInv
<1>2. CASE Crash
  BY <1>1, <1>2 DEF Crash
<1>3. CASE UNCHANGED vars
  BY <1>1, <1>3 DEF vars
<1> QED
  BY <1>2, <1>3, BlockStepInv, ConfigStepInv, ControllerStepInv, ManagementStepInv DEF Next

\* The invariant holds always.
LEMMA MapperAlways == Spec => []MapperInv
BY MapperInit, MapperStep, PTL DEF Spec

-----------------------------------------------------------------------------
(* The theorems *)

\* The maps, flags and lists keep their types, the list of the controller holds living
\* handles only, and the mutex is held exactly while the controller walks its list.
THEOREM MapperTypes == Spec => []TypeOK
<1>1. MapperInv => TypeOK
  BY DEF MapperInv
<1> QED
  BY <1>1, MapperAlways, PTL

\* However registrations and deregistrations of handles and blocks interleave, a handle and
\* a block point at each other exactly when both are registered under one id.
THEOREM LinksAreRegistrations == Spec => []LinkedMeansRegistered
<1>1. MapperInv => LinkedMeansRegistered
  <2> SUFFICES ASSUME MapperInv, raced = {}, NEW h \in Handles, NEW o \in Blocks
               PROVE  LET same == \E i \in Ids : mHandles[i] = h /\ mObservers[i] = o
                      IN  (same <=> (mObserver[h] = o)) /\ (same <=> (mHandle[o] = h))
    BY DEF LinkedMeansRegistered
  <2> QED
    BY DEF MapperInv, HandleSide, BlockSide
<1> QED
  BY <1>1, MapperAlways, PTL

\* Neither the mapper nor a block keeps a handle that the configuration block or the
\* controller has deleted.
THEOREM HandlesOutliveTheirNames == Spec => []NoDanglingHandle
<1>1. MapperInv => NoDanglingHandle
  <2> SUFFICES ASSUME MapperInv PROVE NoDanglingHandle
    OBVIOUS
  <2>1. \A i \in Ids : mHandles[i] \in alive \cup {None}
    BY DEF MapperInv, ListInv
  <2>2. ASSUME raced = {}, NEW o \in Blocks PROVE mHandle[o] \in alive \cup {None}
    <3>1. CASE mHandle[o] = None
      BY <3>1
    <3>2. CASE mHandle[o] \in Handles
      <4>1. PICK i \in Ids : mHandles[i] = mHandle[o]
        BY <2>2, <3>2 DEF MapperInv, BlockSide
      <4> QED
        BY <2>1, <4>1
    <3> QED
      BY <3>1, <3>2 DEF MapperInv, TypeOK
  <2> QED
    BY <2>1, <2>2 DEF NoDanglingHandle
<1> QED
  BY <1>1, MapperAlways, PTL

\* A block that management did not catch in the middle of an event knows, between events,
\* whether it is registered and whether its handle fits.
THEOREM BlocksKnowTheirState == Spec => []BlockKnowsItsState
<1>1. MapperInv => BlockKnowsItsState
  BY DEF MapperInv, ReadyInv, FlagInv, BlockKnowsItsState
<1> QED
  BY <1>1, MapperAlways, PTL
=============================================================================
