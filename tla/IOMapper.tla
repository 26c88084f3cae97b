------------------------------ MODULE IOMapper ------------------------------
(***************************************************************************)
(* The mapping between the handles of an I/O device and the process        *)
(* interface blocks (IX, QX, ...) that use them: IOMapper, IOHandle,       *)
(* IOObserver, CProcessInterfaceFB, and the handle lists of an             *)
(* IODeviceController.                                                     *)
(*                                                                         *)
(* Handles and blocks register under an id, in any order; the mapper links *)
(* the two that have the same.  Its methods hold mSyncMutex and are single *)
(* steps here.  What the callers do around them is not protected: a block  *)
(* belongs to the executing thread of its resource (one thread per block), *)
(* which is also driven by the management thread; handles are added and    *)
(* removed by the thread of the configuration block, and read and dropped  *)
(* by the thread of the controller, these two under mHandleMutex.          *)
(*                                                                         *)
(* The outputs QO and STATUS and the values read and written, which no     *)
(* step of this system reads, are left out.                                *)
(*                                                                         *)
(* The use of a deleted handle or of a null observer is undefined          *)
(* behaviour: the model names it (crashed) and follows the program no      *)
(* further.                                                                *)
(***************************************************************************)
CONSTANTS
    Ids, Blocks, Handles,
    Fitting,            \* pairs of handle and block whose type and direction agree
    Managed             \* the blocks that management commands are sent to

None == "none"

ASSUME IOMapperAssumption ==
    /\ Fitting \subseteq Handles \X Blocks
    /\ Managed \subseteq Blocks
    /\ None \notin Ids \cup Blocks \cup Handles

VARIABLES
    mHandles, mObservers,               \* the maps of the mapper
    mObserver,                          \* of the handles
    mHandle, mIsReady, mIsListening,    \* of the blocks
    mFBState,                           \* of the blocks
    handles,                            \* the handle lists of the controller
    alive,                              \* handles that have been created and not deleted
    mHandleMutex,
    b,                                  \* the executing threads of the blocks
    c,                                  \* the thread of the configuration block
    t,                                  \* the thread of the controller
    m,                                  \* the management thread
    raced,                              \* history: blocks killed or reset in the middle of an event
    crashed

mapper == <<mHandles, mObservers, mObserver, mHandle>>
flags == <<mIsReady, mIsListening, mFBState>>
lists == <<handles, alive, mHandleMutex>>
threads == <<b, c, t, m>>
vars == <<mapper, flags, lists, threads, raced, crashed>>

Idle == [pc |-> "idle", id |-> None, handle |-> None, ok |-> FALSE]

Init ==
    /\ mHandles = [i \in Ids |-> None] /\ mObservers = [i \in Ids |-> None]
    /\ mObserver = [h \in Handles |-> None]
    /\ mHandle = [o \in Blocks |-> None]
    /\ mIsReady = [o \in Blocks |-> FALSE] /\ mIsListening = [o \in Blocks |-> FALSE]
    /\ mFBState = [o \in Blocks |-> "Running"]
    /\ handles = {} /\ alive = {}
    /\ mHandleMutex = "free"
    /\ b = [o \in Blocks |-> Idle]
    /\ c = Idle
    /\ t = [pc |-> "loop", todo |-> {}, handle |-> None]
    /\ m = [pc |-> "ready", fb |-> None]
    /\ raced = {}
    /\ crashed = FALSE

-----------------------------------------------------------------------------
(* The methods of the mapper *)

\* onObserver of the handle and onHandle of the block.
connect(h, o) ==
    /\ mObserver' = [mObserver EXCEPT ![h] = o]
    /\ mHandle' = [mHandle EXCEPT ![o] = h]
    /\ mIsReady' = [mIsReady EXCEPT ![o] = @ \/ <<h, o>> \in Fitting]

\* dropObserver of the handle and dropHandle of the block
disconnect(h, o) ==
    /\ mObserver' = [mObserver EXCEPT ![h] = None]
    /\ mHandle' = [mHandle EXCEPT ![o] = None]
    /\ mIsReady' = [mIsReady EXCEPT ![o] = FALSE]

unlinked == UNCHANGED <<mObserver, mHandle, mIsReady>>

registerHandle(i, h) ==
    /\ mHandles' = [mHandles EXCEPT ![i] = h]
    /\ IF mObservers[i] # None THEN connect(h, mObservers[i]) ELSE unlinked
    /\ UNCHANGED mObservers

\* mutant: the block is not told
deregisterHandleQuietly(h) ==
    /\ mHandles' = [i \in Ids |-> IF mHandles[i] = h THEN None ELSE mHandles[i]]
    /\ unlinked
    /\ UNCHANGED mObservers

deregisterHandle(h) ==
    \/ \E i \in Ids :
          /\ mHandles[i] = h
          /\ mHandles' = [mHandles EXCEPT ![i] = None]
          /\ IF mObservers[i] # None THEN disconnect(h, mObservers[i]) ELSE unlinked
          /\ UNCHANGED mObservers
    \/ (\A i \in Ids : mHandles[i] # h) /\ unlinked /\ UNCHANGED <<mHandles, mObservers>>

\* mutant: the handle that is there already is not looked for
registerObserverLate(i, o) ==
    /\ mObservers' = [mObservers EXCEPT ![i] = o]
    /\ unlinked
    /\ UNCHANGED mHandles

registerObserver(i, o) ==
    /\ mObservers' = [mObservers EXCEPT ![i] = o]
    /\ IF mHandles[i] # None THEN connect(mHandles[i], o) ELSE unlinked
    /\ UNCHANGED mHandles

deregisterObserver(o) ==
    \/ \E i \in Ids :
          /\ mObservers[i] = o
          /\ mObservers' = [mObservers EXCEPT ![i] = None]
          /\ IF mHandles[i] # None THEN disconnect(mHandles[i], o) ELSE unlinked
          /\ UNCHANGED mHandles
    \/ (\A i \in Ids : mObservers[i] # o) /\ unlinked /\ UNCHANGED <<mHandles, mObservers>>

-----------------------------------------------------------------------------
(* A block: CProcessInterfaceFB::executeEvent and REQ, in its executing thread *)

Block(o, pc) == b' = [b EXCEPT ![o].pc = pc]
othersIdle == UNCHANGED <<mFBState, lists, c, t, m, raced, crashed>>

\* INIT with QI, for the id in PARAMS: initialise resets the block, ...
initialise(o, i) ==
    /\ b[o].pc = "idle" /\ mFBState[o] = "Running"
    /\ mIsReady' = [mIsReady EXCEPT ![o] = FALSE]
    /\ b' = [b EXCEPT ![o] = [Idle EXCEPT !.pc = "deinitialise", !.id = i]]
    /\ UNCHANGED <<mapper, mIsListening>>
    /\ othersIdle

\* INIT without QI
INITwithoutQI(o) ==
    /\ b[o].pc = "idle" /\ mFBState[o] = "Running"
    /\ Block(o, "deinitialise")
    /\ UNCHANGED <<mapper, mIsReady, mIsListening>>
    /\ othersIdle

deinitialised(o) == b' = [b EXCEPT ![o] = IF @.id = None THEN Idle ELSE [@ EXCEPT !.pc = "register"]]

\* mutant: the old registration stays
deinitialiseNot(o) ==
    /\ b[o].pc = "deinitialise"
    /\ deinitialised(o)
    /\ UNCHANGED <<mapper, mIsReady, mIsListening>>
    /\ othersIdle

deinitialise(o) ==
    /\ b[o].pc = "deinitialise"
    /\ IF mIsListening[o]
       THEN deregisterObserver(o) /\ Block(o, "unlisten")
       ELSE /\ deinitialised(o)
            /\ unlinked
            /\ UNCHANGED <<mHandles, mObservers>>
    /\ UNCHANGED mIsListening
    /\ othersIdle

unlisten(o) ==
    /\ b[o].pc = "unlisten"
    /\ mIsListening' = [mIsListening EXCEPT ![o] = FALSE]
    /\ deinitialised(o)
    /\ UNCHANGED <<mapper, mIsReady>>
    /\ othersIdle

\* ... registers it, if nobody else has taken the id, ...
register(o) ==
    /\ b[o].pc = "register"
    /\ LET free == mObservers[b[o].id] = None
       IN  /\ IF free THEN registerObserver(b[o].id, o)
                      ELSE unlinked /\ UNCHANGED <<mHandles, mObservers>>
           /\ b' = [b EXCEPT ![o].pc = "listen", ![o].ok = free]
    /\ UNCHANGED mIsListening
    /\ othersIdle

listen(o) ==
    /\ b[o].pc = "listen"
    /\ mIsListening' = [mIsListening EXCEPT ![o] = b[o].ok]
    /\ b' = [b EXCEPT ![o] = Idle]
    /\ UNCHANGED <<mapper, mIsReady>>
    /\ othersIdle

\* REQ with QI: the handle is fetched, ...
REQ(o) ==
    /\ b[o].pc = "idle" /\ mFBState[o] = "Running"
    /\ mIsReady[o] /\ mHandle[o] # None
    /\ b' = [b EXCEPT ![o] = [Idle EXCEPT !.pc = "use", !.handle = mHandle[o]]]
    /\ UNCHANGED <<mapper, mIsReady, mIsListening>>
    /\ othersIdle

\* ... and used.
useHandle(o) ==
    /\ b[o].pc = "use"
    /\ b[o].handle \in alive
    /\ b' = [b EXCEPT ![o] = Idle]
    /\ UNCHANGED <<mapper, mIsReady, mIsListening>>
    /\ othersIdle

BlockStep(o) ==
    \/ \E i \in Ids : initialise(o, i)
    \/ INITwithoutQI(o) \/ deinitialise(o) \/ unlisten(o) \/ register(o) \/ listen(o)
    \/ REQ(o) \/ useHandle(o)

-----------------------------------------------------------------------------
(* The configuration block adds and removes handles. *)

\* addHandle: a handle that cannot be registered is deleted again.
addHandle(i, h) ==
    /\ c.pc = "idle"
    /\ h \notin alive
    /\ mHandles[i] = None
    /\ registerHandle(i, h)
    /\ alive' = alive \cup {h}
    /\ c' = [c EXCEPT !.pc = "push", !.handle = h]
    /\ UNCHANGED <<mIsListening, mFBState, handles, mHandleMutex, b, t, m, raced, crashed>>

pushHandle ==
    /\ c.pc = "push"
    /\ mHandleMutex = "free"
    /\ handles' = handles \cup {c.handle}
    /\ c' = Idle
    /\ UNCHANGED <<mapper, flags, alive, mHandleMutex, b, t, m, raced, crashed>>

\* removeHandle: the handle is looked up, asked for its direction, ...
getHandle(i) ==
    /\ c.pc = "idle"
    /\ mHandles[i] # None
    /\ c' = [c EXCEPT !.pc = "getDirection", !.handle = mHandles[i]]
    /\ UNCHANGED <<mapper, flags, lists, b, t, m, raced, crashed>>

getDirection ==
    /\ c.pc = "getDirection"
    /\ c.handle \in alive
    /\ c' = [c EXCEPT !.pc = "remove"]
    /\ UNCHANGED <<mapper, flags, lists, b, t, m, raced, crashed>>

\* mutant: the handle is deleted and its place in the list stays
removeHandleInPlace ==
    /\ c.pc = "remove"
    /\ mHandleMutex = "free"
    /\ deregisterHandle(c.handle)
    /\ alive' = alive \ {c.handle}
    /\ c' = Idle
    /\ UNCHANGED <<mIsListening, mFBState, handles, mHandleMutex, b, t, m, raced, crashed>>

\* ... and removed from its list, deregistered and deleted.
removeHandle ==
    /\ c.pc = "remove"
    /\ mHandleMutex = "free"
    /\ IF c.handle \in handles
       THEN deregisterHandle(c.handle)
       ELSE unlinked /\ UNCHANGED <<mHandles, mObservers>>
    /\ alive' = IF c.handle \in handles THEN alive \ {c.handle} ELSE alive
    /\ handles' = handles \ {c.handle}
    /\ c' = Idle
    /\ UNCHANGED <<mIsListening, mFBState, mHandleMutex, b, t, m, raced, crashed>>

\* The controller has ended (see IOConfig) and is deleted, with the handles that came late;
\* a new one takes its place.
deleteController ==
    /\ c.pc = "idle" /\ t.pc = "ended"
    /\ \/ /\ handles = {}
          /\ t' = [t EXCEPT !.pc = "loop"]
          /\ unlinked
          /\ UNCHANGED <<mHandles, mObservers, handles, alive>>
       \/ \E h \in handles :
             /\ deregisterHandle(h)
             /\ handles' = handles \ {h}
             /\ alive' = alive \ {h}
             /\ UNCHANGED t
    /\ UNCHANGED <<mIsListening, mFBState, mHandleMutex, b, c, m, raced, crashed>>

ConfigStep ==
    \/ \E i \in Ids : getHandle(i) \/ \E h \in Handles : addHandle(i, h)
    \/ pushHandle \/ getDirection \/ removeHandle \/ deleteController

-----------------------------------------------------------------------------
(* The thread of the controller *)

othersThanController == UNCHANGED <<mIsListening, mFBState, b, c, m, raced, crashed>>

checkForInputChanges ==
    /\ t.pc = "loop"
    /\ mHandleMutex = "free"
    /\ mHandleMutex' = "controller"
    /\ t' = [t EXCEPT !.pc = "check", !.todo = handles]
    /\ UNCHANGED <<mapper, mIsReady, handles, alive>>
    /\ othersThanController

\* A handle that has an observer and has changed: its onChange asks for the observer again, ...
hasObserver ==
    /\ t.pc = "check"
    /\ \E h \in t.todo :
          t' = [t EXCEPT !.pc = IF mObserver[h] # None THEN "onChange" ELSE "check",
                         !.handle = h, !.todo = @ \ {h}]
    /\ UNCHANGED <<mapper, mIsReady, lists>>
    /\ othersThanController

testObserver ==
    /\ t.pc = "onChange"
    /\ t' = [t EXCEPT !.pc = IF mObserver[t.handle] # None THEN "call" ELSE "check"]
    /\ UNCHANGED <<mapper, mIsReady, lists>>
    /\ othersThanController

\* ... and calls it; the block reads the value and gets an event.
callObserver ==
    /\ t.pc = "call"
    /\ mObserver[t.handle] # None
    /\ t' = [t EXCEPT !.pc = "check"]
    /\ UNCHANGED <<mapper, mIsReady, lists>>
    /\ othersThanController

checked ==
    /\ t.pc = "check" /\ t.todo = {}
    /\ mHandleMutex' = "free"
    /\ t' = [t EXCEPT !.pc = "loop", !.handle = None]
    /\ UNCHANGED <<mapper, mIsReady, handles, alive>>
    /\ othersThanController

\* The loop has ended: dropHandles deregisters all handles ...
dropHandles ==
    /\ t.pc = "loop"
    /\ mHandleMutex = "free"
    /\ mHandleMutex' = "controller"
    /\ t' = [t EXCEPT !.pc = "drop", !.todo = handles]
    /\ UNCHANGED <<mapper, mIsReady, handles, alive>>
    /\ othersThanController

dropHandle ==
    /\ t.pc = "drop"
    /\ \E h \in t.todo : deregisterHandle(h) /\ t' = [t EXCEPT !.todo = @ \ {h}]
    /\ UNCHANGED lists
    /\ othersThanController

\* ... and deletes them.
clearHandles ==
    /\ t.pc = "drop" /\ t.todo = {}
    /\ handles' = {}
    /\ alive' = alive \ handles
    /\ mHandleMutex' = "free"
    /\ t' = [t EXCEPT !.pc = "ended"]
    /\ UNCHANGED <<mapper, mIsReady>>
    /\ othersThanController

ControllerStep ==
    \/ checkForInputChanges \/ hasObserver \/ testObserver \/ callObserver \/ checked
    \/ dropHandles \/ dropHandle \/ clearHandles

-----------------------------------------------------------------------------
(* The management thread stops, kills, resets and starts blocks. *)

stop(o) ==
    /\ m.pc = "ready" /\ mFBState[o] = "Running"
    /\ mFBState' = [mFBState EXCEPT ![o] = "Stopped"]
    /\ UNCHANGED <<mapper, mIsReady, mIsListening, lists, threads, raced, crashed>>

kill(o) ==
    /\ m.pc = "ready" /\ mFBState[o] = "Running"
    /\ mFBState' = [mFBState EXCEPT ![o] = "Killed"]
    /\ m' = [pc |-> "deinitialise", fb |-> o]
    /\ raced' = IF b[o].pc # "idle" THEN raced \cup {o} ELSE raced
    /\ UNCHANGED <<mapper, mIsReady, mIsListening, lists, b, c, t, crashed>>

deinitialiseKilled ==
    /\ m.pc = "deinitialise"
    /\ IF mIsListening[m.fb]
       THEN deregisterObserver(m.fb) /\ m' = [m EXCEPT !.pc = "unlisten"]
       ELSE /\ m' = [pc |-> "ready", fb |-> None]
            /\ unlinked
            /\ UNCHANGED <<mHandles, mObservers>>
    /\ UNCHANGED <<mIsListening, mFBState, lists, b, c, t, raced, crashed>>

unlistenKilled ==
    /\ m.pc = "unlisten"
    /\ mIsListening' = [mIsListening EXCEPT ![m.fb] = FALSE]
    /\ m' = [pc |-> "ready", fb |-> None]
    /\ UNCHANGED <<mapper, mIsReady, mFBState, lists, b, c, t, raced, crashed>>

\* Reset sets the initial values and deinitialises, Start lets the block run.
reset(o) ==
    /\ m.pc = "ready" /\ mFBState[o] \in {"Stopped", "Killed"}
    /\ mFBState' = [mFBState EXCEPT ![o] = "Idle"]
    /\ m' = [pc |-> "deinitialise", fb |-> o]
    /\ raced' = IF b[o].pc # "idle" THEN raced \cup {o} ELSE raced
    /\ UNCHANGED <<mapper, mIsReady, mIsListening, lists, b, c, t, crashed>>

start(o) ==
    /\ m.pc = "ready" /\ mFBState[o] \in {"Idle", "Stopped"}
    /\ mFBState' = [mFBState EXCEPT ![o] = "Running"]
    /\ UNCHANGED <<mapper, mIsReady, mIsListening, lists, threads, raced, crashed>>

ManagementStep ==
    \/ \E o \in Managed : stop(o) \/ kill(o) \/ reset(o) \/ start(o)
    \/ deinitialiseKilled \/ unlistenKilled

-----------------------------------------------------------------------------
\* A handle is used after it was deleted, or an observer after it was dropped.
Crash ==
    /\ \/ \E o \in Blocks : b[o].pc = "use" /\ b[o].handle \notin alive
       \/ c.pc = "getDirection" /\ c.handle \notin alive
       \/ t.pc = "call" /\ mObserver[t.handle] = None
    /\ crashed' = TRUE
    /\ UNCHANGED <<mapper, flags, lists, threads, raced>>

Next ==
    /\ ~crashed
    /\ \/ \E o \in Blocks : BlockStep(o)
       \/ ConfigStep
       \/ ControllerStep
       \/ ManagementStep
       \/ Crash

Spec == Init /\ [][Next]_vars

-----------------------------------------------------------------------------
(* Properties *)

Registered(o) == \E i \in Ids : mObservers[i] = o

\* Types; only the controller holds the mutex over a step.
TypeOK ==
    /\ mHandles \in [Ids -> Handles \cup {None}]
    /\ mObservers \in [Ids -> Blocks \cup {None}]
    /\ mObserver \in [Handles -> Blocks \cup {None}]
    /\ mHandle \in [Blocks -> Handles \cup {None}]
    /\ mIsReady \in [Blocks -> BOOLEAN] /\ mIsListening \in [Blocks -> BOOLEAN]
    /\ mFBState \in [Blocks -> {"Running", "Stopped", "Killed", "Idle"}]
    /\ handles \subseteq alive /\ alive \subseteq Handles
    /\ mHandleMutex = IF t.pc \in {"loop", "ended"} THEN "free" ELSE "controller"
    /\ raced \subseteq Blocks

\* A handle and a block are linked, from both sides, exactly when both are registered under
\* one id, in whatever order they come and go.  The exception (raced): once management has
\* killed or reset a block in the middle of an event, nothing is claimed any more.
LinkedMeansRegistered ==
    raced = {} =>
        \A h \in Handles, o \in Blocks :
            LET same == \E i \in Ids : mHandles[i] = h /\ mObservers[i] = o
            IN  (same <=> (mObserver[h] = o)) /\ (same <=> (mHandle[o] = h))

\* Neither the mapper nor a block names a handle that has been deleted, although a
\* controller drops its handles while others are being added and removed.  The exception
\* (raced), for what the blocks name: management has killed or reset a block in the middle
\* of an event.
NoDanglingHandle ==
    /\ \A i \in Ids : mHandles[i] \in alive \cup {None}
    /\ raced = {} => \A o \in Blocks : mHandle[o] \in alive \cup {None}

\* Between two events a block is ready exactly when it has a handle that fits, and listens
\* exactly when it is registered, unless it was killed or reset in the middle of one.
BlockKnowsItsState ==
    \A o \in Blocks \ raced :
        b[o].pc = "idle" /\ m.fb # o =>
            /\ mIsReady[o] <=> (<<mHandle[o], o>> \in Fitting)
            /\ mIsListening[o] <=> Registered(o)

\* "we are deregistered !": a block that does not listen is not registered.
NotListeningIsDeregistered ==
    \A o \in Blocks : b[o].pc = "idle" /\ m.fb # o /\ ~mIsListening[o] => ~Registered(o)
=============================================================================
