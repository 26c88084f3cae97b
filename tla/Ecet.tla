-------------------------------- MODULE Ecet --------------------------------
(***************************************************************************)
(* CEventChainExecutionThread: the thread that executes the event chains   *)
(* of one resource.  It owns an event list; other threads (timer, network, *)
(* I/O handlers) hand it external events through a second, mutex-protected *)
(* list and wake it through a binary semaphore; the management thread      *)
(* starts, stops and kills it.                                             *)
(*                                                                         *)
(* Both lists are CRingBuffers: FoundationProofs shows that these are      *)
(* FIFO lists of bounded length, which is what they are here.  A critical  *)
(* region on mExternalEventListSync is one step; the unprotected read of   *)
(* the external list in externalEventOccured is a step of its own.         *)
(***************************************************************************)
EXTENDS FBStates, Integers, Sequences, FiniteSets

CONSTANTS
    Producers,      \* threads that call startEventChain
    Internal,       \* source of the events the FBs of the resource send
    ListCap,        \* cgEventChainEventListSize - 1
    ExtCap,         \* cgEventChainExternalEventListSize - 1
    FanOut,         \* most events one FB execution sends
    MaxCalls,       \* bound: calls of startEventChain
    MaxCommands     \* bound: management commands

ASSUME EcetAssumption ==
    /\ Internal \notin Producers
    /\ ListCap \in Nat /\ ExtCap \in Nat
    /\ FanOut \in Nat
    /\ MaxCalls \in Nat /\ MaxCommands \in Nat

VARIABLES
    mEventList,             \* events to deliver, only touched by the thread (and by clear)
    mExternalEventList,     \* events other threads hand in
    mSuspendSemaphore,      \* mPosted of the binary semaphore
    mProcessingEvents,
    mAlive,
    mThreadHandle,          \* whether the handle is not null
    mFBState,               \* execution state of the resource and its FBs
    tpc,                    \* where the thread is
    ppc,                    \* where each producer is
    mpc,                    \* where the management thread is
    calls,                  \* calls of startEventChain so far; numbers the events
    commands,               \* management commands so far
    accepted,               \* history: external events taken
    delivered,              \* history: external events delivered, in order
    gone                    \* history: external events dropped by a full list or a kill

lists   == <<mEventList, mExternalEventList>>
history == <<accepted, delivered, gone>>
vars == <<lists, mSuspendSemaphore, mProcessingEvents, mAlive, mThreadHandle, mFBState,
          tpc, ppc, mpc, calls, commands, history>>

Event == [src : Producers \cup {Internal}, id : Nat]
InternalEvent == [src |-> Internal, id |-> 0]
IsExternal(e) == e.src # Internal

Init ==
    /\ mEventList = <<>>
    /\ mExternalEventList = <<>>
    /\ mSuspendSemaphore = FALSE
    /\ mProcessingEvents = FALSE
    /\ mAlive = FALSE
    /\ mThreadHandle = FALSE
    /\ mFBState = "Idle"
    /\ tpc = "none"
    /\ ppc = [p \in Producers |-> "idle"]
    /\ mpc = "ready"
    /\ calls = 0
    /\ commands = 0
    /\ accepted = {}
    /\ delivered = <<>>
    /\ gone = {}

-----------------------------------------------------------------------------
(* The event list.  addEventEntry pushes one event and drops it, with a log *)
(* message, when the list is full.                                         *)

Fitting(new, room) == IF Len(new) <= room THEN Len(new) ELSE room

\* mutant: the result of push is not looked at and the list grows past its end
addEventEntriesUnbounded(list, new) == list \o new

\* addEventEntry for every event of new in turn: the ones that fit are kept.
addEventEntries(list, new) ==
    list \o SubSeq(new, 1, Fitting(new, ListCap - Len(list)))

\* The ones that addEventEntry drops.
dropped(list, new) ==
    {new[i] : i \in Fitting(new, ListCap - Len(list)) + 1 .. Len(new)}

externals(events) == {e \in events : IsExternal(e)}
elements(list) == {list[i] : i \in 1 .. Len(list)}

-----------------------------------------------------------------------------
(* A producer: startEventChain *)

\* The critical region.  A full list drops the event and nothing else happens.
startEventChain(p) ==
    /\ ppc[p] = "idle"
    /\ calls < MaxCalls
    /\ calls' = calls + 1
    /\ \/ /\ Len(mExternalEventList) < ExtCap
          /\ LET event == [src |-> p, id |-> calls]
             IN  /\ mExternalEventList' = Append(mExternalEventList, event)
                 /\ accepted' = accepted \cup {event}
          /\ ppc' = [ppc EXCEPT ![p] = "inserted"]
       \/ /\ Len(mExternalEventList) >= ExtCap
          /\ UNCHANGED <<mExternalEventList, accepted, ppc>>
    /\ UNCHANGED <<mEventList, mSuspendSemaphore, mProcessingEvents, mAlive, mThreadHandle,
                   mFBState, tpc, mpc, commands, delivered, gone>>

\* mutant: a thread that is already processing events is not woken
setProcessingSkipWakeup(p) ==
    /\ ppc[p] = "inserted"
    /\ mProcessingEvents' = TRUE
    /\ ppc' = [ppc EXCEPT ![p] = IF mProcessingEvents THEN "idle" ELSE "flagged"]
    /\ UNCHANGED <<lists, mSuspendSemaphore, mAlive, mThreadHandle, mFBState, tpc, mpc,
                   calls, commands, history>>

setProcessing(p) ==
    /\ ppc[p] = "inserted"
    /\ mProcessingEvents' = TRUE
    /\ ppc' = [ppc EXCEPT ![p] = "flagged"]
    /\ UNCHANGED <<lists, mSuspendSemaphore, mAlive, mThreadHandle, mFBState, tpc, mpc,
                   calls, commands, history>>

resumeSelfSuspend(p) ==
    /\ ppc[p] = "flagged"
    /\ mSuspendSemaphore' = TRUE
    /\ ppc' = [ppc EXCEPT ![p] = "idle"]
    /\ UNCHANGED <<lists, mProcessingEvents, mAlive, mThreadHandle, mFBState, tpc, mpc,
                   calls, commands, history>>

ProducerStep(p) == setProcessing(p) \/ resumeSelfSuspend(p)

-----------------------------------------------------------------------------
(* The thread: runThread, run and mainRun *)

\* setAlive(true); onAliveChanged(true) does nothing.
runThread ==
    /\ tpc = "spawned"
    /\ mAlive' = TRUE
    /\ tpc' = "loop"
    /\ UNCHANGED <<lists, mSuspendSemaphore, mProcessingEvents, mThreadHandle, mFBState, ppc,
                   mpc, calls, commands, history>>

\* while (isAlive())
run ==
    /\ tpc = "loop"
    /\ tpc' = IF mAlive THEN "peek" ELSE "exit"
    /\ UNCHANGED <<lists, mSuspendSemaphore, mProcessingEvents, mAlive, mThreadHandle, mFBState,
                   ppc, mpc, calls, commands, history>>

\* mutant: external events are only looked for when the chain has run dry
externalEventOccuredWhenIdle ==
    /\ tpc = "peek"
    /\ tpc' = IF mExternalEventList # <<>> /\ mEventList = <<>> THEN "transfer" ELSE "pop"
    /\ UNCHANGED <<lists, mSuspendSemaphore, mProcessingEvents, mAlive, mThreadHandle, mFBState,
                   ppc, mpc, calls, commands, history>>

\* if (externalEventOccured()), outside of the critical region
externalEventOccured ==
    /\ tpc = "peek"
    /\ tpc' = IF mExternalEventList # <<>> THEN "transfer" ELSE "pop"
    /\ UNCHANGED <<lists, mSuspendSemaphore, mProcessingEvents, mAlive, mThreadHandle, mFBState,
                   ppc, mpc, calls, commands, history>>

\* mutant: the external list is copied and not emptied
transferExternalEventsCopy ==
    /\ tpc = "transfer"
    /\ mEventList' = addEventEntries(mEventList, mExternalEventList)
    /\ gone' = gone \cup externals(dropped(mEventList, mExternalEventList))
    /\ tpc' = "pop"
    /\ UNCHANGED <<mExternalEventList, mSuspendSemaphore, mProcessingEvents, mAlive,
                   mThreadHandle, mFBState, ppc, mpc, calls, commands, accepted, delivered>>

transferExternalEvents ==
    /\ tpc = "transfer"
    /\ mEventList' = addEventEntries(mEventList, mExternalEventList)
    /\ mExternalEventList' = <<>>
    /\ gone' = gone \cup externals(dropped(mEventList, mExternalEventList))
    /\ tpc' = "pop"
    /\ UNCHANGED <<mSuspendSemaphore, mProcessingEvents, mAlive, mThreadHandle, mFBState, ppc,
                   mpc, calls, commands, accepted, delivered>>

\* pop returned nothing
becomeIdle ==
    /\ tpc = "pop"
    /\ mEventList = <<>>
    /\ mProcessingEvents' = FALSE
    /\ tpc' = "suspend"
    /\ UNCHANGED <<lists, mSuspendSemaphore, mAlive, mThreadHandle, mFBState, ppc, mpc, calls,
                   commands, history>>

\* pop returned an event: receiveInputEvent runs the FB, which sends its output events
\* into the event list.  A FB that is not running ignores the event.
receiveInputEvent ==
    /\ tpc = "pop"
    /\ mEventList # <<>>
    /\ \E n \in 0 .. FanOut :
          /\ mFBState # "Running" => n = 0
          /\ mEventList' = addEventEntries(Tail(mEventList), [i \in 1 .. n |-> InternalEvent])
    /\ delivered' = IF IsExternal(Head(mEventList))
                    THEN Append(delivered, Head(mEventList))
                    ELSE delivered
    /\ tpc' = "loop"
    /\ UNCHANGED <<mExternalEventList, mSuspendSemaphore, mProcessingEvents, mAlive,
                   mThreadHandle, mFBState, ppc, mpc, calls, commands, accepted, gone>>

\* waitIndefinitely takes the post of the binary semaphore.
selfSuspend ==
    /\ tpc = "suspend"
    /\ mSuspendSemaphore
    /\ mSuspendSemaphore' = FALSE
    /\ tpc' = "resumed"
    /\ UNCHANGED <<lists, mProcessingEvents, mAlive, mThreadHandle, mFBState, ppc, mpc, calls,
                   commands, history>>

resumed ==
    /\ tpc = "resumed"
    /\ mProcessingEvents' = TRUE
    /\ tpc' = "loop"
    /\ UNCHANGED <<lists, mSuspendSemaphore, mAlive, mThreadHandle, mFBState, ppc, mpc, calls,
                   commands, history>>

\* The end of runThread: setAlive(false) changes nothing here, the handle is reset.
exitThread ==
    /\ tpc = "exit"
    /\ mAlive' = FALSE
    /\ mThreadHandle' = FALSE
    /\ tpc' = "none"
    /\ UNCHANGED <<lists, mSuspendSemaphore, mProcessingEvents, mFBState, ppc, mpc, calls,
                   commands, history>>

ThreadStep ==
    \/ runThread \/ run \/ externalEventOccured \/ transferExternalEvents
    \/ becomeIdle \/ receiveInputEvent \/ selfSuspend \/ resumed \/ exitThread

-----------------------------------------------------------------------------
(* The management thread: CResource::changeExecutionState, which first      *)
(* moves the FB states and then hands the command to the event chain        *)
(* execution thread.                                                        *)

FirstStep(c) ==
    CASE c = "Start" -> "start"
      [] c = "Stop"  -> "stop"
      [] c = "Kill"  -> "clear"
      [] c = "Reset" -> "ready"

changeExecutionState(c) ==
    /\ mpc = "ready"
    /\ commands < MaxCommands
    /\ Legal(c, mFBState)
    /\ commands' = commands + 1
    /\ mFBState' = Target(c)
    /\ mpc' = FirstStep(c)
    /\ UNCHANGED <<lists, mSuspendSemaphore, mProcessingEvents, mAlive, mThreadHandle, tpc, ppc,
                   calls, history>>

\* mutant: start() trusts the alive flag its caller has looked at
startWithoutHandleCheck ==
    /\ mpc = "start"
    /\ mpc' = "ready"
    /\ IF ~mAlive
       THEN mThreadHandle' = TRUE /\ tpc' = "spawned"
       ELSE UNCHANGED <<mThreadHandle, tpc>>
    /\ UNCHANGED <<lists, mSuspendSemaphore, mProcessingEvents, mAlive, mFBState, ppc, calls,
                   commands, history>>

\* if (!isAlive()) start(), and start() creates a thread only when there is no handle.
start ==
    /\ mpc = "start"
    /\ mpc' = "ready"
    /\ IF ~mAlive /\ ~mThreadHandle
       THEN mThreadHandle' = TRUE /\ tpc' = "spawned"
       ELSE UNCHANGED <<mThreadHandle, tpc>>
    /\ UNCHANGED <<lists, mSuspendSemaphore, mProcessingEvents, mAlive, mFBState, ppc, calls,
                   commands, history>>

\* clear(): first the event list, without any protection, ...
clearEventList ==
    /\ mpc = "clear"
    /\ mEventList' = <<>>
    /\ gone' = gone \cup externals(elements(mEventList))
    /\ mpc' = "clearExternal"
    /\ UNCHANGED <<mExternalEventList, mSuspendSemaphore, mProcessingEvents, mAlive,
                   mThreadHandle, mFBState, tpc, ppc, calls, commands, accepted, delivered>>

\* ... then the external list in its critical region.
clearExternalEventList ==
    /\ mpc = "clearExternal"
    /\ mExternalEventList' = <<>>
    /\ gone' = gone \cup externals(elements(mExternalEventList))
    /\ mpc' = "stop"
    /\ UNCHANGED <<mEventList, mSuspendSemaphore, mProcessingEvents, mAlive, mThreadHandle,
                   mFBState, tpc, ppc, calls, commands, accepted, delivered>>

\* stop(): with a handle, setAlive(false), which calls onAliveChanged on a change.
stop ==
    /\ mpc = "stop"
    /\ IF mThreadHandle
       THEN mAlive' = FALSE /\ mpc' = IF mAlive THEN "onAliveChanged" ELSE "ready"
       ELSE UNCHANGED mAlive /\ mpc' = "ready"
    /\ UNCHANGED <<lists, mSuspendSemaphore, mProcessingEvents, mThreadHandle, mFBState, tpc,
                   ppc, calls, commands, history>>


\* onAliveChanged(false) wakes the thread so that it sees the flag.
onAliveChanged ==
    /\ mpc = "onAliveChanged"
    /\ mSuspendSemaphore' = TRUE
    /\ mpc' = "ready"
    /\ UNCHANGED <<lists, mProcessingEvents, mAlive, mThreadHandle, mFBState, tpc, ppc, calls,
                   commands, history>>

ManagerStep == start \/ clearEventList \/ clearExternalEventList \/ stop \/ onAliveChanged

-----------------------------------------------------------------------------
Next ==
    \/ \E p \in Producers : startEventChain(p) \/ ProducerStep(p)
    \/ ThreadStep
    \/ \E c \in Commands : changeExecutionState(c)
    \/ ManagerStep

\* The operating system runs every thread that can run: what has been begun is
\* carried on.  Nobody is obliged to begin a call or a command.
Fairness ==
    /\ WF_vars(ThreadStep)
    /\ WF_vars(ManagerStep)
    /\ \A p \in Producers : WF_vars(ProducerStep(p))

Spec == Init /\ [][Next]_vars
FairSpec == Spec /\ Fairness

-----------------------------------------------------------------------------
(* Properties *)

\* Types of the thread's state; neither list exceeds the capacity of its ring buffer,
\* whatever startEventChain, transferExternalEvents and the FBs put in.
TypeOK ==
    /\ mEventList \in Seq(Event) /\ Len(mEventList) <= ListCap
    /\ mExternalEventList \in Seq(Event) /\ Len(mExternalEventList) <= ExtCap
    /\ mSuspendSemaphore \in BOOLEAN
    /\ mProcessingEvents \in BOOLEAN
    /\ mAlive \in BOOLEAN
    /\ mThreadHandle \in BOOLEAN
    /\ mFBState \in States
    /\ tpc \in {"none", "spawned", "loop", "peek", "transfer", "pop", "suspend", "resumed",
                "exit"}
    /\ ppc \in [Producers -> {"idle", "inserted", "flagged"}]
    /\ mpc \in {"ready", "start", "stop", "clear", "clearExternal", "onAliveChanged"}
    /\ calls \in 0 .. MaxCalls
    /\ commands \in 0 .. MaxCommands

\* The wake-up is on its way: posted, or owed by a producer that has inserted its event.
WakeupPending ==
    mSuspendSemaphore \/ \E p \in Producers : ppc[p] \in {"inserted", "flagged"}

\* externalEventOccured reads the list without the mutex and may miss an event that is
\* just being inserted.  The thread still never sleeps on an event: whenever it is
\* suspended and an external event is waiting, its wake-up has been posted or the
\* producer that inserted an event has yet to post it; and it left no event of its own
\* list behind.
NoLostWakeup ==
    tpc = "suspend" =>
        /\ mEventList = <<>>
        /\ mExternalEventList # <<>> => WakeupPending

\* Every external event that startEventChain accepted is delivered once and in the order
\* of the calls, unless a full event list or a kill discarded it: the external events
\* among what has been delivered and, behind it, what is in the two lists are the accepted
\* ones without the discarded ones, and their numbers go up.
EveryEventOnceInOrder ==
    LET out == delivered \o mEventList \o mExternalEventList
        ext == {i \in 1 .. Len(out) : IsExternal(out[i])}
    IN  /\ {out[i] : i \in ext} = accepted \ gone
        /\ \A i, j \in ext : i < j => out[i].id < out[j].id

\* A thread is only created when the previous one has left run(): a Start that overtakes
\* the end of a stopped thread, whose alive flag is already down, must not put a second
\* thread on the unprotected event list.
OneThread ==
    [][tpc' = "spawned" /\ tpc # "spawned" => tpc = "none"]_vars

\* While its thread runs, an accepted event is delivered or discarded in the end, however
\* many events the FBs of the resource keep sending to each other.
AcceptedIsHandled ==
    \A p \in Producers, n \in 0 .. MaxCalls - 1 :
        LET event == [src |-> p, id |-> n]
        IN  (event \in accepted /\ tpc # "none")
                ~> (event \in elements(delivered) \cup gone \/ tpc = "none")


\* What changeExecutionState says of the thread, "only start the thread when we are not
\* already running": after a Start that was answered Ready the resource is executed, or
\* the next command is on its way.
RunningIsExecuted ==
    (mFBState = "Running" /\ mpc = "ready")
        ~> (mAlive \/ mFBState # "Running")
=============================================================================
