------------------------------ MODULE TimedFBs ------------------------------
(***************************************************************************)
(* The timed function blocks E_DELAY, E_RDELAY and E_CYCLE on top of the   *)
(* timer handler.  The event chain execution thread runs them one event at *)
(* a time: START and STOP from the application, and the external event the *)
(* timer sends.  The management thread stops and starts them.              *)
(***************************************************************************)
EXTENDS TimerHandler

CONSTANTS
    Kind,           \* the type of each block
    DT,             \* the intervals at the DT input, in units of TIME
    NoFB,           \* the executing thread is not inside START of any block
    MaxEvents,      \* bound: START and STOP events
    MaxCommands     \* bound: management commands

ASSUME TimedAssumption ==
    /\ Kind \in [FB -> {"E_DELAY", "E_RDELAY", "E_CYCLE"}]
    /\ DT \subseteq Int
    /\ NoFB \notin FB
    /\ MaxEvents \in Nat /\ MaxCommands \in Nat

VARIABLES
    mActive,
    mFBState,       \* "Stopped" stands for every state in which events are ignored
    starting,       \* the block that is inside START, after its unregister
    stopping,       \* the block whose changeExecutionState has moved the state
    events,         \* START and STOP events so far
    commands,       \* management commands so far
    touched,        \* history: blocks that have been unregistered or stopped by management
    stopped         \* history: blocks for which STOP was the last event

fbVars == <<mActive, mFBState, starting, stopping, events, commands, touched, stopped>>
vars == <<timerVars, fbVars>>

OneShotFB(fb) == Kind[fb] \in {"E_DELAY", "E_RDELAY"}

Init ==
    /\ TimerInit
    /\ mActive = [fb \in FB |-> FALSE]
    /\ mFBState = [fb \in FB |-> "Running"]
    /\ starting = NoFB
    /\ stopping = NoFB
    /\ events = 0
    /\ commands = 0
    /\ touched = {}
    /\ stopped = {}

\* The executing thread is not inside an event.
Ready == starting = NoFB /\ call = NoEntry

-----------------------------------------------------------------------------
(* Events, as the executing thread delivers them.  receiveInputEvent drops   *)
(* the event of a block that is not running.                                 *)

\* executeEvent, START: E_RDELAY first takes back the delay that is running.
START(fb) ==
    /\ Ready
    /\ events < MaxEvents
    /\ mFBState[fb] = "Running"
    /\ \/ Kind[fb] = "E_RDELAY"
       \/ ~mActive[fb]
    /\ IF mActive[fb]
       THEN unregisterTimedFB(fb) /\ touched' = touched \cup {fb}
       ELSE UNCHANGED <<mRemoveFBList, touched>>
    /\ starting' = fb
    /\ events' = events + 1
    /\ UNCHANGED <<mForteTime, mTimedFBList, mAddFBList, waitingSince, triggered, kpc, call,
                   chains, overrun, mActive, mFBState, stopping, commands, stopped>>

\* ... then registers, with the interval at its DT input.
STARTregister ==
    /\ starting # NoFB
    /\ \E t \in DT : registerTimedFB(starting, t, Kind[starting] = "E_CYCLE")
    /\ UNCHANGED <<mRemoveFBList, fbVars>>

\* ... and is active.
STARTactive ==
    /\ starting # NoFB
    /\ addToAddFBList
    /\ mActive' = [mActive EXCEPT ![starting] = TRUE]
    /\ stopped' = stopped \ {starting}
    /\ starting' = NoFB
    /\ UNCHANGED <<mFBState, stopping, events, commands, touched>>

\* CTimedFB::executeEvent, STOP
STOP(fb) ==
    /\ Ready
    /\ events < MaxEvents
    /\ mFBState[fb] = "Running"
    /\ mActive[fb]
    /\ unregisterTimedFB(fb)
    /\ touched' = touched \cup {fb}
    /\ mActive' = [mActive EXCEPT ![fb] = FALSE]
    /\ stopped' = stopped \cup {fb}
    /\ events' = events + 1
    /\ UNCHANGED <<mForteTime, mTimedFBList, mAddFBList, waitingSince, triggered, kpc, call,
                   chains, overrun, mFBState, starting, stopping, commands>>

\* mutant: the delay stays active when it has fired
externalEventStaysActive ==
    /\ Ready
    /\ chains # <<>>
    /\ chains' = Tail(chains)
    /\ UNCHANGED <<mForteTime, mTimedFBList, mAddFBList, waitingSince, mRemoveFBList, triggered, kpc, call,
                   overrun, fbVars>>

\* cgExternalEventID: EO is sent, and a one-shot block is no longer active.
externalEvent ==
    /\ Ready
    /\ chains # <<>>
    /\ chains' = Tail(chains)
    /\ LET fb == Head(chains)
       IN  IF mFBState[fb] = "Running" /\ OneShotFB(fb)
           THEN mActive' = [mActive EXCEPT ![fb] = FALSE]
           ELSE UNCHANGED mActive
    /\ UNCHANGED <<mForteTime, mTimedFBList, mAddFBList, waitingSince, mRemoveFBList, triggered, kpc, call,
                   overrun, mFBState, starting, stopping, events, commands, touched, stopped>>

-----------------------------------------------------------------------------
(* The management thread: CTimedFB::changeExecutionState *)

\* CFunctionBlock::changeExecutionState moves the state first ...
stopFB(fb) ==
    /\ stopping = NoFB
    /\ commands < MaxCommands
    /\ mFBState[fb] = "Running"
    /\ mFBState' = [mFBState EXCEPT ![fb] = "Stopped"]
    /\ stopping' = fb
    /\ touched' = touched \cup {fb}
    /\ commands' = commands + 1
    /\ UNCHANGED <<timerVars, mActive, starting, events, stopped>>

\* ... then an active block is unregistered.
stopTimedFB ==
    /\ stopping # NoFB
    /\ IF mActive[stopping]
       THEN /\ unregisterTimedFB(stopping)
            /\ mActive' = [mActive EXCEPT ![stopping] = FALSE]
       ELSE UNCHANGED <<mRemoveFBList, mActive>>
    /\ stopping' = NoFB
    /\ UNCHANGED <<mForteTime, mTimedFBList, mAddFBList, waitingSince, triggered, kpc, call,
                   chains, overrun, mFBState, starting, events, commands, touched, stopped>>

startFB(fb) ==
    /\ stopping = NoFB
    /\ commands < MaxCommands
    /\ mFBState[fb] = "Stopped"
    /\ mFBState' = [mFBState EXCEPT ![fb] = "Running"]
    /\ commands' = commands + 1
    /\ UNCHANGED <<timerVars, mActive, starting, stopping, events, touched, stopped>>

-----------------------------------------------------------------------------
Next ==
    \/ TimerStep /\ UNCHANGED fbVars
    \/ STARTregister \/ STARTactive \/ externalEvent \/ stopTimedFB
    \/ \E fb \in FB : START(fb) \/ STOP(fb) \/ stopFB(fb) \/ startFB(fb)

Spec == Init /\ [][Next]_vars

-----------------------------------------------------------------------------
(* Properties *)

\* Types of the timer handler and of the blocks' flags and states.
TypeOK ==
    /\ TimerTypeOK
    /\ mActive \in [FB -> BOOLEAN]
    /\ mFBState \in [FB -> {"Running", "Stopped"}]
    /\ starting \in FB \cup {NoFB}
    /\ stopping \in FB \cup {NoFB}
    /\ events \in 0 .. MaxEvents
    /\ commands \in 0 .. MaxCommands
    /\ touched \subseteq FB
    /\ stopped \subseteq FB

Count(list, fb) == Cardinality({i \in 1 .. Len(list) : list[i].mTimedFB = fb})
Registered(fb) == Count(mAddFBList, fb) + Count(mTimedFBList, fb) + Count(triggered, fb)
Chains(fb) == Cardinality({i \in 1 .. Len(chains) : chains[i] = fb})

\* The events the timer still owes to a block.
Owed(fb) == Registered(fb) + IF OneShotFB(fb) THEN Chains(fb) ELSE 0

\* As long as nobody takes it back, each START that a block accepts is registered exactly
\* once: behind an active delay stands one registration or started event chain, behind an
\* active cycle one registration, and none behind a block that is not active, on the way
\* from the request list over the sorted list to the executing thread.  The exception is a
\* delay whose event chain the executing thread had no room for.
OneEventPerStart ==
    \A fb \in FB :
        /\ fb \notin touched
        /\ OneShotFB(fb) => fb \notin overrun
        /\ starting # fb
        => Owed(fb) = IF mActive[fb] THEN 1 ELSE 0

\* What the test case "Aborted Delay" of E_DELAY expects: after STOP, once the timer has
\* worked off its lists, no event is on its way to the block.
StoppedStaysSilent ==
    \A fb \in stopped :
        starting # fb /\ kpc = "sleep" /\ mAddFBList = <<>> /\ mRemoveFBList = <<>>
        => Count(mTimedFBList, fb) = 0

\* What E_RDELAY expects of START while a delay is running: "remove from the list as we
\* want to be added with a new delay".  An active block has its event coming.
ActiveIsArmed ==
    \A fb \in FB :
        mActive[fb] /\ mFBState[fb] = "Running" /\ fb \notin overrun /\ starting # fb
        => Owed(fb) > 0
=============================================================================
