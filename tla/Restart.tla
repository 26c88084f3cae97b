------------------------------ MODULE Restart -------------------------------
(***************************************************************************)
(* FORTE_E_RESTART composed with the event chain execution thread of its   *)
(* resource.  E_RESTART is the block that tells an application that its    *)
(* resource was started (COLD, WARM) or is about to be stopped (STOP).  It *)
(* is driven from two sides: the management thread changes its state,      *)
(* leaves the event to send in mEventToSend and starts an event chain; the *)
(* executing thread picks the event up, and after STOP posts a semaphore   *)
(* on which the management thread waits before it goes on to stop the      *)
(* executing thread.  Nothing but this semaphore and the lists of Ecet     *)
(* orders the accesses of the two threads.                                 *)
(*                                                                         *)
(* The management thread is the producer Manager of Ecet.  Its position in *)
(* a command is rpc while it is inside E_RESTART, and Ecet's mpc when the  *)
(* command reaches the executing thread.  The executing thread is inside   *)
(* E_RESTART's receiveInputEvent while xpc is not "none".                  *)
(***************************************************************************)
EXTENDS Ecet

CONSTANTS
    Manager,        \* the management thread, as a caller of startEventChain
    OtherCalls      \* bound: calls after which the other producers are silent

ASSUME RestartAssumption ==
    /\ Manager \in Producers
    /\ OtherCalls \in Nat
    /\ OtherCalls + MaxCommands <= MaxCalls

VARIABLES
    rState,             \* mFBState of the E_RESTART
    mEventToSend,       \* "none" is cgInvalidEventID
    stopSemaphore,      \* mSuspendSemaphore of the E_RESTART
    rcmd, rpc,          \* command the management thread is carrying out, and where it is
    xpc,                \* where the executing thread is in receiveInputEvent of E_RESTART
    chain,              \* event entry of the latest chain E_RESTART has started
    stopsSent,          \* history: STOP events sent since the latest Stop began (at most 2)
    quiet               \* history: no chain of E_RESTART was under way when it began

restartVars == <<rState, mEventToSend, stopSemaphore, rcmd, rpc, xpc, chain, stopsSent, quiet>>
allVars == <<vars, restartVars>>

NoChain == [src |-> Internal, id |-> 0]

RestartInit ==
    /\ Init
    /\ rState = "Idle"
    /\ mEventToSend = "none"
    /\ stopSemaphore = FALSE
    /\ rcmd = "Reset"
    /\ rpc = "none"
    /\ xpc = "none"
    /\ chain = NoChain
    /\ stopsSent = 0
    /\ quiet = TRUE

\* Entries of E_RESTART that wait for the executing thread.
waiting == {e \in elements(mEventList) \cup elements(mExternalEventList) : e.src = Manager}

-----------------------------------------------------------------------------
(* The management thread: FORTE_E_RESTART::changeExecutionState *)

\* The command has moved the resource and arrives at the E_RESTART in it.
Command(c) ==
    /\ rpc = "none"
    /\ changeExecutionState(c)
    /\ rcmd' = c
    /\ rpc' = "base"
    /\ UNCHANGED <<rState, mEventToSend, stopSemaphore, xpc, chain, stopsSent, quiet>>

\* CFunctionBlock::changeExecutionState(paCommand).  When it refuses, the container asks
\* whether the state is equivalent; if not, the resource does not hand the command on to
\* its executing thread.
baseChange ==
    /\ rpc = "base"
    /\ \/ /\ Legal(rcmd, rState)
          /\ rState' = Target(rcmd)
          /\ rpc' = "event"
          /\ UNCHANGED mpc
       \/ /\ ~Legal(rcmd, rState)
          /\ rpc' = "none"
          /\ mpc' = IF \/ rcmd = "Stop" /\ rState = "Killed"
                       \/ rcmd = "Kill" /\ rState \in {"Stopped", "Idle"}
                    THEN mpc
                    ELSE "ready"
          /\ UNCHANGED rState
    /\ quiet' = IF rcmd = "Stop" THEN waiting = {} /\ xpc = "none" /\ ~stopSemaphore ELSE quiet
    /\ stopsSent' = IF rcmd = "Stop" THEN 0 ELSE stopsSent
    /\ UNCHANGED <<lists, mSuspendSemaphore, mProcessingEvents, mAlive, mThreadHandle, mFBState,
                   tpc, ppc, calls, commands, history>>
    /\ UNCHANGED <<mEventToSend, stopSemaphore, rcmd, xpc, chain>>

\* The event to send.  A STOP that was the last event makes the next start a warm one.
setEvent ==
    /\ rpc = "event"
    /\ mEventToSend' = CASE rcmd = "Start" -> IF mEventToSend = "STOP" THEN "WARM" ELSE "COLD"
                         [] rcmd = "Stop"  -> "STOP"
                         [] OTHER          -> "none"
    /\ rpc' = CASE rcmd = "Start" -> "chain"
                [] rcmd = "Stop"  -> "rerun"
                [] OTHER          -> "none"
    /\ UNCHANGED vars
    /\ UNCHANGED <<rState, stopSemaphore, rcmd, xpc, chain, stopsSent, quiet>>

\* mutant: the block stays stopped, and the entry is not executed
keepRunningNot ==
    /\ rpc = "rerun"
    /\ rpc' = "chain"
    /\ UNCHANGED vars
    /\ UNCHANGED <<rState, mEventToSend, stopSemaphore, rcmd, xpc, chain, stopsSent, quiet>>

\* "keep FB in running state until stop event is delivered"
keepRunning ==
    /\ rpc = "rerun"
    /\ rState' = IF Legal("Start", rState) THEN "Running" ELSE rState
    /\ rpc' = "chain"
    /\ UNCHANGED vars
    /\ UNCHANGED <<mEventToSend, stopSemaphore, rcmd, xpc, chain, stopsSent, quiet>>

\* startNewEventChain(this)
startNewEventChain ==
    /\ rpc = "chain"
    /\ startEventChain(Manager)
    /\ chain' = [src |-> Manager, id |-> calls]
    /\ rpc' = "chained"
    /\ UNCHANGED <<rState, mEventToSend, stopSemaphore, rcmd, xpc, stopsSent, quiet>>

\* Start returns when the event chain has been started.
startReturns ==
    /\ rpc = "chained" /\ rcmd = "Start" /\ ppc[Manager] = "idle"
    /\ rpc' = "none"
    /\ UNCHANGED vars
    /\ UNCHANGED <<rState, mEventToSend, stopSemaphore, rcmd, xpc, chain, stopsSent, quiet>>

Waits == rpc = "chained" /\ rcmd = "Stop" /\ ppc[Manager] = "idle"

\* mutant: Stop does not wait for the executing thread
waitForStopNot ==
    /\ Waits
    /\ stopSemaphore' = FALSE
    /\ rpc' = "none"
    /\ UNCHANGED vars
    /\ UNCHANGED <<rState, mEventToSend, rcmd, xpc, chain, stopsSent, quiet>>

\* mSuspendSemaphore.waitIndefinitely()
waitForStop ==
    /\ Waits
    /\ stopSemaphore
    /\ stopSemaphore' = FALSE
    /\ rpc' = "none"
    /\ UNCHANGED vars
    /\ UNCHANGED <<rState, mEventToSend, rcmd, xpc, chain, stopsSent, quiet>>

RestartStep ==
    \/ baseChange \/ setEvent \/ keepRunning \/ startNewEventChain \/ startReturns
    \/ waitForStop

-----------------------------------------------------------------------------
(* The executing thread: receiveInputEvent and FORTE_E_RESTART::executeEvent *)

\* An entry of E_RESTART is taken from the event list; only a running block executes it.
receiveRestartEvent ==
    /\ xpc = "none"
    /\ tpc = "pop" /\ mEventList # <<>> /\ Head(mEventList).src = Manager
    /\ mEventList' = Tail(mEventList)
    /\ delivered' = Append(delivered, Head(mEventList))
    /\ tpc' = "loop"
    /\ xpc' = IF rState = "Running" THEN "test" ELSE "none"
    /\ UNCHANGED <<mExternalEventList, mSuspendSemaphore, mProcessingEvents, mAlive,
                   mThreadHandle, mFBState, ppc, mpc, calls, commands, accepted, gone>>
    /\ UNCHANGED <<rState, mEventToSend, stopSemaphore, rcmd, rpc, chain, stopsSent, quiet>>

\* if (cgInvalidEventID != mEventToSend)
testEvent ==
    /\ xpc = "test"
    /\ xpc' = IF mEventToSend = "none" THEN "none" ELSE "send"
    /\ UNCHANGED vars
    /\ UNCHANGED <<rState, mEventToSend, stopSemaphore, rcmd, rpc, chain, stopsSent, quiet>>

\* sendOutputEvent(mEventToSend), to the connected blocks; an invalid id sends nothing.
sendEvent ==
    /\ xpc = "send"
    /\ \E n \in 0 .. FanOut :
          /\ mEventToSend = "none" => n = 0
          /\ mEventList' = addEventEntries(mEventList, [i \in 1 .. n |-> InternalEvent])
    /\ stopsSent' = IF mEventToSend = "STOP" /\ stopsSent < 2 THEN stopsSent + 1 ELSE stopsSent
    /\ xpc' = "sent"
    /\ UNCHANGED <<mExternalEventList, mSuspendSemaphore, mProcessingEvents, mAlive,
                   mThreadHandle, mFBState, tpc, ppc, mpc, calls, commands, history>>
    /\ UNCHANGED <<rState, mEventToSend, stopSemaphore, rcmd, rpc, chain, quiet>>

\* if (scmEventSTOPID == mEventToSend), a second read
testStop ==
    /\ xpc = "sent"
    /\ xpc' = IF mEventToSend = "STOP" THEN "stop" ELSE "none"
    /\ UNCHANGED vars
    /\ UNCHANGED <<rState, mEventToSend, stopSemaphore, rcmd, rpc, chain, stopsSent, quiet>>

\* "put the FB finally into the stopped state"
finallyStop ==
    /\ xpc = "stop"
    /\ rState' = IF Legal("Stop", rState) THEN "Stopped" ELSE rState
    /\ xpc' = "post"
    /\ UNCHANGED vars
    /\ UNCHANGED <<mEventToSend, stopSemaphore, rcmd, rpc, chain, stopsSent, quiet>>

\* mutant: the semaphore is forgotten
releaseSemaphoreNot ==
    /\ xpc = "post"
    /\ xpc' = "none"
    /\ UNCHANGED vars
    /\ UNCHANGED <<rState, mEventToSend, stopSemaphore, rcmd, rpc, chain, stopsSent, quiet>>

releaseSemaphore ==
    /\ xpc = "post"
    /\ stopSemaphore' = TRUE
    /\ xpc' = "none"
    /\ UNCHANGED vars
    /\ UNCHANGED <<rState, mEventToSend, rcmd, rpc, chain, stopsSent, quiet>>

ExecuteStep ==
    \/ receiveRestartEvent \/ testEvent \/ sendEvent \/ testStop \/ finallyStop
    \/ releaseSemaphore

-----------------------------------------------------------------------------
\* The executing thread elsewhere: not inside E_RESTART and not at an entry of it.
OtherThreadStep ==
    /\ xpc = "none"
    /\ ~(tpc = "pop" /\ mEventList # <<>> /\ Head(mEventList).src = Manager)
    /\ ThreadStep
    /\ UNCHANGED restartVars

\* The command goes on to the executing thread when the E_RESTART has returned.
OtherManagerStep == rpc = "none" /\ ManagerStep /\ UNCHANGED restartVars

OtherProducer(p) ==
    /\ p # Manager /\ calls < OtherCalls
    /\ startEventChain(p)
    /\ UNCHANGED restartVars

Wake(p) == ProducerStep(p) /\ UNCHANGED restartVars

RestartNext ==
    \/ \E c \in Commands : Command(c)
    \/ RestartStep
    \/ ExecuteStep
    \/ OtherThreadStep
    \/ OtherManagerStep
    \/ \E p \in Producers : OtherProducer(p) \/ Wake(p)

\* As in Ecet: what a thread has begun is carried on.
RestartFairness ==
    /\ WF_allVars(ExecuteStep \/ OtherThreadStep)
    /\ WF_allVars(RestartStep \/ OtherManagerStep)
    /\ \A p \in Producers : WF_allVars(Wake(p))

RestartSpec == RestartInit /\ [][RestartNext]_allVars /\ RestartFairness

-----------------------------------------------------------------------------
(* Properties *)

\* The entry of the latest chain was refused or dropped by a full list, or cleared by a
\* kill.
ChainLost == chain \notin accepted \/ chain \in gone

\* The waiting management thread is never forgotten: as long as the semaphore is not
\* posted, the executing thread is inside E_RESTART on the way to posting it, or an entry
\* of E_RESTART, which is Running with STOP as its event, is still in a list, unless a
\* full list has dropped it.
StopIsOwed ==
    Waits /\ ~stopSemaphore =>
        \/ ChainLost
        \/ xpc \in {"stop", "post"}
        \/ mEventToSend = "STOP" /\ xpc \in {"test", "send", "sent"}
        \/ mEventToSend = "STOP" /\ rState = "Running" /\ chain \in waiting

\* A Stop that begins when no earlier chain of E_RESTART is under way returns only when
\* STOP has been sent, once, and leaves the block Stopped: what "wait until semaphore is
\* released, after STOP eventExecution was completed" is for.
CleanStop ==
    [][ (rcmd = "Stop" /\ rpc = "chained" /\ rpc' = "none" /\ quiet)
        => stopsSent = 1 /\ rState = "Stopped" ]_allVars

\* With an executing thread that is alive the Stop of an E_RESTART returns, unless its
\* entry is lost in a full list.
StopReturns ==
    (Waits /\ mAlive) ~> (~Waits \/ ChainLost)

\* "release semaphore to indicate that the stop event was sent now": whenever Stop
\* returns, STOP has been sent since it began.
StopWasSent ==
    [][ (rcmd = "Stop" /\ rpc = "chained" /\ rpc' = "none") => stopsSent > 0 ]_allVars
=============================================================================
