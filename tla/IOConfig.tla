------------------------------ MODULE IOConfig ------------------------------
(***************************************************************************)
(* The configuration block of an I/O device and the life of its            *)
(* controller: IOConfigFBController, IODeviceController, and the chain of  *)
(* slaves behind an IOConfigFBMultiMaster (IOConfigFBMultiSlave).          *)
(*                                                                         *)
(* INIT makes the block create a controller, which starts a thread of its  *)
(* own, initializes the hardware and notifies the block through an         *)
(* external event.  After an error the block ends and deletes the          *)
(* controller and tries again with a new one, until smMaxErrors errors     *)
(* have come in a row.  A notification is three unprotected fields of the  *)
(* controller and an event that only says that there is one: the block     *)
(* reads the fields of the controller it has when it executes the event.   *)
(*                                                                         *)
(* Slaves are started and stopped by an event that runs down the chain of  *)
(* adapters and back.  The data of an adapter is not part of the event: a  *)
(* sender writes it into its peer at once.                                 *)
(*                                                                         *)
(* Controllers are numbered in the order of their creation, 0 is the null  *)
(* pointer.  The use of a null pointer is undefined behaviour: the model   *)
(* names it (crashed) and follows the program no further.  A thread whose  *)
(* controller is being deleted may come to the same end or may go on.      *)
(*                                                                         *)
(* The event lists are those of the resource (see Ecet): the other blocks  *)
(* fill them too, so any event may find its list full and be dropped.      *)
(***************************************************************************)
EXTENDS Integers, Sequences

CONSTANTS
    SlaveCounts,    \* the lengths of the chain to look at
    MaxErrors,      \* smMaxErrors
    MaxInits,       \* bound: INIT events of the application
    MaxFaults,      \* bound: failures of the hardware and of slaves
    MaxControllers, \* bound: controllers created, each by an INIT event or after a failure
    MaxRefused      \* bound: events dropped because an event list is full

ASSUME IOConfigAssumption ==
    /\ SlaveCounts \subseteq Nat
    /\ MaxErrors \in Nat \ {0}
    /\ {MaxInits, MaxFaults, MaxControllers, MaxRefused} \subseteq Nat

Controllers == 1 .. MaxControllers

VARIABLES
    slaves,                 \* number of slaves
    mController, mStarting, mErrorCounter, mPerformRestart,
    controller,             \* the controllers: their fields and threads
    eventList,              \* what the executing thread has to deliver to block and slaves
    qi, qo,                 \* var_QI and var_QO of the adapters
    slave,                  \* QO and mInitialized of the slaves
    x,                      \* the executing thread inside the block
    n,                      \* counters for the bounds
    asked,                  \* history: the application waits for an INITO
    tries,                  \* history: controllers created since it was told something
    refused,                \* history: events dropped because an event list was full
    dropped,                \* history: a notification was dropped
    mixedUp,                \* history: an event of one controller was booked on another
    overlap,                \* history: a chain event was sent before the last one was back
    crashed

block == <<mController, mStarting, mErrorCounter, mPerformRestart>>
list == <<eventList, refused>>
adapters == <<qi, qo, slave>>
history == <<asked, tries, dropped, mixedUp, overlap>>
vars == <<slaves, block, controller, list, adapters, x, n, history, crashed>>

Unborn == [pc |-> "none", mAlive |-> FALSE, mDelegate |-> FALSE, mNotificationType |-> "Unknown",
           mNotificationHandled |-> TRUE, mError |-> FALSE, notify |-> "Unknown",
           destroyed |-> FALSE]

Idle == [pc |-> "idle", then |-> "idle", from |-> 0, handled |-> FALSE]

Init ==
    /\ slaves \in SlaveCounts
    /\ mController = 0 /\ mStarting = FALSE /\ mErrorCounter = 0 /\ mPerformRestart = FALSE
    /\ controller = [g \in Controllers |-> Unborn]
    /\ eventList = <<>> /\ refused = 0
    /\ qi = [i \in 1 .. slaves |-> FALSE] /\ qo = [i \in 1 .. slaves |-> FALSE]
    /\ slave = [i \in 1 .. slaves |-> [QO |-> FALSE, mInitialized |-> FALSE]]
    /\ x = Idle
    /\ n = [controllers |-> 0, inits |-> 0, faults |-> 0]
    /\ asked = FALSE /\ tries = 0
    /\ dropped = FALSE /\ mixedUp = FALSE /\ overlap = FALSE
    /\ crashed = "no"

Fault == n.faults < MaxFaults /\ n' = [n EXCEPT !.faults = @ + 1]

\* startEventChain and addEventEntry: the event is appended to what is left, or dropped.
addEvent(events, event) ==
    \/ /\ eventList' = Append(events, event)
       /\ UNCHANGED refused
    \/ /\ refused < MaxRefused
       /\ eventList' = events
       /\ refused' = refused + 1

noEvent(events) == eventList' = events /\ UNCHANGED refused

\* The block cannot be followed any further.
Crash(why) ==
    /\ crashed' = why
    /\ UNCHANGED <<slaves, block, controller, list, adapters, x, n, history>>

-----------------------------------------------------------------------------
(* The thread of a controller: IODeviceController::run *)

Thread(g, pc) == controller' = [controller EXCEPT ![g].pc = pc]

\* runThread raises the flag itself, and calls run of the controller.
setAlive(g) ==
    /\ controller[g].pc = "created" /\ ~controller[g].destroyed
    /\ controller' = [controller EXCEPT ![g].pc = "init", ![g].mAlive = TRUE]
    /\ UNCHANGED <<list, n, history>>

init(g) ==
    /\ controller[g].pc = "init"
    /\ \/ /\ controller' = [controller EXCEPT ![g].pc = "notify", ![g].notify = "Success"]
          /\ UNCHANGED n
       \/ /\ Fault
          /\ controller' = [controller EXCEPT ![g].pc = "notify", ![g].notify = "Error",
                                              ![g].mError = TRUE]
    /\ UNCHANGED <<list, history>>

\* After the notification: the loop, or after an error the end.
AfterNotify(g) == IF controller[g].notify = "Success" THEN "loop" ELSE "wait"

\* notifyConfigFB: without a receiver, or while the last notification has not been handled,
\* it is dropped, ...
notifyConfigFB(g) ==
    /\ controller[g].pc = "notify"
    /\ LET accepted == controller[g].mDelegate /\ controller[g].mNotificationHandled
       IN  /\ Thread(g, IF accepted THEN "publish" ELSE AfterNotify(g))
           /\ dropped' = (dropped \/ (controller[g].mDelegate /\ ~accepted))
    /\ UNCHANGED <<list, n, asked, tries, mixedUp, overlap>>

\* mutant: the fields are written, no event is sent
publishSilently(g) ==
    /\ controller[g].pc = "publish"
    /\ controller' = [controller EXCEPT ![g].pc = AfterNotify(g),
                                        ![g].mNotificationType = controller[g].notify,
                                        ![g].mNotificationHandled = FALSE]
    /\ UNCHANGED <<list, n, history>>

\* ... else written and announced, if there still is a receiver.  When the event is dropped
\* mNotificationHandled stays false.
publish(g) ==
    /\ controller[g].pc = "publish"
    /\ controller' = [controller EXCEPT ![g].pc = AfterNotify(g),
                                        ![g].mNotificationType = controller[g].notify,
                                        ![g].mNotificationHandled = FALSE]
    /\ IF controller[g].mDelegate
       THEN addEvent(eventList, [ev |-> "external", node |-> g])
       ELSE UNCHANGED list
    /\ UNCHANGED <<n, history>>

\* runLoop returns when the controller is no longer alive or has met an error.
runLoop(g) ==
    /\ controller[g].pc = "loop"
    /\ ~controller[g].mAlive
    /\ Thread(g, "wait")
    /\ UNCHANGED <<list, n, history>>

\* mutant: the error of the loop is not reported
runLoopErrorSilent(g) ==
    /\ controller[g].pc = "loop"
    /\ Fault
    /\ controller' = [controller EXCEPT ![g].pc = "wait", ![g].mError = TRUE]
    /\ UNCHANGED <<list, history>>

runLoopError(g) ==
    /\ controller[g].pc = "loop"
    /\ Fault
    /\ controller' = [controller EXCEPT ![g].pc = "notify", ![g].notify = "Error",
                                        ![g].mError = TRUE]
    /\ UNCHANGED <<list, history>>

\* The handles are dropped (see IOMapper); the thread stays until it is told to end.
waitForEnd(g) ==
    /\ controller[g].pc = "wait"
    /\ ~controller[g].mAlive
    /\ Thread(g, "ended")
    /\ UNCHANGED <<list, n, history>>

\* The controller is being deleted under its thread.
threadOfDestroyed(g) ==
    /\ controller[g].destroyed
    /\ controller[g].pc # "ended"
    /\ Crash("running thread")

run(g) ==
    /\ \/ setAlive(g) \/ init(g) \/ notifyConfigFB(g) \/ publish(g) \/ runLoop(g)
       \/ waitForEnd(g)
    /\ UNCHANGED <<slaves, block, adapters, x, crashed>>

ThreadStep(g) == run(g) \/ threadOfDestroyed(g)

HardwareStep(g) == runLoopError(g) /\ UNCHANGED <<slaves, block, adapters, x, crashed>>

-----------------------------------------------------------------------------
(* The block: what its methods do.  "events" is what the executing thread  *)
(* has left after this event, "next" the position after the method.        *)

\* The successful part of init.
createDeviceController ==
    LET g == n.controllers + 1
    IN  /\ g \in Controllers
        /\ mController' = g
        /\ controller' = [controller EXCEPT ![g] = [Unborn EXCEPT !.pc = "created",
                                                                  !.mDelegate = TRUE]]
        /\ n' = [n EXCEPT !.controllers = g,
                          !.inits = IF x.pc = "idle" THEN @ + 1 ELSE @]
        /\ mStarting' = TRUE

\* A chain event: the master writes QI into the first adapter and sends INIT.
sendToSlaves(q, events) ==
    /\ qi' = [qi EXCEPT ![1] = q]
    /\ addEvent(events, [ev |-> "INIT", node |-> 1])
    /\ overlap' = (overlap \/ \E k \in 1 .. Len(events) : events[k].ev # "external")
    /\ UNCHANGED <<qo, slave>>

\* stopped: the first step, up to the decision whether the thread has to be ended.
stopped(events, next) ==
    /\ controller' = [controller EXCEPT ![mController].mDelegate = FALSE]
    /\ x' = [next EXCEPT !.pc = IF controller[mController].mAlive THEN "end" ELSE "delete",
                         !.then = next.pc]
    /\ noEvent(events)
    /\ UNCHANGED <<adapters, overlap>>

\* deInit and onStop, of the controller and of the master.
deInit(events, next) ==
    \/ /\ mController = 0
       /\ noEvent(events) /\ x' = next
       /\ UNCHANGED <<controller, adapters, overlap>>
    \/ /\ mController # 0 /\ slaves = 0
       /\ stopped(events, next)
    \/ /\ mController # 0 /\ slaves > 0
       /\ sendToSlaves(FALSE, events)
       /\ x' = next
       /\ UNCHANGED controller

\* sendOutputEvent(scmEventINITOID)
answerINITO == asked' = FALSE /\ tries' = 0

\* mutant: errors are not counted
onErrorUncounted(fatal, events, next) ==
    /\ mPerformRestart' = (mErrorCounter < MaxErrors)
    /\ deInit(events, next)
    /\ UNCHANGED <<mErrorCounter, mStarting, asked, tries>>

onError(fatal, events, next) ==
    LET errors == mErrorCounter + 1
    IN  /\ mPerformRestart' = (errors < MaxErrors)
        /\ \/ /\ errors < MaxErrors
              /\ mErrorCounter' = errors
              /\ deInit(events, next)
              /\ UNCHANGED <<mStarting, asked, tries>>
           \/ /\ errors >= MaxErrors
              /\ mStarting' = FALSE
              /\ answerINITO
              /\ \/ fatal /\ mErrorCounter' = errors /\ deInit(events, next)
                 \/ /\ ~fatal /\ mErrorCounter' = 0
                    /\ noEvent(events) /\ x' = next
                    /\ UNCHANGED <<controller, adapters, overlap>>

\* started without an error
started(events, next) ==
    /\ mErrorCounter' = 0
    /\ mStarting' = FALSE
    /\ answerINITO
    /\ noEvent(events) /\ x' = next
    /\ UNCHANGED <<mPerformRestart, controller, adapters, overlap>>

\* onStartup, of the controller and of the master.
onStartup(events, next) ==
    \/ slaves = 0 /\ started(events, next)
    \/ /\ slaves > 0
       /\ sendToSlaves(TRUE, events)
       /\ x' = next
       /\ UNCHANGED <<mErrorCounter, mStarting, mPerformRestart, controller, asked, tries>>

-----------------------------------------------------------------------------
(* The events of the block *)

\* INIT with QI.  An initialized block refuses: its INITO with QO false answers this INIT, and
\* the one before is still waited for.
INIT ==
    /\ x.pc = "idle" /\ n.inits < MaxInits
    /\ \/ /\ mController = 0
          /\ createDeviceController
          /\ asked' = TRUE /\ tries' = 1
       \/ /\ mController # 0
          /\ n' = [n EXCEPT !.inits = @ + 1]
          /\ UNCHANGED <<mController, mStarting, controller, asked, tries>>
    /\ UNCHANGED <<slaves, mErrorCounter, mPerformRestart, list, adapters, x, dropped, mixedUp,
                   overlap, crashed>>

\* INIT without QI
deINIT ==
    /\ x.pc = "idle" /\ n.inits < MaxInits
    /\ n' = [n EXCEPT !.inits = @ + 1]
    /\ answerINITO
    /\ deInit(eventList, Idle)
    /\ UNCHANGED <<slaves, block, dropped, mixedUp, crashed>>

Received(what, node) ==
    /\ x.pc = "idle"
    /\ eventList # <<>>
    /\ Head(eventList).ev = what
    /\ node = Head(eventList).node

\* An external event: the block handles the notification of the controller it has, ...
externalEvent ==
    \E sender \in Controllers :
        /\ Received("external", sender)
        /\ mController # 0
        /\ LET type == controller[mController].mNotificationType
               next(handled) == [pc |-> "handled", then |-> "idle", from |-> sender,
                                 handled |-> handled]
           IN  \/ type = "Error" /\ onError(TRUE, Tail(eventList), next(TRUE))
               \/ type = "Success" /\ mStarting /\ onStartup(Tail(eventList), next(TRUE))
               \/ /\ type = "Unknown" \/ (type = "Success" /\ ~mStarting)
                  /\ x' = next(FALSE)
                  /\ noEvent(Tail(eventList))
                  /\ UNCHANGED <<mStarting, mErrorCounter, mPerformRestart, controller, adapters,
                                 asked, tries, overlap>>
        /\ UNCHANGED <<slaves, mController, n, dropped, mixedUp, crashed>>

\* ... and then tells the controller it has by now whether it was handled.
setHandled ==
    /\ x.pc = "handled"
    /\ mController # 0
    /\ controller' = [controller EXCEPT ![mController].mNotificationHandled = x.handled]
    /\ mixedUp' = \/ mixedUp
                  \/ /\ x.from # mController
                     /\ controller[mController].mNotificationHandled # x.handled
    /\ x' = Idle
    /\ UNCHANGED <<slaves, block, list, adapters, n, asked, tries, dropped, overlap, crashed>>

\* mController->mNotificationHandled or mNotificationType of a null pointer
handledByNobody ==
    /\ mController = 0
    /\ x.pc = "handled" \/ \E sender \in Controllers : Received("external", sender)
    /\ Crash("null controller")

\* INITO of the first slave's adapter
INITO ==
    /\ Received("INITO", 0)
    /\ \/ /\ qi[1] /\ qo[1]
          /\ started(Tail(eventList), Idle)
       \/ /\ qi[1] /\ ~qo[1]
          /\ onError(FALSE, Tail(eventList), Idle)
       \/ /\ ~qi[1] /\ mController # 0
          /\ stopped(Tail(eventList), Idle)
          /\ UNCHANGED <<mStarting, mErrorCounter, mPerformRestart, asked, tries>>
    /\ UNCHANGED <<slaves, mController, n, dropped, mixedUp, crashed>>

\* stopped, mController->mDelegate of a null pointer
stoppedTwice ==
    /\ Received("INITO", 0)
    /\ ~qi[1] /\ mController = 0
    /\ Crash("null controller")

-----------------------------------------------------------------------------
(* stopped, continued: the thread is ended, the controller deleted, and    *)
(* after an error the next one created.                                    *)

end ==
    /\ x.pc = "end"
    /\ controller' = [controller EXCEPT ![mController].mAlive = FALSE]
    /\ x' = [x EXCEPT !.pc = "join"]
    /\ UNCHANGED <<slaves, block, list, adapters, n, history, crashed>>

join ==
    /\ x.pc = "join"
    /\ controller[mController].pc = "ended"
    /\ x' = [x EXCEPT !.pc = "delete"]
    /\ UNCHANGED <<slaves, block, controller, list, adapters, n, history, crashed>>

\* mutant: the destructor does not wait for the thread
destroyDetached ==
    /\ x.pc = "delete"
    /\ controller' = [controller EXCEPT ![mController].destroyed = TRUE,
                                        ![mController].mAlive = FALSE]
    /\ mController' = 0
    /\ mStarting' = FALSE /\ mPerformRestart' = FALSE
    /\ x' = [x EXCEPT !.pc = x.then, !.then = "idle"]
    /\ UNCHANGED <<slaves, mErrorCounter, list, adapters, n, history, crashed>>

\* delete mController: when the parts of the controller are gone, the destructor of the thread
\* ends it and joins it.  A thread that had not yet raised its flag has not ended by then.
destroy ==
    /\ x.pc = "delete"
    /\ controller' = [controller EXCEPT ![mController].destroyed = TRUE,
                                        ![mController].mAlive = FALSE]
    /\ x' = [x EXCEPT !.pc = "destroyed"]
    /\ UNCHANGED <<slaves, block, list, adapters, n, history, crashed>>

deleteController ==
    /\ x.pc = "destroyed"
    /\ controller[mController].pc = "ended"
    /\ \/ /\ mPerformRestart
          /\ createDeviceController
          /\ tries' = tries + 1
       \/ /\ ~mPerformRestart
          /\ mController' = 0
          /\ mStarting' = FALSE
          /\ UNCHANGED <<controller, n, tries>>
    /\ mPerformRestart' = FALSE
    /\ x' = [x EXCEPT !.pc = x.then, !.then = "idle"]
    /\ UNCHANGED <<slaves, mErrorCounter, list, adapters, asked, dropped, mixedUp, overlap,
                   crashed>>

-----------------------------------------------------------------------------
(* The slaves: IOConfigFBMultiSlave::executeEvent *)

\* mutant: the last slave looks for another one
passOnPastEnd(i, q, ok) ==
    /\ addEvent(Tail(eventList), IF i <= slaves THEN [ev |-> "INIT", node |-> i + 1]
                                 ELSE [ev |-> "INITO", node |-> i - 1])
    /\ qi' = IF i <= slaves THEN [qi EXCEPT ![i + 1] = q] ELSE qi
    /\ qo' = IF i <= slaves THEN qo ELSE [qo EXCEPT ![i] = ok]
    /\ UNCHANGED <<slaves, block, controller, x, history, crashed>>

\* On to the next slave, or, at the end of the chain, back with a confirmation.
passOn(i, q, ok) ==
    /\ addEvent(Tail(eventList), IF i < slaves THEN [ev |-> "INIT", node |-> i + 1]
                                 ELSE [ev |-> "INITO", node |-> i - 1])
    /\ qi' = IF i < slaves THEN [qi EXCEPT ![i + 1] = q] ELSE qi
    /\ qo' = IF i < slaves THEN qo ELSE [qo EXCEPT ![i] = ok]
    /\ UNCHANGED <<slaves, block, controller, x, history, crashed>>

\* INIT with QI: handleInitEvent may find no slave, or one of the wrong type.
slaveINIT(i) ==
    /\ Received("INIT", i)
    /\ qi[i] /\ mController # 0
    /\ \E ok \in BOOLEAN :
          /\ IF ok THEN UNCHANGED n ELSE Fault
          /\ slave' = [slave EXCEPT ![i] = [QO |-> ok, mInitialized |-> ok]]
          /\ passOn(i, TRUE, ok)

\* INIT without QI: mInitialized stays.
slaveDeINIT(i) ==
    /\ Received("INIT", i)
    /\ ~qi[i]
    /\ slave' = [slave EXCEPT ![i].QO = FALSE]
    /\ passOn(i, FALSE, FALSE)
    /\ UNCHANGED n

\* mutant: a slave forgets its own result
slaveINITOForgetful(i) ==
    /\ Received("INITO", i)
    /\ qo' = [qo EXCEPT ![i] = qo[i + 1]]
    /\ addEvent(Tail(eventList), [ev |-> "INITO", node |-> i - 1])
    /\ UNCHANGED <<slaves, block, controller, qi, slave, x, n, history, crashed>>

slaveINITO(i) ==
    /\ Received("INITO", i)
    /\ qo' = [qo EXCEPT ![i] = qo[i + 1] /\ slave[i].QO]
    /\ addEvent(Tail(eventList), [ev |-> "INITO", node |-> i - 1])
    /\ UNCHANGED <<slaves, block, controller, qi, slave, x, n, history, crashed>>

\* MAP: the handles of an initialized slave are dropped and made again.
slaveMAP(i) ==
    /\ x.pc = "idle"
    /\ slave[i].mInitialized => mController # 0
    /\ slave' = [slave EXCEPT ![i].QO = slave[i].mInitialized]
    /\ UNCHANGED <<slaves, block, controller, list, qi, qo, x, n, history, crashed>>

\* getController of a master without one
slaveWithoutController(i) ==
    /\ mController = 0
    /\ \/ Received("INIT", i) /\ qi[i]
       \/ x.pc = "idle" /\ slave[i].mInitialized
    /\ Crash("null controller")

-----------------------------------------------------------------------------
SlaveStep(i) == slaveINIT(i) \/ slaveDeINIT(i) \/ slaveINITO(i)

ExecutionStep ==
    \/ externalEvent \/ setHandled \/ handledByNobody
    \/ INITO \/ stoppedTwice
    \/ end \/ join \/ destroy \/ deleteController
    \/ \E i \in 1 .. slaves : SlaveStep(i)

ApplicationStep ==
    \/ INIT \/ deINIT
    \/ \E i \in 1 .. slaves : slaveMAP(i) \/ slaveWithoutController(i)

Next ==
    /\ crashed = "no"
    /\ \/ \E g \in Controllers : ThreadStep(g) \/ HardwareStep(g)
       \/ ExecutionStep
       \/ ApplicationStep

\* The executing thread and the threads of the controllers go on; hardware and
\* application may do nothing more at any time.
Fairness ==
    /\ WF_vars(crashed = "no" /\ ExecutionStep)
    /\ \A g \in Controllers : WF_vars(crashed = "no" /\ ThreadStep(g))

Spec == Init /\ [][Next]_vars /\ Fairness

-----------------------------------------------------------------------------
(* Properties *)

Notification == {"Unknown", "Success", "Error"}
ControllerState ==
    [pc : {"none", "created", "init", "notify", "publish", "loop", "wait", "ended"},
     mAlive : BOOLEAN, mDelegate : BOOLEAN, mNotificationType : Notification,
     mNotificationHandled : BOOLEAN, mError : BOOLEAN, notify : Notification,
     destroyed : BOOLEAN]
Event == [ev : {"external", "INIT", "INITO"}, node : Nat]
Position ==
    [pc : {"idle", "handled", "end", "join", "delete", "destroyed"}, then : {"idle", "handled"},
     from : Nat, handled : BOOLEAN]

\* Types; an event of the chain is addressed to a block of the chain.
TypeOK ==
    /\ slaves \in SlaveCounts
    /\ mController \in Controllers \cup {0}
    /\ mErrorCounter \in Nat /\ tries \in Nat /\ refused \in Nat
    /\ mStarting \in BOOLEAN /\ mPerformRestart \in BOOLEAN
    /\ asked \in BOOLEAN /\ dropped \in BOOLEAN /\ mixedUp \in BOOLEAN /\ overlap \in BOOLEAN
    /\ controller \in [Controllers -> ControllerState]
    /\ eventList \in Seq(Event)
    /\ \A k \in 1 .. Len(eventList) :
          /\ eventList[k].ev = "INIT" => eventList[k].node \in 1 .. slaves
          /\ eventList[k].ev = "INITO" => eventList[k].node \in 0 .. slaves - 1
    /\ qi \in [1 .. slaves -> BOOLEAN] /\ qo \in [1 .. slaves -> BOOLEAN]
    /\ slave \in [1 .. slaves -> [QO : BOOLEAN, mInitialized : BOOLEAN]]
    /\ x \in Position
    /\ n \in [controllers : Nat, inits : Nat, faults : Nat]
    /\ crashed \in {"no", "null controller", "running thread"}

\* The hardware has one owner: whatever INIT events and errors come, and even if a controller is
\* deleted before its thread has raised its flag, a thread that has not ended belongs to the
\* controller of the block.  The block gets rid of the pointer, and gets a new one, only after
\* the old thread.
OneController ==
    \A g \in Controllers : controller[g].pc \notin {"none", "ended"} => g = mController

\* "It sets the amount of retries after an error": the application hears of an INIT after
\* at most smMaxErrors controllers.
RetriesAreBounded == tries <= MaxErrors

\* An INIT is answered by an INITO, over all the retries, unless an event was booked on the
\* wrong controller, two chain events have met, or an event was dropped by a full event list.
InitIsAnswered ==
    asked ~> (~asked \/ mixedUp \/ overlap \/ refused > 0 \/ crashed # "no")

HasError == mController # 0 /\ controller[mController].mError

\* A controller that has met an error is replaced or removed, unless its notification was
\* dropped because the last one had not been handled (dropped), or as above.
ErrorIsHandled ==
    HasError ~> (~HasError \/ dropped \/ mixedUp \/ overlap \/ refused > 0 \/ crashed # "no")

\* A chain confirms its start only when every slave in it was found and initialized, also when
\* events of the chain were dropped.  The exception (overlap): a second event was sent down the
\* chain before the first had come back, so that the answer to one may be read as the answer
\* to the other.
ConfirmedMeansAllUp ==
    /\ \E k \in 1 .. Len(eventList) : eventList[k] = [ev |-> "INITO", node |-> 0]
    /\ qi[1] /\ qo[1]
    /\ ~overlap
    => \A i \in 1 .. slaves : slave[i].mInitialized

\* "automatic error handling": the block survives the errors of its controller.
SurvivesErrors == crashed # "null controller"

\* What CThreadBase says of its flag, to "indicate for other classes if the thread is still
\* executing": the block, which asks the flag, deletes no controller under its thread.
ThreadEndsBeforeController == crashed # "running thread"

\* "Notifies the configuration fb about a successful operation e.g. a successful startup":
\* an INIT on working hardware is answered.
SuccessIsAnswered == asked ~> (~asked \/ crashed # "no")
=============================================================================
