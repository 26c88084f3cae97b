--------------------------- MODULE IOConfigProofs ---------------------------
(***************************************************************************)
(* The configuration block of an I/O device never has two controllers at   *)
(* work, tries a bounded number of times and does not confirm a chain in   *)
(* which a slave is missing: for every length of the chain, every          *)
(* smMaxErrors and every number of INIT events and failures.               *)
(***************************************************************************)
EXTENDS IOConfig, TLAPS

\* A controller that is not there is not to be replaced; and the master does not ask its
\* slaves to start while it has no controller or is about to delete it.
BlockInv ==
    /\ mController = 0 => ~mPerformRestart
    /\ x.pc \in {"end", "join", "delete", "destroyed"} => mController # 0
    /\ slaves > 0 /\ (mController = 0 \/ x.pc \in {"end", "join", "delete", "destroyed"})
          => ~qi[1]

\* Every controller but the first was preceded by an error that was counted.
RetryInv ==
    /\ tries <= mErrorCounter + 1
    /\ mPerformRestart => tries <= mErrorCounter /\ mErrorCounter < MaxErrors
    /\ tries <= MaxErrors

\* No two events of the chain are in s.
OneChainEvent(s) ==
    \A k, l \in 1 .. Len(s) : s[k].ev # "external" /\ s[l].ev # "external" => k = l

\* As long as the events of the chain come one at a time, a positive answer on its way up
\* from a slave speaks for all the slaves below.
AnswersHold(s) ==
    \A k \in 1 .. Len(s) :
        s[k].ev = "INITO" /\ qo[s[k].node + 1] =>
            \A i \in s[k].node + 1 .. slaves : slave[i].mInitialized

ChainInv ==
    /\ \A i \in 1 .. slaves : slave[i].QO => slave[i].mInitialized
    /\ ~overlap => OneChainEvent(eventList) /\ AnswersHold(eventList)

IInv == TypeOK /\ BlockInv /\ RetryInv /\ OneController /\ ChainInv

\* What TypeOK says of the events.
EventsOK(s) ==
    /\ s \in Seq(Event)
    /\ \A k \in 1 .. Len(s) : /\ s[k].ev = "INIT" => s[k].node \in 1 .. slaves
                              /\ s[k].ev = "INITO" => s[k].node \in 0 .. slaves - 1

-----------------------------------------------------------------------------
(* The list of events *)

\* What holds of the events of a list holds of those that are left after the first.
LEMMA TailKeeps ==
    ASSUME NEW s, EventsOK(s), s # <<>>
    PROVE  /\ EventsOK(Tail(s))
           /\ OneChainEvent(s) => OneChainEvent(Tail(s))
           /\ AnswersHold(s) => AnswersHold(Tail(s))
           /\ Head(s) = s[1] /\ Len(s) >= 1 /\ Len(s) \in Nat
           /\ OneChainEvent(s) /\ s[1].ev # "external" =>
                 \A k \in 1 .. Len(Tail(s)) : Tail(s)[k].ev = "external"
  <1>1. /\ Tail(s) \in Seq(Event) /\ Len(Tail(s)) = Len(s) - 1 /\ Len(s) \in Nat
        /\ Len(s) >= 1 /\ Head(s) = s[1]
        /\ \A k \in 1 .. Len(s) - 1 : Tail(s)[k] = s[k + 1]
    BY DEF EventsOK
  <1>2. \A k \in 1 .. Len(s) - 1 : k + 1 \in 1 .. Len(s) /\ k + 1 # 1
    BY <1>1
  <1>3. EventsOK(Tail(s))
    BY <1>1, <1>2 DEF EventsOK
  <1>4. OneChainEvent(s) => OneChainEvent(Tail(s))
    BY <1>1, <1>2 DEF OneChainEvent
  <1>5. AnswersHold(s) => AnswersHold(Tail(s))
    BY <1>1, <1>2 DEF AnswersHold
  <1>6. 1 \in 1 .. Len(s)
    BY <1>1
  <1>7. OneChainEvent(s) /\ s[1].ev # "external" =>
           \A k \in 1 .. Len(Tail(s)) : Tail(s)[k].ev = "external"
    BY <1>1, <1>2, <1>6 DEF OneChainEvent
  <1> QED BY <1>1, <1>3, <1>4, <1>5, <1>7

\* Appending an event.
LEMMA AppendFacts ==
    ASSUME NEW s, EventsOK(s), NEW e \in Event
    PROVE  /\ Append(s, e) \in Seq(Event)
           /\ Len(Append(s, e)) = Len(s) + 1 /\ Len(s) \in Nat
           /\ \A k \in 1 .. Len(s) : Append(s, e)[k] = s[k]
           /\ Append(s, e)[Len(s) + 1] = e
           /\ \A k \in 1 .. Len(Append(s, e)) : k \in 1 .. Len(s) \/ k = Len(s) + 1
  BY DEF EventsOK

\* An external event may be appended at any time, ...
LEMMA AppendExternal ==
    ASSUME NEW s, EventsOK(s), NEW e \in Event, e.ev = "external"
    PROVE  /\ EventsOK(Append(s, e))
           /\ OneChainEvent(s) => OneChainEvent(Append(s, e))
           /\ AnswersHold(s) => AnswersHold(Append(s, e))
  <1> DEFINE t == Append(s, e)
  <1>1. /\ t \in Seq(Event) /\ Len(t) = Len(s) + 1 /\ Len(s) \in Nat
        /\ \A k \in 1 .. Len(s) : t[k] = s[k]
        /\ t[Len(s) + 1] = e
        /\ \A k \in 1 .. Len(t) : k \in 1 .. Len(s) \/ k = Len(s) + 1
    BY AppendFacts
  <1> HIDE DEF t
  <1>2. EventsOK(t)
    BY <1>1 DEF EventsOK
  <1>3. OneChainEvent(s) => OneChainEvent(t)
    BY <1>1 DEF OneChainEvent
  <1>4. AnswersHold(s) => AnswersHold(t)
    BY <1>1 DEF AnswersHold
  <1> QED BY <1>2, <1>3, <1>4 DEF t

\* ... an event of the chain while there is no other.
LEMMA AppendChain ==
    ASSUME NEW s, EventsOK(s), NEW e \in Event,
           e.ev = "INIT" => e.node \in 1 .. slaves,
           e.ev = "INITO" => e.node \in 0 .. slaves - 1
    PROVE  /\ EventsOK(Append(s, e))
           /\ (\A k \in 1 .. Len(s) : s[k].ev = "external") => OneChainEvent(Append(s, e))
           /\ e.ev = "INIT" /\ AnswersHold(s) => AnswersHold(Append(s, e))
  <1> DEFINE t == Append(s, e)
  <1>1. /\ t \in Seq(Event) /\ Len(t) = Len(s) + 1 /\ Len(s) \in Nat
        /\ \A k \in 1 .. Len(s) : t[k] = s[k]
        /\ t[Len(s) + 1] = e
        /\ \A k \in 1 .. Len(t) : k \in 1 .. Len(s) \/ k = Len(s) + 1
    BY AppendFacts
  <1> HIDE DEF t
  <1>2. EventsOK(t)
    BY <1>1 DEF EventsOK
  <1>3. (\A k \in 1 .. Len(s) : s[k].ev = "external") => OneChainEvent(t)
    BY <1>1 DEF OneChainEvent
  <1>4. e.ev = "INIT" /\ AnswersHold(s) => AnswersHold(t)
    BY <1>1 DEF AnswersHold
  <1> QED BY <1>2, <1>3, <1>4 DEF t

\* What is in the list after an event has been added or dropped.
LEMMA AddFacts ==
    ASSUME NEW s, EventsOK(s), NEW e \in Event, addEvent(s, e), refused \in Nat
    PROVE  /\ eventList' \in {s, Append(s, e)} /\ refused' \in Nat
           /\ Len(eventList') \in Nat
           /\ \A k \in 1 .. Len(eventList') :
                 (k \in 1 .. Len(s) /\ eventList'[k] = s[k]) \/ eventList'[k] = e
  <1>1. eventList' \in {s, Append(s, e)} /\ refused' \in Nat
    BY DEF addEvent
  <1>2. CASE eventList' = s
    BY <1>1, <1>2 DEF EventsOK
  <1>3. CASE eventList' = Append(s, e)
    BY <1>1, <1>3, AppendFacts
  <1> QED BY <1>1, <1>2, <1>3

\* An event of the chain is added, or dropped, while there is no other.
LEMMA AddChain ==
    ASSUME NEW s, EventsOK(s), NEW e \in Event, addEvent(s, e), refused \in Nat,
           e.ev = "INIT" => e.node \in 1 .. slaves,
           e.ev = "INITO" => e.node \in 0 .. slaves - 1
    PROVE  /\ EventsOK(eventList')
           /\ (\A k \in 1 .. Len(s) : s[k].ev = "external") => OneChainEvent(eventList')
           /\ e.ev = "INIT" /\ AnswersHold(s) => AnswersHold(eventList')
  <1>1. eventList' \in {s, Append(s, e)}
    BY AddFacts
  <1>2. CASE eventList' = s
    BY <1>2 DEF OneChainEvent
  <1>3. CASE eventList' = Append(s, e)
    BY <1>3, AppendChain
  <1> QED BY <1>1, <1>2, <1>3

-----------------------------------------------------------------------------
(* The threads of the controllers *)

\* A step of a thread, or of the hardware under it, moves this thread only.
LEMMA ThreadKeepsIInv ==
    ASSUME IInv, NEW g \in Controllers, run(g) \/ HardwareStep(g)
    PROVE  IInv'
  <1>1. /\ slaves' = slaves /\ mController' = mController /\ mStarting' = mStarting
        /\ mErrorCounter' = mErrorCounter /\ mPerformRestart' = mPerformRestart
        /\ qi' = qi /\ qo' = qo /\ slave' = slave /\ x' = x /\ crashed' = crashed
        /\ asked' = asked /\ tries' = tries /\ mixedUp' = mixedUp /\ overlap' = overlap
    BY DEF run, HardwareStep, setAlive, init, notifyConfigFB, publish, runLoop,
           waitForEnd, runLoopError, block, adapters, history
  <1>2. dropped' \in BOOLEAN
    <2>1. dropped' = dropped \/ notifyConfigFB(g)
      BY DEF run, HardwareStep, setAlive, init, publish, runLoop, waitForEnd,
             runLoopError, history
    <2>2. notifyConfigFB(g) => dropped' \in BOOLEAN
      BY DEF notifyConfigFB
    <2> QED BY <2>1, <2>2, Zenon DEF IInv, TypeOK
  <1>12. refused' \in Nat
    <2>1. refused \in Nat
      BY DEF IInv, TypeOK
    <2>2. refused' = refused \/ publish(g)
      BY DEF run, HardwareStep, setAlive, init, notifyConfigFB, runLoop, waitForEnd,
             runLoopError, list
    <2>3. publish(g) => refused' \in {refused, refused + 1}
      BY DEF publish, addEvent, list
    <2> QED BY <2>1, <2>2, <2>3
  <1>3. n' \in [controllers : Nat, inits : Nat, faults : Nat]
    <2>1. n' = n \/ n' = [n EXCEPT !.faults = @ + 1]
      BY DEF run, HardwareStep, setAlive, init, notifyConfigFB, publish, runLoop,
             waitForEnd, runLoopError, Fault
    <2>2. n \in [controllers : Nat, inits : Nat, faults : Nat]
      BY DEF IInv, TypeOK
    <2> QED BY <2>1, <2>2
  <1>4. /\ controller' \in [Controllers -> ControllerState]
        /\ controller[g].pc \notin {"none", "ended"}
        /\ \A h \in Controllers : h # g => controller'[h] = controller[h]
    <2>1. controller \in [Controllers -> ControllerState]
      BY DEF IInv, TypeOK
    <2>2. CASE setAlive(g)
      BY <2>1, <2>2 DEF setAlive, ControllerState
    <2>3. CASE init(g)
      <3>1. CASE controller' = [controller EXCEPT ![g].pc = "notify", ![g].notify = "Success"]
        BY <2>1, <2>3, <3>1 DEF init, ControllerState, Notification
      <3>2. CASE controller' = [controller EXCEPT ![g].pc = "notify", ![g].notify = "Error",
                                                  ![g].mError = TRUE]
        BY <2>1, <2>3, <3>2 DEF init, ControllerState, Notification
      <3> QED BY <2>3, <3>1, <3>2 DEF init
    <2>4. CASE notifyConfigFB(g)
      BY <2>1, <2>4 DEF notifyConfigFB, Thread, AfterNotify, ControllerState
    <2>5. CASE publish(g)
      <3>1. AfterNotify(g) \in {"loop", "wait"} /\ controller[g].notify \in Notification
        BY <2>1 DEF AfterNotify, ControllerState
      <3>2. /\ controller[g].pc = "publish"
            /\ controller' = [controller EXCEPT ![g] =
                  [controller[g] EXCEPT !.pc = AfterNotify(g),
                                        !.mNotificationType = controller[g].notify,
                                        !.mNotificationHandled = FALSE]]
        BY <2>1, <2>5 DEF publish
      <3>3. [controller[g] EXCEPT !.pc = AfterNotify(g),
                                  !.mNotificationType = controller[g].notify,
                                  !.mNotificationHandled = FALSE] \in ControllerState
        BY <2>1, <3>1 DEF ControllerState
      <3> QED BY <2>1, <3>2, <3>3
    <2>6. CASE runLoop(g)
      BY <2>1, <2>6 DEF runLoop, Thread, ControllerState
    <2>7. CASE waitForEnd(g)
      BY <2>1, <2>7 DEF waitForEnd, Thread, ControllerState
    <2>8. CASE runLoopError(g)
      <3>1. /\ controller' = [controller EXCEPT ![g].pc = "notify", ![g].notify = "Error",
                                                ![g].mError = TRUE]
            /\ controller[g].pc = "loop"
        BY <2>8 DEF runLoopError
      <3>2. controller' = [controller EXCEPT ![g] =
               [controller[g] EXCEPT !.pc = "notify", !.notify = "Error", !.mError = TRUE]]
        BY <2>1, <3>1
      <3>3. [controller[g] EXCEPT !.pc = "notify", !.notify = "Error", !.mError = TRUE]
               \in ControllerState
        BY <2>1 DEF ControllerState, Notification
      <3> QED BY <2>1, <3>1, <3>2, <3>3
    <2> QED BY <2>2, <2>3, <2>4, <2>5, <2>6, <2>7, <2>8 DEF run, HardwareStep
  <1>5. PICK e \in Event : e.ev = "external" /\ eventList' \in {eventList, Append(eventList, e)}
    <2>1. [ev |-> "external", node |-> g] \in Event
      BY DEF Controllers, Event
    <2> QED
      BY <2>1 DEF run, HardwareStep, setAlive, init, notifyConfigFB, publish, runLoop,
                  waitForEnd, runLoopError, addEvent, list
  <1>6. EventsOK(eventList)
    BY DEF IInv, TypeOK, EventsOK
  <1>7. /\ EventsOK(eventList') /\ (OneChainEvent(eventList) => OneChainEvent(eventList'))
        /\ AnswersHold(eventList) => AnswersHold(eventList')
    BY <1>5, <1>6, AppendExternal
  <1>8. TypeOK'
    BY <1>1, <1>2, <1>3, <1>4, <1>7, <1>12 DEF IInv, TypeOK, EventsOK
  <1>9. BlockInv' /\ RetryInv'
    BY <1>1 DEF IInv, BlockInv, RetryInv
  <1>10. OneController'
    BY <1>1, <1>4 DEF IInv, OneController
  <1>11. ChainInv'
    BY <1>1, <1>7 DEF IInv, ChainInv, OneChainEvent, AnswersHold
  <1> QED BY <1>8, <1>9, <1>10, <1>11 DEF IInv

-----------------------------------------------------------------------------
(* The methods of the block *)

Stopping == {"end", "join", "delete", "destroyed"}

\* What deInit, onError, onStartup and started leave behind when "events" are the ones
\* that were left: no thread has been moved, the master may have sent an event down the
\* chain, and the controller is about to be deleted only where there is one and no slave
\* is being started.
MethodEffect(events) ==
    /\ controller' \in [Controllers -> ControllerState]
    /\ \A g \in Controllers : controller'[g].pc = controller[g].pc
    /\ qi' \in [1 .. slaves -> BOOLEAN] /\ qo' = qo /\ slave' = slave
    /\ x' \in Position
    /\ x'.pc \in Stopping => mController # 0
    /\ slaves > 0 /\ (mController = 0 \/ x'.pc \in Stopping) => ~qi'[1]
    /\ \/ eventList' = events /\ refused' = refused /\ overlap' = overlap
       \/ /\ slaves > 0
          /\ addEvent(events, [ev |-> "INIT", node |-> 1])
          /\ overlap' = (overlap \/ \E k \in 1 .. Len(events) : events[k].ev # "external")

\* The positions from which the block calls its methods.
Calling == {p \in Position : p.pc \in {"idle", "handled"}}

\* The number of slaves is a number.
LEMMA SlavesNat == IInv => slaves \in Nat
  BY IOConfigAssumption DEF IInv, TypeOK

\* stopped() up to the end of the thread
LEMMA StoppedEffect ==
    ASSUME IInv, mController # 0, slaves > 0 => ~qi[1],
           NEW events, NEW next \in Calling, stopped(events, next)
    PROVE  MethodEffect(events)
  <1>1. /\ controller \in [Controllers -> ControllerState] /\ mController \in Controllers
        /\ qi \in [1 .. slaves -> BOOLEAN]
    BY DEF IInv, TypeOK
  <1>2. controller' = [controller EXCEPT ![mController].mDelegate = FALSE]
    BY DEF stopped
  <1>3. /\ controller' \in [Controllers -> ControllerState]
        /\ \A g \in Controllers : controller'[g].pc = controller[g].pc
    BY <1>1, <1>2 DEF ControllerState
  <1>4. x' \in Position
    BY DEF stopped, Calling, Position
  <1> QED BY <1>1, <1>3, <1>4 DEF stopped, noEvent, adapters, MethodEffect

\* sendToSlaves()
LEMMA SendEffect ==
    ASSUME IInv, slaves > 0, NEW q \in BOOLEAN, q => mController # 0,
           NEW events, NEW next \in Calling,
           sendToSlaves(q, events), x' = next, UNCHANGED controller
    PROVE  MethodEffect(events)
  <1>1. controller \in [Controllers -> ControllerState] /\ qi \in [1 .. slaves -> BOOLEAN]
    BY DEF IInv, TypeOK
  <1>2. slaves \in Nat /\ 1 \in 1 .. slaves
    BY SlavesNat
  <1>3. qi' \in [1 .. slaves -> BOOLEAN] /\ qi'[1] = q
    BY <1>1, <1>2 DEF sendToSlaves
  <1>4. x' \in Position /\ x'.pc \notin Stopping
    BY DEF Calling, Stopping
  <1> QED BY <1>1, <1>3, <1>4 DEF sendToSlaves, MethodEffect

\* Nothing but the events and the position has changed.
LEMMA NoEffect ==
    ASSUME IInv, NEW events, NEW next \in Calling,
           noEvent(events), x' = next, UNCHANGED <<controller, adapters, overlap>>
    PROVE  MethodEffect(events)
  <1>1. /\ controller \in [Controllers -> ControllerState]
        /\ qi \in [1 .. slaves -> BOOLEAN]
        /\ slaves > 0 /\ mController = 0 => ~qi[1]
    BY DEF IInv, TypeOK, BlockInv
  <1>2. x' \in Position /\ x'.pc \notin Stopping
    BY DEF Calling, Stopping
  <1> QED BY <1>1, <1>2 DEF noEvent, adapters, MethodEffect

\* deInit(), onStop()
LEMMA DeInitEffect ==
    ASSUME IInv, NEW events, NEW next \in Calling, deInit(events, next)
    PROVE  MethodEffect(events)
  <1>1. CASE mController = 0
    <2>1. noEvent(events) /\ x' = next /\ UNCHANGED <<controller, adapters, overlap>>
      BY <1>1 DEF deInit
    <2> QED BY <2>1, NoEffect
  <1>2. CASE mController # 0 /\ stopped(events, next) /\ slaves = 0
    BY <1>2, StoppedEffect
  <1>3. CASE /\ mController # 0 /\ slaves > 0 /\ sendToSlaves(FALSE, events)
             /\ x' = next /\ UNCHANGED controller
    BY <1>3, SendEffect
  <1> QED BY <1>1, <1>2, <1>3 DEF deInit

\* onError(): either one more error is counted and the controller is to be replaced, or
\* the application is told.
LEMMA OnErrorEffect ==
    ASSUME IInv, mController # 0, NEW fatal \in BOOLEAN, NEW events, NEW next \in Calling,
           onError(fatal, events, next)
    PROVE  /\ MethodEffect(events)
           /\ mPerformRestart' \in BOOLEAN /\ mErrorCounter' \in Nat /\ tries' \in Nat
           /\ mStarting' \in BOOLEAN /\ asked' \in BOOLEAN
           /\ RetryInv'
  <1>1. /\ mErrorCounter \in Nat /\ tries \in Nat /\ MaxErrors \in Nat
        /\ tries <= mErrorCounter + 1 /\ tries <= MaxErrors
    BY IOConfigAssumption DEF IInv, TypeOK, RetryInv
  <1>2. mStarting \in BOOLEAN /\ asked \in BOOLEAN
    BY DEF IInv, TypeOK
  <1>3. mPerformRestart' = (mErrorCounter + 1 < MaxErrors)
    BY DEF onError
  <1>4. CASE mErrorCounter + 1 < MaxErrors
    <2>1. /\ mErrorCounter' = mErrorCounter + 1 /\ deInit(events, next)
          /\ mStarting' = mStarting /\ asked' = asked /\ tries' = tries
      BY <1>1, <1>4 DEF onError
    <2>2. MethodEffect(events)
      BY <2>1, DeInitEffect
    <2>3. RetryInv'
      BY <1>1, <1>4, <2>1 DEF RetryInv
    <2> QED BY <1>1, <1>2, <1>3, <2>1, <2>2, <2>3
  <1>5. CASE mErrorCounter + 1 >= MaxErrors
    <2>0. mPerformRestart' = FALSE /\ ~(mErrorCounter + 1 < MaxErrors)
      <3>1. ~(mErrorCounter + 1 < MaxErrors)
        BY <1>1, <1>5
      <3>2. mPerformRestart' \in BOOLEAN
        BY <1>3
      <3>3. ~mPerformRestart'
        BY <1>3, <3>1
      <3> QED BY <3>1, <3>2, <3>3
    <2>1. /\ mStarting' = FALSE /\ asked' = FALSE /\ tries' = 0
          /\ mErrorCounter' = 0 \/ mErrorCounter' = mErrorCounter + 1
      BY <2>0 DEF onError, answerINITO
    <2>2. MethodEffect(events)
      <3>1. CASE deInit(events, next)
        BY <3>1, DeInitEffect
      <3>2. CASE noEvent(events) /\ x' = next /\ UNCHANGED <<controller, adapters, overlap>>
        BY <3>2, NoEffect
      <3> QED BY <2>0, <3>1, <3>2 DEF onError
    <2>3. RetryInv'
      <3>1. 0 <= mErrorCounter' + 1 /\ 0 <= MaxErrors
        BY <1>1, <2>1
      <3> QED BY <2>0, <2>1, <3>1 DEF RetryInv
    <2>4. mErrorCounter' \in Nat
      BY <1>1, <2>1
    <2> QED BY <2>0, <2>1, <2>2, <2>3, <2>4
  <1> QED BY <1>1, <1>4, <1>5

\* started() without an error
LEMMA StartedEffect ==
    ASSUME IInv, NEW events, NEW next \in Calling, started(events, next)
    PROVE  /\ MethodEffect(events)
           /\ mPerformRestart' = mPerformRestart /\ mErrorCounter' \in Nat /\ tries' \in Nat
           /\ mStarting' \in BOOLEAN /\ asked' \in BOOLEAN
           /\ RetryInv'
  <1>1. noEvent(events) /\ x' = next /\ UNCHANGED <<controller, adapters, overlap>>
    BY DEF started
  <1>2. MethodEffect(events)
    BY <1>1, NoEffect
  <1>3. /\ mPerformRestart' = mPerformRestart /\ mErrorCounter' = 0 /\ mStarting' = FALSE
        /\ asked' = FALSE /\ tries' = 0
    BY DEF started, answerINITO
  <1>4. RetryInv'
    BY <1>3, IOConfigAssumption DEF RetryInv
  <1> QED BY <1>2, <1>3, <1>4

\* After a method the events of the chain are as they should be.
LEMMA MethodKeepsChain ==
    ASSUME IInv, NEW events, EventsOK(events),
           OneChainEvent(eventList) => OneChainEvent(events),
           AnswersHold(eventList) => AnswersHold(events),
           MethodEffect(events), slaves' = slaves
    PROVE  EventsOK(eventList') /\ ChainInv' /\ overlap' \in BOOLEAN /\ refused' \in Nat
  <1>1. slaves \in Nat /\ overlap \in BOOLEAN /\ refused \in Nat
    BY IOConfigAssumption DEF IInv, TypeOK
  <1>2. qo' = qo /\ slave' = slave
    BY DEF MethodEffect
  <1>3. /\ EventsOK(eventList') /\ overlap' \in BOOLEAN /\ refused' \in Nat
        /\ ~overlap' => ~overlap /\ (OneChainEvent(eventList) => OneChainEvent(eventList'))
        /\ AnswersHold(events) => AnswersHold(eventList')
    <2>1. CASE eventList' = events /\ refused' = refused /\ overlap' = overlap
      BY <1>1, <2>1
    <2>2. CASE /\ slaves > 0
               /\ addEvent(events, [ev |-> "INIT", node |-> 1])
               /\ overlap' = (overlap \/ \E k \in 1 .. Len(events) : events[k].ev # "external")
      <3>1. /\ [ev |-> "INIT", node |-> 1] \in Event /\ 1 \in 1 .. slaves
            /\ [ev |-> "INIT", node |-> 1].ev = "INIT"
            /\ [ev |-> "INIT", node |-> 1].node = 1
        BY <1>1, <2>2 DEF Event
      <3>2. /\ EventsOK(eventList')
            /\ (\A k \in 1 .. Len(events) : events[k].ev = "external") =>
                  OneChainEvent(eventList')
            /\ AnswersHold(events) => AnswersHold(eventList')
        BY <1>1, <2>2, <3>1, AddChain
      <3>3. overlap' \in BOOLEAN
        BY <2>2
      <3>5. refused' \in Nat
        BY <1>1, <2>2, <3>1, AddFacts
      <3>4. ~overlap' => ~overlap /\ \A k \in 1 .. Len(events) : events[k].ev = "external"
        BY <2>2
      <3> QED BY <3>2, <3>3, <3>4, <3>5
    <2> QED BY <2>1, <2>2 DEF MethodEffect
  <1>4. ChainInv'
    <2>1. ~overlap' => OneChainEvent(eventList') /\ AnswersHold(eventList')
      BY <1>3 DEF IInv, ChainInv
    <2>2. AnswersHold(eventList') => AnswersHold(eventList)'
      BY <1>2 DEF AnswersHold
    <2>3. OneChainEvent(eventList') => OneChainEvent(eventList)'
      BY DEF OneChainEvent
    <2> QED BY <1>2, <2>1, <2>2, <2>3 DEF IInv, ChainInv
  <1> QED BY <1>3, <1>4

\* The types of what the methods assign besides.
FieldsOK ==
    /\ mErrorCounter \in Nat /\ tries \in Nat
    /\ mStarting \in BOOLEAN /\ mPerformRestart \in BOOLEAN
    /\ asked \in BOOLEAN /\ dropped \in BOOLEAN /\ mixedUp \in BOOLEAN
    /\ n \in [controllers : Nat, inits : Nat, faults : Nat]

\* An event that the block has handled with one of its methods.
LEMMA MethodKeepsIInv ==
    ASSUME IInv, NEW events, EventsOK(events),
           OneChainEvent(eventList) => OneChainEvent(events),
           AnswersHold(eventList) => AnswersHold(events),
           MethodEffect(events), FieldsOK', RetryInv',
           slaves' = slaves, mController' = mController, crashed' = crashed,
           mController = 0 => ~mPerformRestart'
    PROVE  IInv'
  <1>1. EventsOK(eventList') /\ ChainInv' /\ overlap' \in BOOLEAN /\ refused' \in Nat
    BY MethodKeepsChain
  <1>2. /\ controller' \in [Controllers -> ControllerState]
        /\ \A g \in Controllers : controller'[g].pc = controller[g].pc
        /\ qi' \in [1 .. slaves -> BOOLEAN] /\ qo' = qo /\ slave' = slave
        /\ x' \in Position
        /\ x'.pc \in Stopping => mController # 0
        /\ slaves > 0 /\ (mController = 0 \/ x'.pc \in Stopping) => ~qi'[1]
    BY DEF MethodEffect
  <1>3. TypeOK'
    BY <1>1, <1>2 DEF IInv, TypeOK, EventsOK, FieldsOK
  <1>4. BlockInv'
    BY <1>2 DEF BlockInv, Stopping
  <1>5. OneController'
    BY <1>2 DEF IInv, OneController
  <1> QED BY <1>1, <1>3, <1>4, <1>5 DEF IInv

\* The position of the block after an external event, and the idle one.
LEMMA CallingFacts ==
    /\ Idle \in Calling
    /\ \A sender \in Controllers, h \in BOOLEAN :
          [pc |-> "handled", then |-> "idle", from |-> sender, handled |-> h] \in Calling
  BY DEF Idle, Calling, Position, Controllers

\* INIT without QI
LEMMA DeINITKeepsIInv ==
    ASSUME IInv, deINIT
    PROVE  IInv'
  <1>1. /\ deInit(eventList, Idle) /\ n' = [n EXCEPT !.inits = @ + 1]
        /\ asked' = FALSE /\ tries' = 0
        /\ slaves' = slaves /\ mController' = mController /\ crashed' = crashed
        /\ mStarting' = mStarting /\ mErrorCounter' = mErrorCounter
        /\ mPerformRestart' = mPerformRestart /\ dropped' = dropped /\ mixedUp' = mixedUp
    BY DEF deINIT, answerINITO, block
  <1>2. PICK events : events = eventList
    OBVIOUS
  <1>3. MethodEffect(events)
    BY <1>1, <1>2, CallingFacts, DeInitEffect
  <1>4. EventsOK(events)
    BY <1>2 DEF IInv, TypeOK, EventsOK
  <1>5. FieldsOK'
    <2>1. n \in [controllers : Nat, inits : Nat, faults : Nat]
      BY DEF IInv, TypeOK
    <2>2. n' \in [controllers : Nat, inits : Nat, faults : Nat]
      BY <1>1, <2>1
    <2> QED BY <1>1, <2>2 DEF IInv, TypeOK, FieldsOK
  <1>6. RetryInv'
    <2>1. mErrorCounter \in Nat /\ MaxErrors \in Nat
      BY IOConfigAssumption DEF IInv, TypeOK
    <2>2. mPerformRestart => mErrorCounter < MaxErrors
      BY DEF IInv, RetryInv
    <2> QED BY <1>1, <2>1, <2>2 DEF RetryInv
  <1>7. mController = 0 => ~mPerformRestart'
    BY <1>1 DEF IInv, BlockInv
  <1> QED BY <1>1, <1>2, <1>3, <1>4, <1>5, <1>6, <1>7, MethodKeepsIInv

\* The events that are left when the block has taken one.
LEMMA ReceivedFacts ==
    ASSUME IInv, NEW what, NEW node, Received(what, node)
    PROVE  /\ EventsOK(Tail(eventList))
           /\ OneChainEvent(eventList) => OneChainEvent(Tail(eventList))
           /\ AnswersHold(eventList) => AnswersHold(Tail(eventList))
           /\ eventList[1].ev = what /\ eventList[1].node = node
           /\ 1 \in 1 .. Len(eventList)
           /\ OneChainEvent(eventList) /\ what # "external" =>
                 \A k \in 1 .. Len(Tail(eventList)) : Tail(eventList)[k].ev = "external"
  <1>1. EventsOK(eventList) /\ eventList # <<>>
    BY DEF IInv, TypeOK, EventsOK, Received
  <1>2. /\ Head(eventList) = eventList[1] /\ Len(eventList) >= 1 /\ Len(eventList) \in Nat
        /\ EventsOK(Tail(eventList))
        /\ OneChainEvent(eventList) => OneChainEvent(Tail(eventList))
        /\ AnswersHold(eventList) => AnswersHold(Tail(eventList))
        /\ OneChainEvent(eventList) /\ eventList[1].ev # "external" =>
              \A k \in 1 .. Len(Tail(eventList)) : Tail(eventList)[k].ev = "external"
    BY <1>1, TailKeeps
  <1>3. eventList[1].ev = what /\ eventList[1].node = node /\ 1 \in 1 .. Len(eventList)
    BY <1>2 DEF Received
  <1> QED BY <1>2, <1>3

\* externalEvent: the methods are called for the controller the block has.
LEMMA ExternalKeepsIInv ==
    ASSUME IInv, externalEvent
    PROVE  IInv'
  <1>1. PICK sender \in Controllers :
           /\ Received("external", sender)
           /\ mController # 0
           /\ LET type == controller[mController].mNotificationType
                  next(handled) == [pc |-> "handled", then |-> "idle", from |-> sender,
                                    handled |-> handled]
              IN  \/ type = "Error" /\ onError(TRUE, Tail(eventList), next(TRUE))
                  \/ type = "Success" /\ mStarting /\ onStartup(Tail(eventList), next(TRUE))
                  \/ /\ type = "Unknown" \/ (type = "Success" /\ ~mStarting)
                     /\ x' = next(FALSE)
                     /\ noEvent(Tail(eventList))
                     /\ UNCHANGED <<mStarting, mErrorCounter, mPerformRestart, controller,
                                    adapters, asked, tries, overlap>>
           /\ UNCHANGED <<slaves, mController, n, dropped, mixedUp, crashed>>
    BY DEF externalEvent
  <1>2. PICK events : events = Tail(eventList)
    OBVIOUS
  <1>3. PICK yes, no : /\ yes = [pc |-> "handled", then |-> "idle", from |-> sender,
                                 handled |-> TRUE]
                       /\ no = [pc |-> "handled", then |-> "idle", from |-> sender,
                                handled |-> FALSE]
    OBVIOUS
  <1>4. yes \in Calling /\ no \in Calling
    BY <1>3, CallingFacts
  <1>5. /\ EventsOK(events)
        /\ OneChainEvent(eventList) => OneChainEvent(events)
        /\ AnswersHold(eventList) => AnswersHold(events)
    BY <1>1, <1>2, ReceivedFacts
  <1>6. /\ slaves' = slaves /\ mController' = mController /\ crashed' = crashed /\ n' = n
        /\ dropped' = dropped /\ mixedUp' = mixedUp /\ mController # 0
    BY <1>1
  <1>7. /\ MethodEffect(events) /\ RetryInv'
        /\ mErrorCounter' \in Nat /\ tries' \in Nat /\ mStarting' \in BOOLEAN
        /\ mPerformRestart' \in BOOLEAN /\ asked' \in BOOLEAN
    <2>0. /\ mErrorCounter \in Nat /\ tries \in Nat /\ mStarting \in BOOLEAN
          /\ mPerformRestart \in BOOLEAN /\ asked \in BOOLEAN
      BY DEF IInv, TypeOK
    <2>1. CASE onError(TRUE, events, yes)
      BY <1>4, <1>6, <2>1, OnErrorEffect
    <2>2. CASE slaves = 0 /\ started(events, yes)
      BY <1>4, <2>0, <2>2, StartedEffect
    <2>3. CASE /\ slaves > 0 /\ sendToSlaves(TRUE, events) /\ x' = yes
               /\ UNCHANGED <<mErrorCounter, mStarting, mPerformRestart, controller, asked, tries>>
      <3>1. MethodEffect(events)
        BY <1>4, <1>6, <2>3, SendEffect
      <3>2. RetryInv'
        BY <2>3 DEF IInv, RetryInv
      <3> QED BY <2>0, <2>3, <3>1, <3>2
    <2>4. CASE /\ x' = no /\ noEvent(events)
               /\ UNCHANGED <<mStarting, mErrorCounter, mPerformRestart, controller,
                              adapters, asked, tries, overlap>>
      <3>1. MethodEffect(events)
        BY <1>4, <2>4, NoEffect
      <3>2. RetryInv'
        BY <2>4 DEF IInv, RetryInv
      <3> QED BY <2>0, <2>4, <3>1, <3>2
    <2>5. \/ onError(TRUE, events, yes)
          \/ onStartup(events, yes)
          \/ /\ x' = no /\ noEvent(events)
             /\ UNCHANGED <<mStarting, mErrorCounter, mPerformRestart, controller,
                            adapters, asked, tries, overlap>>
      BY <1>1, <1>2, <1>3
    <2> QED BY <2>1, <2>2, <2>3, <2>4, <2>5 DEF onStartup
  <1>8. FieldsOK'
    BY <1>6, <1>7 DEF IInv, TypeOK, FieldsOK
  <1> QED BY <1>5, <1>6, <1>7, <1>8, MethodKeepsIInv

\* INITO of the first slave's adapter: the chain is up, or has failed, or is down.
LEMMA INITOKeepsIInv ==
    ASSUME IInv, INITO
    PROVE  IInv'
  <1>1. PICK events : events = Tail(eventList)
    OBVIOUS
  <1>2. /\ EventsOK(events)
        /\ OneChainEvent(eventList) => OneChainEvent(events)
        /\ AnswersHold(eventList) => AnswersHold(events)
        /\ eventList[1].ev = "INITO" /\ eventList[1].node = 0
        /\ 1 \in 1 .. Len(eventList)
    BY <1>1, ReceivedFacts DEF INITO
  <1>3. slaves \in Nat /\ slaves > 0
    <2>1. 0 \in 0 .. slaves - 1
      BY <1>2 DEF IInv, TypeOK
    <2> QED BY <2>1, SlavesNat
  <1>4. /\ slaves' = slaves /\ mController' = mController /\ crashed' = crashed /\ n' = n
        /\ dropped' = dropped /\ mixedUp' = mixedUp
    BY DEF INITO
  <1>5. qi[1] => mController # 0
    BY <1>3 DEF IInv, BlockInv
  <1>6. PICK idle \in Calling : idle = Idle
    BY CallingFacts
  <1>7. /\ MethodEffect(events) /\ RetryInv'
        /\ mErrorCounter' \in Nat /\ tries' \in Nat /\ mStarting' \in BOOLEAN
        /\ mPerformRestart' \in BOOLEAN /\ asked' \in BOOLEAN
        /\ mController = 0 => ~mPerformRestart'
    <2>0. /\ mErrorCounter \in Nat /\ tries \in Nat /\ mStarting \in BOOLEAN
          /\ mPerformRestart \in BOOLEAN /\ asked \in BOOLEAN
          /\ mController = 0 => ~mPerformRestart
      BY DEF IInv, TypeOK, BlockInv
    <2>1. CASE started(events, idle)
      BY <2>0, <2>1, StartedEffect
    <2>2. CASE qi[1] /\ onError(FALSE, events, idle)
      BY <1>5, <2>2, OnErrorEffect
    <2>3. CASE /\ ~qi[1] /\ mController # 0 /\ stopped(events, idle)
               /\ UNCHANGED <<mStarting, mErrorCounter, mPerformRestart, asked, tries>>
      <3>1. MethodEffect(events)
        BY <2>3, StoppedEffect
      <3>2. RetryInv'
        BY <2>3 DEF IInv, RetryInv
      <3> QED BY <2>0, <2>3, <3>1, <3>2
    <2> QED BY <1>1, <1>6, <2>1, <2>2, <2>3 DEF INITO
  <1>8. FieldsOK'
    BY <1>4, <1>7 DEF IInv, TypeOK, FieldsOK
  <1> QED BY <1>2, <1>4, <1>7, <1>8, MethodKeepsIInv

-----------------------------------------------------------------------------
(* The life of a controller *)

\* A new controller, when the ones before have ended.
LEMMA CreateFacts ==
    ASSUME IInv, createDeviceController,
           \A g \in Controllers : controller[g].pc \in {"none", "ended"}
    PROVE  /\ mController' \in Controllers /\ mController' # 0
           /\ controller' \in [Controllers -> ControllerState]
           /\ \A g \in Controllers : controller'[g].pc \notin {"none", "ended"} => g = mController'
           /\ n' \in [controllers : Nat, inits : Nat, faults : Nat]
           /\ mStarting' = TRUE
  <1>1. /\ controller \in [Controllers -> ControllerState]
        /\ n \in [controllers : Nat, inits : Nat, faults : Nat]
    BY DEF IInv, TypeOK
  <1>2. PICK g \in Controllers : g = n.controllers + 1
    BY DEF createDeviceController
  <1>3. PICK new : new = [Unborn EXCEPT !.pc = "created", !.mDelegate = TRUE]
    OBVIOUS
  <1>4. new \in ControllerState
    BY <1>3 DEF Unborn, ControllerState, Notification
  <1>5. mController' = g /\ controller' = [controller EXCEPT ![g] = new] /\ mStarting' = TRUE
    BY <1>2, <1>3 DEF createDeviceController
  <1>6. n' \in [controllers : Nat, inits : Nat, faults : Nat]
    <2>1. n' = [n EXCEPT !.controllers = n.controllers + 1,
                         !.inits = IF x.pc = "idle" THEN @ + 1 ELSE @]
      BY DEF createDeviceController
    <2>2. PICK c, i : c = n.controllers + 1 /\ i = IF x.pc = "idle" THEN n.inits + 1 ELSE n.inits
      OBVIOUS
    <2>3. c \in Nat /\ i \in Nat
      BY <1>1, <2>2
    <2>4. n' = [n EXCEPT !.controllers = c, !.inits = i]
      BY <1>1, <2>1, <2>2
    <2> QED BY <1>1, <2>3, <2>4
  <1>7. g # 0
    BY DEF Controllers
  <1> QED BY <1>1, <1>4, <1>5, <1>6, <1>7

\* INIT with QI
LEMMA INITKeepsIInv ==
    ASSUME IInv, INIT
    PROVE  IInv'
  <1>1. /\ slaves' = slaves /\ mErrorCounter' = mErrorCounter /\ eventList' = eventList
        /\ refused' = refused /\ mPerformRestart' = mPerformRestart /\ qi' = qi /\ qo' = qo /\ slave' = slave
        /\ x' = x /\ x.pc = "idle" /\ dropped' = dropped /\ mixedUp' = mixedUp
        /\ overlap' = overlap /\ crashed' = crashed
    BY DEF INIT, adapters, list
  <1>2. CASE mController # 0
    <2>1. /\ n' = [n EXCEPT !.inits = @ + 1] /\ mController' = mController
          /\ mStarting' = mStarting /\ controller' = controller /\ asked' = asked
          /\ tries' = tries
      BY <1>2 DEF INIT
    <2>2. n \in [controllers : Nat, inits : Nat, faults : Nat]
      BY DEF IInv, TypeOK
    <2>3. n' \in [controllers : Nat, inits : Nat, faults : Nat]
      BY <2>1, <2>2
    <2>4. TypeOK'
      BY <1>1, <2>1, <2>3 DEF IInv, TypeOK
    <2>5. BlockInv' /\ RetryInv' /\ OneController'
      BY <1>1, <2>1 DEF IInv, BlockInv, RetryInv, OneController
    <2>6. ChainInv'
      BY <1>1 DEF IInv, ChainInv, OneChainEvent, AnswersHold
    <2> QED BY <2>4, <2>5, <2>6 DEF IInv
  <1>3. CASE mController = 0
    <2>1. createDeviceController /\ asked' = TRUE /\ tries' = 1
      BY <1>3 DEF INIT
    <2>2. \A g \in Controllers : controller[g].pc \in {"none", "ended"}
      BY <1>3 DEF IInv, OneController, Controllers
    <2>3. /\ mController' \in Controllers /\ mController' # 0
          /\ controller' \in [Controllers -> ControllerState]
          /\ \A g \in Controllers : controller'[g].pc \notin {"none", "ended"} => g = mController'
          /\ n' \in [controllers : Nat, inits : Nat, faults : Nat]
          /\ mStarting' = TRUE
      BY <2>1, <2>2, CreateFacts
    <2>4. TypeOK'
      BY <1>1, <2>1, <2>3 DEF IInv, TypeOK
    <2>5. BlockInv'
      BY <1>1, <2>3 DEF BlockInv
    <2>6. RetryInv'
      <3>0. MaxErrors \in Nat /\ MaxErrors >= 1
        BY IOConfigAssumption
      <3>1. mErrorCounter \in Nat /\ MaxErrors \in Nat /\ MaxErrors >= 1
        BY <3>0 DEF IInv, TypeOK
      <3>2. ~mPerformRestart
        BY <1>3 DEF IInv, BlockInv
      <3> QED BY <1>1, <2>1, <3>1, <3>2 DEF RetryInv
    <2>7. OneController'
      BY <2>3 DEF OneController
    <2>8. ChainInv'
      BY <1>1 DEF IInv, ChainInv, OneChainEvent, AnswersHold
    <2> QED BY <2>4, <2>5, <2>6, <2>7, <2>8 DEF IInv
  <1> QED BY <1>2, <1>3

\* The rest of stopped(): the old controller has ended before the next one is created.
LEMMA DeleteKeepsIInv ==
    ASSUME IInv, deleteController
    PROVE  IInv'
  <1>1. /\ slaves' = slaves /\ mErrorCounter' = mErrorCounter /\ eventList' = eventList
        /\ qi' = qi /\ qo' = qo /\ slave' = slave /\ asked' = asked /\ dropped' = dropped
        /\ mixedUp' = mixedUp /\ overlap' = overlap /\ crashed' = crashed /\ refused' = refused
        /\ x.pc = "destroyed" /\ controller[mController].pc = "ended"
        /\ mPerformRestart' = FALSE /\ x' = [x EXCEPT !.pc = x.then, !.then = "idle"]
    BY DEF deleteController, adapters, list
  <1>2. x' \in Position /\ x'.pc \in {"idle", "handled"}
    <2>1. x \in Position
      BY DEF IInv, TypeOK
    <2> QED BY <1>1, <2>1 DEF Position
  <1>3. \A g \in Controllers : controller[g].pc \in {"none", "ended"}
    BY <1>1 DEF IInv, OneController
  <1>4. slaves > 0 => ~qi'[1]
    BY <1>1 DEF IInv, BlockInv
  <1>5. /\ mErrorCounter \in Nat /\ tries \in Nat /\ MaxErrors \in Nat
        /\ tries <= mErrorCounter + 1 /\ tries <= MaxErrors
        /\ mPerformRestart => tries <= mErrorCounter /\ mErrorCounter < MaxErrors
    BY IOConfigAssumption DEF IInv, TypeOK, RetryInv
  <1>6. ChainInv'
    BY <1>1 DEF IInv, ChainInv, OneChainEvent, AnswersHold
  <1>7. CASE mPerformRestart /\ createDeviceController /\ tries' = tries + 1
    <2>1. /\ mController' \in Controllers /\ mController' # 0
          /\ controller' \in [Controllers -> ControllerState]
          /\ \A g \in Controllers : controller'[g].pc \notin {"none", "ended"} => g = mController'
          /\ n' \in [controllers : Nat, inits : Nat, faults : Nat]
          /\ mStarting' = TRUE
      BY <1>3, <1>7, CreateFacts
    <2>2. tries' \in Nat
      BY <1>5, <1>7
    <2>3. TypeOK'
      BY <1>1, <1>2, <2>1, <2>2 DEF IInv, TypeOK
    <2>4. BlockInv' /\ OneController'
      BY <1>2, <1>4, <2>1 DEF BlockInv, OneController
    <2>5. RetryInv'
      BY <1>1, <1>5, <1>7 DEF RetryInv
    <2> QED BY <1>6, <2>3, <2>4, <2>5 DEF IInv
  <1>8. CASE /\ mController' = 0 /\ mStarting' = FALSE
             /\ UNCHANGED <<controller, n, tries>>
    <2>1. TypeOK'
      BY <1>1, <1>2, <1>8 DEF IInv, TypeOK
    <2>2. BlockInv'
      BY <1>1, <1>2, <1>4 DEF BlockInv
    <2>3. OneController'
      BY <1>3, <1>8 DEF OneController
    <2>4. RetryInv'
      BY <1>1, <1>5, <1>8 DEF RetryInv
    <2> QED BY <1>6, <2>1, <2>2, <2>3, <2>4 DEF IInv
  <1> QED BY <1>7, <1>8 DEF deleteController

\* Ending and joining the thread, and the answer to an external event.
LEMMA EndKeepsIInv ==
    ASSUME IInv, end \/ join \/ destroy \/ setHandled
    PROVE  IInv'
  <1>1. /\ slaves' = slaves /\ mErrorCounter' = mErrorCounter /\ eventList' = eventList
        /\ mController' = mController /\ mStarting' = mStarting
        /\ mPerformRestart' = mPerformRestart /\ n' = n /\ tries' = tries
        /\ qi' = qi /\ qo' = qo /\ slave' = slave /\ asked' = asked /\ dropped' = dropped
        /\ overlap' = overlap /\ crashed' = crashed /\ refused' = refused
    BY DEF end, join, destroy, setHandled, adapters, history, block, list
  <1>2. mixedUp' \in BOOLEAN
    <2>1. mixedUp' = mixedUp \/ setHandled
      BY DEF end, join, destroy, history
    <2>2. setHandled => mixedUp' \in BOOLEAN
      BY DEF setHandled
    <2> QED BY <2>1, <2>2, Zenon DEF IInv, TypeOK
  <1>3. x' \in Position /\ (x'.pc \in Stopping => x.pc \in Stopping)
    <2>1. x \in Position
      BY DEF IInv, TypeOK
    <2>2. setHandled => x' \in Position /\ x'.pc = "idle"
      BY DEF setHandled, Idle, Position
    <2>3. end \/ join \/ destroy => x' \in Position /\ x.pc \in Stopping
      BY <2>1 DEF end, join, destroy, Position, Stopping
    <2> QED BY <2>2, <2>3 DEF Stopping
  <1>4. mController \in Controllers
    BY DEF end, join, destroy, setHandled, IInv, TypeOK, BlockInv
  <1>5. /\ controller' \in [Controllers -> ControllerState]
        /\ \A g \in Controllers : controller'[g].pc = controller[g].pc
    <2>1. controller \in [Controllers -> ControllerState]
      BY DEF IInv, TypeOK
    <2>2. CASE end
      BY <1>4, <2>1, <2>2 DEF end, ControllerState
    <2>3. CASE join
      BY <2>1, <2>3 DEF join
    <2>5. CASE destroy
      <3>1. PICK new : new = [controller[mController] EXCEPT !.destroyed = TRUE, !.mAlive = FALSE]
        OBVIOUS
      <3>2. controller' = [controller EXCEPT ![mController] = new]
        BY <1>4, <2>1, <2>5, <3>1 DEF destroy
      <3>3. new \in ControllerState /\ new.pc = controller[mController].pc
        BY <1>4, <2>1, <3>1 DEF ControllerState
      <3> QED BY <1>4, <2>1, <3>2, <3>3
    <2>4. CASE setHandled
      <3>1. x.handled \in BOOLEAN
        BY DEF IInv, TypeOK, Position
      <3>2. PICK new : new = [controller[mController] EXCEPT !.mNotificationHandled = x.handled]
        OBVIOUS
      <3>3. controller' = [controller EXCEPT ![mController] = new]
        BY <1>4, <2>1, <2>4, <3>2 DEF setHandled
      <3>4. new \in ControllerState /\ new.pc = controller[mController].pc
        BY <1>4, <2>1, <3>1, <3>2 DEF ControllerState
      <3> QED BY <1>4, <2>1, <3>3, <3>4
    <2> QED BY <2>2, <2>3, <2>4, <2>5
  <1>6. TypeOK'
    BY <1>1, <1>2, <1>3, <1>5 DEF IInv, TypeOK
  <1>7. BlockInv'
    BY <1>1, <1>3 DEF IInv, BlockInv, Stopping
  <1>8. RetryInv' /\ OneController'
    BY <1>1, <1>5 DEF IInv, RetryInv, OneController
  <1>9. ChainInv'
    BY <1>1 DEF IInv, ChainInv, OneChainEvent, AnswersHold
  <1> QED BY <1>6, <1>7, <1>8, <1>9 DEF IInv

-----------------------------------------------------------------------------
(* The slaves *)

\* What the steps of the slaves leave alone.
SlaveFrame ==
    /\ slaves' = slaves /\ mController' = mController /\ mStarting' = mStarting
    /\ mErrorCounter' = mErrorCounter /\ mPerformRestart' = mPerformRestart
    /\ controller' = controller /\ x' = x /\ asked' = asked /\ tries' = tries
    /\ dropped' = dropped /\ mixedUp' = mixedUp /\ overlap' = overlap /\ crashed' = crashed

\* A step of a slave that leaves the events and the adapters in order.
LEMMA SlaveKeepsIInv ==
    ASSUME IInv, SlaveFrame, EventsOK(eventList'), ChainInv', refused' \in Nat,
           n' \in [controllers : Nat, inits : Nat, faults : Nat],
           qi' \in [1 .. slaves -> BOOLEAN], qo' \in [1 .. slaves -> BOOLEAN],
           slave' \in [1 .. slaves -> [QO : BOOLEAN, mInitialized : BOOLEAN]],
           slaves > 0 => qi'[1] = qi[1]
    PROVE  IInv'
  <1>1. TypeOK'
    BY DEF SlaveFrame, IInv, TypeOK, EventsOK
  <1>2. BlockInv'
    BY DEF SlaveFrame, IInv, BlockInv
  <1>3. RetryInv' /\ OneController'
    BY DEF SlaveFrame, IInv, RetryInv, OneController
  <1> QED BY <1>1, <1>2, <1>3 DEF IInv

\* INIT of a slave: the event goes on down the chain, or turns round at its end with an
\* answer that speaks for the last slave alone.
LEMMA PassOnKeepsIInv ==
    ASSUME IInv, NEW i \in 1 .. slaves, Received("INIT", i),
           NEW q \in BOOLEAN, NEW ok \in BOOLEAN, passOn(i, q, ok),
           NEW state \in [QO : BOOLEAN, mInitialized : BOOLEAN],
           slave' = [slave EXCEPT ![i] = state],
           ok => state.mInitialized, state.QO => state.mInitialized,
           n' \in [controllers : Nat, inits : Nat, faults : Nat]
    PROVE  IInv'
  <1>1. SlaveFrame
    BY DEF passOn, SlaveFrame, block, history
  <1>2. /\ slaves \in Nat /\ qi \in [1 .. slaves -> BOOLEAN] /\ qo \in [1 .. slaves -> BOOLEAN]
        /\ slave \in [1 .. slaves -> [QO : BOOLEAN, mInitialized : BOOLEAN]]
        /\ refused \in Nat
    BY SlavesNat DEF IInv, TypeOK
  <1>3. PICK events : events = Tail(eventList)
    OBVIOUS
  <1>4. /\ EventsOK(events)
        /\ OneChainEvent(eventList) => \A k \in 1 .. Len(events) : events[k].ev = "external"
    BY <1>3, ReceivedFacts
  <1>5. slave' \in [1 .. slaves -> [QO : BOOLEAN, mInitialized : BOOLEAN]]
    BY <1>2
  <1>6. \A j \in 1 .. slaves : slave'[j].QO => slave'[j].mInitialized
    BY <1>2 DEF IInv, ChainInv
  <1>7. CASE i < slaves
    <2>1. PICK e : e = [ev |-> "INIT", node |-> i + 1]
      OBVIOUS
    <2>2. e \in Event /\ e.ev = "INIT" /\ e.node \in 1 .. slaves
      BY <1>2, <1>7, <2>1 DEF Event
    <2>3. addEvent(events, e) /\ qi' = [qi EXCEPT ![i + 1] = q] /\ qo' = qo
      BY <1>3, <1>7, <2>1 DEF passOn
    <2>4. /\ EventsOK(eventList')
          /\ (\A k \in 1 .. Len(events) : events[k].ev = "external") =>
                OneChainEvent(eventList')
      BY <1>2, <1>4, <2>2, <2>3, AddChain
    <2>5. (\A k \in 1 .. Len(events) : events[k].ev = "external") =>
             \A k \in 1 .. Len(eventList') : eventList'[k].ev # "INITO"
      <3>1. \A k \in 1 .. Len(eventList') :
               (k \in 1 .. Len(events) /\ eventList'[k] = events[k]) \/ eventList'[k] = e
        BY <1>2, <1>4, <2>2, <2>3, AddFacts
      <3> QED BY <2>2, <3>1
    <2>6. ChainInv'
      BY <1>1, <1>4, <1>6, <2>4, <2>5
      DEF SlaveFrame, IInv, ChainInv, OneChainEvent, AnswersHold
    <2>7. qi' \in [1 .. slaves -> BOOLEAN] /\ (slaves > 0 => qi'[1] = qi[1])
      <3>1. i + 1 \in 1 .. slaves /\ i + 1 # 1
        BY <1>2, <1>7
      <3> QED BY <1>2, <2>3, <3>1
    <2>8. refused' \in Nat
      BY <1>2, <1>4, <2>2, <2>3, AddFacts
    <2> QED BY <1>1, <1>2, <1>5, <2>3, <2>4, <2>6, <2>7, <2>8, SlaveKeepsIInv
  <1>8. CASE ~(i < slaves)
    <2>0. i = slaves
      BY <1>2, <1>8
    <2>1. PICK e : e = [ev |-> "INITO", node |-> i - 1]
      OBVIOUS
    <2>2. e \in Event /\ e.ev = "INITO" /\ e.node = slaves - 1 /\ e.node \in 0 .. slaves - 1
      BY <1>2, <2>0, <2>1 DEF Event
    <2>3. addEvent(events, e) /\ qi' = qi /\ qo' = [qo EXCEPT ![i] = ok]
      BY <1>3, <1>8, <2>1 DEF passOn
    <2>4. /\ EventsOK(eventList')
          /\ (\A k \in 1 .. Len(events) : events[k].ev = "external") =>
                OneChainEvent(eventList')
      BY <1>2, <1>4, <2>2, <2>3, AddChain
    <2>5. \A k \in 1 .. Len(eventList') :
             (k \in 1 .. Len(events) /\ eventList'[k] = events[k]) \/ eventList'[k] = e
      BY <1>2, <1>4, <2>2, <2>3, AddFacts
    <2>6. (\A k \in 1 .. Len(events) : events[k].ev = "external") => AnswersHold(eventList)'
      <3> SUFFICES ASSUME \A k \in 1 .. Len(events) : events[k].ev = "external",
                          NEW k \in 1 .. Len(eventList'), eventList'[k].ev = "INITO",
                          qo'[eventList'[k].node + 1],
                          NEW j \in eventList'[k].node + 1 .. slaves
                   PROVE  slave'[j].mInitialized
        BY <1>1 DEF SlaveFrame, AnswersHold
      <3>1. eventList'[k] = e
        BY <2>5
      <3>2. eventList'[k].node + 1 = slaves /\ j = slaves
        BY <1>2, <2>2, <3>1
      <3>3. ok
        BY <1>2, <2>0, <2>3, <3>2
      <3> QED BY <1>2, <2>0, <3>2, <3>3
    <2>7. OneChainEvent(eventList') => OneChainEvent(eventList)'
      BY DEF OneChainEvent
    <2>8. ChainInv'
      BY <1>1, <1>4, <1>6, <2>4, <2>6, <2>7 DEF SlaveFrame, IInv, ChainInv
    <2>9. qo' \in [1 .. slaves -> BOOLEAN]
      BY <1>2, <2>3
    <2>10. refused' \in Nat
      BY <1>2, <1>4, <2>2, <2>3, AddFacts
    <2> QED BY <1>1, <1>2, <1>5, <2>3, <2>4, <2>8, <2>9, <2>10, SlaveKeepsIInv
  <1> QED BY <1>7, <1>8

\* INIT with QI
LEMMA SlaveINITKeepsIInv ==
    ASSUME IInv, NEW i \in 1 .. slaves, slaveINIT(i)
    PROVE  IInv'
  <1>1. PICK ok \in BOOLEAN :
           /\ IF ok THEN UNCHANGED n ELSE Fault
           /\ slave' = [slave EXCEPT ![i] = [QO |-> ok, mInitialized |-> ok]]
           /\ passOn(i, TRUE, ok)
    BY DEF slaveINIT
  <1>2. PICK state : state = [QO |-> ok, mInitialized |-> ok]
    OBVIOUS
  <1>3. /\ state \in [QO : BOOLEAN, mInitialized : BOOLEAN]
        /\ state.mInitialized = ok /\ state.QO = ok
    BY <1>2
  <1>4. n' \in [controllers : Nat, inits : Nat, faults : Nat]
    <2>1. n' = n \/ n' = [n EXCEPT !.faults = @ + 1]
      BY <1>1 DEF Fault
    <2>2. n \in [controllers : Nat, inits : Nat, faults : Nat]
      BY DEF IInv, TypeOK
    <2> QED BY <2>1, <2>2
  <1>5. Received("INIT", i)
    BY DEF slaveINIT
  <1>6. ok => state.mInitialized
    BY <1>3
  <1>7. state.QO => state.mInitialized
    BY <1>3
  <1>8. slave' = [slave EXCEPT ![i] = state]
    BY <1>1, <1>2
  <1> QED BY <1>1, <1>3, <1>4, <1>5, <1>6, <1>7, <1>8, PassOnKeepsIInv

\* INIT without QI
LEMMA SlaveDeINITKeepsIInv ==
    ASSUME IInv, NEW i \in 1 .. slaves, slaveDeINIT(i)
    PROVE  IInv'
  <1>1. /\ Received("INIT", i) /\ passOn(i, FALSE, FALSE) /\ n' = n
        /\ slave' = [slave EXCEPT ![i].QO = FALSE]
    BY DEF slaveDeINIT
  <1>2. /\ slave \in [1 .. slaves -> [QO : BOOLEAN, mInitialized : BOOLEAN]]
        /\ n \in [controllers : Nat, inits : Nat, faults : Nat]
    BY DEF IInv, TypeOK
  <1>3. PICK state : state = [slave[i] EXCEPT !.QO = FALSE]
    OBVIOUS
  <1>4. state \in [QO : BOOLEAN, mInitialized : BOOLEAN] /\ state.QO = FALSE
    BY <1>2, <1>3
  <1>5. slave' = [slave EXCEPT ![i] = state]
    BY <1>1, <1>2, <1>3
  <1>6. n' \in [controllers : Nat, inits : Nat, faults : Nat]
    BY <1>1, <1>2
  <1>7. state.QO => state.mInitialized
    BY <1>4
  <1> QED BY <1>1, <1>4, <1>5, <1>6, <1>7, PassOnKeepsIInv

\* INITO of a slave: the answer of the slaves below, and the slave's own.
LEMMA SlaveINITOKeepsIInv ==
    ASSUME IInv, NEW i \in 1 .. slaves, slaveINITO(i)
    PROVE  IInv'
  <1>1. /\ Received("INITO", i)
        /\ qo' = [qo EXCEPT ![i] = qo[i + 1] /\ slave[i].QO]
        /\ addEvent(Tail(eventList), [ev |-> "INITO", node |-> i - 1])
        /\ qi' = qi /\ slave' = slave /\ n' = n
    BY DEF slaveINITO
  <1>2. SlaveFrame
    BY DEF slaveINITO, SlaveFrame, block, history
  <1>3. /\ slaves \in Nat /\ qi \in [1 .. slaves -> BOOLEAN] /\ qo \in [1 .. slaves -> BOOLEAN]
        /\ slave \in [1 .. slaves -> [QO : BOOLEAN, mInitialized : BOOLEAN]]
        /\ n \in [controllers : Nat, inits : Nat, faults : Nat] /\ refused \in Nat
    BY SlavesNat DEF IInv, TypeOK
  <1>4. PICK events : events = Tail(eventList)
    OBVIOUS
  <1>5. /\ EventsOK(events)
        /\ OneChainEvent(eventList) => \A k \in 1 .. Len(events) : events[k].ev = "external"
        /\ eventList[1].ev = "INITO" /\ eventList[1].node = i /\ 1 \in 1 .. Len(eventList)
    BY <1>1, <1>4, ReceivedFacts
  <1>6. i \in 0 .. slaves - 1 /\ i + 1 \in 1 .. slaves
    <2>1. i \in 0 .. slaves - 1
      BY <1>5 DEF IInv, TypeOK
    <2> QED BY <1>3, <2>1
  <1>7. PICK e : e = [ev |-> "INITO", node |-> i - 1]
    OBVIOUS
  <1>8. e \in Event /\ e.ev = "INITO" /\ e.node = i - 1 /\ e.node \in 0 .. slaves - 1
    BY <1>3, <1>7 DEF Event
  <1>9. addEvent(events, e)
    BY <1>1, <1>4, <1>7
  <1>10. /\ EventsOK(eventList')
         /\ (\A k \in 1 .. Len(events) : events[k].ev = "external") => OneChainEvent(eventList')
    BY <1>3, <1>5, <1>8, <1>9, AddChain
  <1>11. /\ refused' \in Nat
         /\ \A k \in 1 .. Len(eventList') :
               (k \in 1 .. Len(events) /\ eventList'[k] = events[k]) \/ eventList'[k] = e
    BY <1>3, <1>5, <1>8, <1>9, AddFacts
  <1>12. PICK b \in BOOLEAN : b = (qo[i + 1] /\ slave[i].QO)
    OBVIOUS
  <1>13. qo' = [qo EXCEPT ![i] = b] /\ (b => qo[i + 1] /\ slave[i].QO)
    BY <1>1, <1>12
  <1>14. qo' \in [1 .. slaves -> BOOLEAN] /\ qo'[i] = b
    BY <1>3, <1>13
  <1>15. AnswersHold(eventList) /\ (\A k \in 1 .. Len(events) : events[k].ev = "external")
            => AnswersHold(eventList)'
    <2> SUFFICES ASSUME AnswersHold(eventList),
                        \A k \in 1 .. Len(events) : events[k].ev = "external",
                        NEW k \in 1 .. Len(eventList'), eventList'[k].ev = "INITO",
                        qo'[eventList'[k].node + 1],
                        NEW j \in eventList'[k].node + 1 .. slaves
                 PROVE  slave[j].mInitialized
      BY <1>1, <1>2 DEF SlaveFrame, AnswersHold
    <2>1. eventList'[k] = e
      BY <1>11
    <2>2. eventList'[k].node + 1 = i /\ j \in i .. slaves
      BY <1>3, <1>8, <2>1
    <2>3. qo[i + 1] /\ slave[i].QO
      BY <1>13, <1>14, <2>2
    <2>4. CASE j = i
      BY <2>3, <2>4 DEF IInv, ChainInv
    <2>5. CASE j # i
      <3>1. j \in i + 1 .. slaves
        BY <1>3, <2>2, <2>5
      <3> QED BY <1>5, <2>3, <3>1 DEF AnswersHold
    <2> QED BY <2>4, <2>5
  <1>16. OneChainEvent(eventList') => OneChainEvent(eventList)'
    BY DEF OneChainEvent
  <1>17. ChainInv'
    BY <1>1, <1>2, <1>5, <1>10, <1>15, <1>16 DEF SlaveFrame, IInv, ChainInv
  <1>18. n' \in [controllers : Nat, inits : Nat, faults : Nat]
    BY <1>1, <1>3
  <1> QED BY <1>1, <1>2, <1>3, <1>10, <1>11, <1>14, <1>17, <1>18, SlaveKeepsIInv

\* MAP
LEMMA SlaveMAPKeepsIInv ==
    ASSUME IInv, NEW i \in 1 .. slaves, slaveMAP(i)
    PROVE  IInv'
  <1>1. /\ SlaveFrame /\ eventList' = eventList /\ qi' = qi /\ qo' = qo /\ n' = n
        /\ slave' = [slave EXCEPT ![i].QO = slave[i].mInitialized] /\ refused' = refused
    BY DEF slaveMAP, SlaveFrame, block, history, list
  <1>2. /\ qi \in [1 .. slaves -> BOOLEAN] /\ qo \in [1 .. slaves -> BOOLEAN]
        /\ slave \in [1 .. slaves -> [QO : BOOLEAN, mInitialized : BOOLEAN]]
        /\ n \in [controllers : Nat, inits : Nat, faults : Nat]
        /\ EventsOK(eventList) /\ refused \in Nat
    BY DEF IInv, TypeOK, EventsOK
  <1>3. PICK state : state = [slave[i] EXCEPT !.QO = slave[i].mInitialized]
    OBVIOUS
  <1>4. /\ state \in [QO : BOOLEAN, mInitialized : BOOLEAN]
        /\ state.QO = state.mInitialized /\ state.mInitialized = slave[i].mInitialized
    BY <1>2, <1>3
  <1>5. slave' = [slave EXCEPT ![i] = state]
    BY <1>1, <1>2, <1>3
  <1>6. /\ slave' \in [1 .. slaves -> [QO : BOOLEAN, mInitialized : BOOLEAN]]
        /\ slave'[i] = state /\ \A j \in 1 .. slaves : j # i => slave'[j] = slave[j]
    BY <1>2, <1>4, <1>5
  <1>7. \A j \in 1 .. slaves : slave'[j].mInitialized = slave[j].mInitialized
    BY <1>4, <1>6
  <1>8. \A j \in 1 .. slaves : slave'[j].QO => slave'[j].mInitialized
    BY <1>4, <1>6 DEF IInv, ChainInv
  <1>9. AnswersHold(eventList) => AnswersHold(eventList)'
    <2> SUFFICES ASSUME AnswersHold(eventList), NEW k \in 1 .. Len(eventList),
                        eventList[k].ev = "INITO", qo[eventList[k].node + 1],
                        NEW j \in eventList[k].node + 1 .. slaves
                 PROVE  slave'[j].mInitialized
      BY <1>1 DEF SlaveFrame, AnswersHold
    <2>1. eventList[k].node \in 0 .. slaves - 1 /\ slaves \in Nat
      BY <1>2, SlavesNat DEF EventsOK
    <2>2. j \in 1 .. slaves
      BY <2>1
    <2> QED BY <1>7, <2>2 DEF AnswersHold
  <1>10. ChainInv'
    BY <1>1, <1>8, <1>9 DEF SlaveFrame, IInv, ChainInv, OneChainEvent
  <1>11. n' \in [controllers : Nat, inits : Nat, faults : Nat] /\ EventsOK(eventList')
    BY <1>1, <1>2
  <1> QED BY <1>1, <1>2, <1>6, <1>10, <1>11, SlaveKeepsIInv

-----------------------------------------------------------------------------
(* The results *)

\* A step that only finds the program in an undefined state, and a step that does nothing.
LEMMA CrashKeepsIInv ==
    ASSUME IInv,
           \/ Crash("null controller") \/ Crash("running thread")
           \/ UNCHANGED vars
    PROVE  IInv'
  <1>1. /\ slaves' = slaves /\ mController' = mController /\ mStarting' = mStarting
        /\ mErrorCounter' = mErrorCounter /\ mPerformRestart' = mPerformRestart
        /\ controller' = controller /\ eventList' = eventList
        /\ qi' = qi /\ qo' = qo /\ slave' = slave /\ x' = x /\ n' = n
        /\ asked' = asked /\ tries' = tries /\ dropped' = dropped /\ mixedUp' = mixedUp
        /\ overlap' = overlap /\ refused' = refused
        /\ crashed' \in {crashed, "null controller", "running thread"}
    BY DEF Crash, vars, block, adapters, history, list
  <1>2. TypeOK'
    BY <1>1 DEF IInv, TypeOK
  <1>3. BlockInv' /\ RetryInv' /\ OneController'
    BY <1>1 DEF IInv, BlockInv, RetryInv, OneController
  <1>4. ChainInv'
    BY <1>1 DEF IInv, ChainInv, OneChainEvent, AnswersHold
  <1> QED BY <1>2, <1>3, <1>4 DEF IInv

\* Initially there is no controller and no event.
LEMMA InitIInv == Init => IInv
  <1> SUFFICES ASSUME Init PROVE IInv
    OBVIOUS
  <1> USE IOConfigAssumption DEF Init
  <1>1. /\ slaves \in SlaveCounts /\ slaves \in Nat
        /\ eventList \in Seq(Event) /\ Len(eventList) = 0
    OBVIOUS
  <1>2. controller \in [Controllers -> ControllerState]
    BY DEF Unborn, ControllerState, Notification
  <1>3. x \in Position /\ n \in [controllers : Nat, inits : Nat, faults : Nat] /\ x.pc = "idle"
    BY DEF Idle, Position
  <1>4. /\ qi \in [1 .. slaves -> BOOLEAN] /\ qo \in [1 .. slaves -> BOOLEAN]
        /\ slave \in [1 .. slaves -> [QO : BOOLEAN, mInitialized : BOOLEAN]]
        /\ slaves > 0 => ~qi[1]
    BY <1>1
  <1>5. TypeOK
    <2>1. /\ mController \in Controllers \cup {0} /\ mErrorCounter \in Nat /\ tries \in Nat
          /\ refused \in Nat /\ crashed \in {"no", "null controller", "running thread"}
      OBVIOUS
    <2>2. /\ mStarting \in BOOLEAN /\ mPerformRestart \in BOOLEAN /\ asked \in BOOLEAN
          /\ dropped \in BOOLEAN /\ mixedUp \in BOOLEAN /\ overlap \in BOOLEAN
      OBVIOUS
    <2>3. 1 .. Len(eventList) = {}
      BY <1>1
    <2> HIDE DEF Init
    <2> QED BY <1>1, <1>2, <1>3, <1>4, <2>1, <2>2, <2>3 DEF TypeOK
  <1>6. BlockInv
    BY <1>3, <1>4 DEF BlockInv
  <1>7. RetryInv /\ OneController
    BY DEF RetryInv, OneController, Unborn
  <1>8. ChainInv
    <2>1. \A i \in 1 .. slaves : ~slave[i].QO
      OBVIOUS
    <2>2. 1 .. Len(eventList) = {}
      BY <1>1
    <2> QED BY <2>1, <2>2 DEF ChainInv, OneChainEvent, AnswersHold
  <1> QED BY <1>5, <1>6, <1>7, <1>8 DEF IInv

\* The inductive invariant.
THEOREM IOConfigInductive == Spec => []IInv
  <1>1. IInv /\ [Next]_vars => IInv'
    <2> SUFFICES ASSUME IInv, [Next]_vars PROVE IInv'
      OBVIOUS
    <2>1. ASSUME NEW g \in Controllers, ThreadStep(g) \/ HardwareStep(g) PROVE IInv'
      <3>1. CASE threadOfDestroyed(g)
        BY <3>1, CrashKeepsIInv DEF threadOfDestroyed
      <3> QED BY <2>1, <3>1, ThreadKeepsIInv DEF ThreadStep
    <2>2. CASE ExecutionStep
      <3>1. CASE \E i \in 1 .. slaves : SlaveStep(i)
        BY <3>1, SlaveINITKeepsIInv, SlaveDeINITKeepsIInv, SlaveINITOKeepsIInv DEF SlaveStep
      <3>2. CASE handledByNobody \/ stoppedTwice
        BY <3>2, CrashKeepsIInv DEF handledByNobody, stoppedTwice
      <3> QED
        BY <2>2, <3>1, <3>2, ExternalKeepsIInv, INITOKeepsIInv, EndKeepsIInv, DeleteKeepsIInv
        DEF ExecutionStep
    <2>3. CASE ApplicationStep
      <3>1. ASSUME NEW i \in 1 .. slaves, slaveWithoutController(i) PROVE IInv'
        BY <3>1, CrashKeepsIInv DEF slaveWithoutController
      <3> QED
        BY <2>3, <3>1, INITKeepsIInv, DeINITKeepsIInv, SlaveMAPKeepsIInv DEF ApplicationStep
    <2>4. CASE UNCHANGED vars
      BY <2>4, CrashKeepsIInv
    <2> QED BY <2>1, <2>2, <2>3, <2>4 DEF Next
  <1> QED BY <1>1, InitIInv, PTL DEF Spec

\* Type correctness of block, controllers, adapters and events.
THEOREM IOConfigTypeCorrect == Spec => []TypeOK
  BY IOConfigInductive, PTL DEF IInv

\* A controller whose thread has not ended is the one the block has, over all INIT events,
\* errors and retries, and also while a controller is deleted under its thread.
THEOREM IOConfigOneController == Spec => []OneController
  BY IOConfigInductive, PTL DEF IInv

\* No more than smMaxErrors controllers are created before the application hears of it.
THEOREM IOConfigRetriesAreBounded == Spec => []RetriesAreBounded
  <1>1. IInv => RetriesAreBounded
    BY DEF IInv, RetryInv, RetriesAreBounded
  <1> QED BY <1>1, IOConfigInductive, PTL

\* A chain of slaves of any length confirms its start only when every slave is initialized.
THEOREM IOConfigConfirmedMeansAllUp == Spec => []ConfirmedMeansAllUp
  <1>1. IInv => ConfirmedMeansAllUp
    <2> SUFFICES ASSUME IInv, NEW k \in 1 .. Len(eventList),
                        eventList[k] = [ev |-> "INITO", node |-> 0], qo[1], ~overlap,
                        NEW i \in 1 .. slaves
                 PROVE  slave[i].mInitialized
      BY DEF ConfirmedMeansAllUp
    <2>1. eventList[k].ev = "INITO" /\ eventList[k].node + 1 = 1
      OBVIOUS
    <2> QED BY <2>1 DEF IInv, ChainInv, AnswersHold
  <1> QED BY <1>1, IOConfigInductive, PTL
=============================================================================
