----------------------------- MODULE ForteThread -----------------------------
(***************************************************************************)
(* arch::CThreadBase, the thread object under the event chain executors,   *)
(* the timer and the other event handlers: start, stop, end and join       *)
(* called by any number of controlling threads, and runThread executed by  *)
(* the created thread.  Every access to a member that another thread also  *)
(* uses (handle, alive flag, join semaphore, mutex) is a step of its own.  *)
(***************************************************************************)
EXTENDS Naturals, FiniteSets

CONSTANTS
    Controllers,    \* threads that use the object
    NoOne,          \* nobody holds mThreadMutex
    SelfEnding,     \* whether run() may return on its own accord
    MaxThreads,     \* bound: threads created
    MaxCalls        \* bound: calls of start, stop, end and join

ASSUME ThreadAssumption ==
    /\ NoOne \notin Controllers
    /\ SelfEnding \in BOOLEAN
    /\ MaxThreads \in Nat \ {0}
    /\ MaxCalls \in Nat

VARIABLES
    mThreadHandle,  \* 0 is the null handle, n the n-th thread created
    mAlive,
    mJoinSem,       \* mPosted of the binary semaphore
    mThreadMutex,   \* who holds it
    threads,        \* where each thread is
    created,        \* threads created so far
    cpc,            \* where each controller is
    within,         \* the call a controller is in
    joining,        \* the thread a controller in join found behind the handle
    calls,          \* calls so far
    refused         \* history: createThread has failed once

object  == <<mThreadHandle, mAlive, mJoinSem>>
control == <<within, joining, calls>>
vars == <<object, mThreadMutex, threads, created, cpc, control, refused>>

Null == 0
Thread == 1 .. MaxThreads

Init ==
    /\ mThreadHandle = Null
    /\ mAlive = FALSE
    /\ mJoinSem = FALSE
    /\ mThreadMutex = NoOne
    /\ threads = [t \in Thread |-> "unborn"]
    /\ created = 0
    /\ cpc = [c \in Controllers |-> "idle"]
    /\ within = [c \in Controllers |-> "none"]
    /\ joining = [c \in Controllers |-> Null]
    /\ calls = 0
    /\ refused = FALSE

Goto(c, place) == cpc' = [cpc EXCEPT ![c] = place]

-----------------------------------------------------------------------------
(* Calls.  start and end enter the critical region of mThreadMutex first. *)

Call(c, op) ==
    /\ cpc[c] = "idle"
    /\ calls < MaxCalls
    /\ calls' = calls + 1
    /\ within' = [within EXCEPT ![c] = op]
    /\ Goto(c, CASE op \in {"start", "end"} -> "lock"
                 [] op = "stop" -> "stop"
                 [] op = "join" -> "join")
    /\ UNCHANGED <<object, mThreadMutex, threads, created, joining, refused>>

\* mutant: start() and end() without their critical region
lockNothing(c) ==
    /\ cpc[c] = "lock"
    /\ UNCHANGED mThreadMutex
    /\ Goto(c, within[c])
    /\ UNCHANGED <<object, threads, created, control, refused>>

lock(c) ==
    /\ cpc[c] = "lock"
    /\ mThreadMutex = NoOne
    /\ mThreadMutex' = c
    /\ Goto(c, within[c])
    /\ UNCHANGED <<object, threads, created, control, refused>>

\* Leaves the critical region, if the call has one, and returns.
return(c) ==
    /\ cpc[c] = "return"
    /\ mThreadMutex' = IF mThreadMutex = c THEN NoOne ELSE mThreadMutex
    /\ within' = [within EXCEPT ![c] = "none"]
    /\ joining' = [joining EXCEPT ![c] = Null]
    /\ Goto(c, "idle")
    /\ UNCHANGED <<object, threads, created, calls, refused>>

\* mutant: createThread does not look at the result of pthread_create and returns what the
\* failed call left in retVal
startUnchecked(c) ==
    /\ cpc[c] = "start"
    /\ \/ /\ mThreadHandle # Null
          /\ Goto(c, "return")
          /\ UNCHANGED <<mThreadHandle, threads, created>>
       \/ /\ mThreadHandle = Null
          /\ created < MaxThreads
          /\ created' = created + 1
          /\ threads' = [threads EXCEPT ![created + 1] = "created"]
          /\ Goto(c, "assign")
          /\ UNCHANGED mThreadHandle
       \/ /\ mThreadHandle = Null
          /\ created < MaxThreads
          /\ mThreadHandle' = created + 1
          /\ Goto(c, "return")
          /\ UNCHANGED <<threads, created>>
    /\ UNCHANGED <<mAlive, mJoinSem, mThreadMutex, control, refused>>

\* start(): with a null handle, createThread; the new thread may run at once.
start(c) ==
    /\ cpc[c] = "start"
    /\ \/ /\ mThreadHandle # Null
          /\ Goto(c, "return")
          /\ UNCHANGED <<mJoinSem, threads, created, refused>>
       \/ /\ mThreadHandle = Null
          /\ created < MaxThreads
          /\ created' = created + 1
          /\ threads' = [threads EXCEPT ![created + 1] = "created"]
          /\ Goto(c, "assign")
          /\ UNCHANGED <<mJoinSem, refused>>
       \/ /\ mThreadHandle = Null       \* the operating system refuses a thread
          /\ mJoinSem' = TRUE
          /\ refused' = TRUE
          /\ Goto(c, "return")
          /\ UNCHANGED <<threads, created>>
    /\ UNCHANGED <<mThreadHandle, mAlive, mThreadMutex, control>>

\* mThreadHandle = createThread(mStackSize).  (Once the thread exists, createThread answers
\* null only when pthread_attr_destroy fails, which POSIX allows for attributes that were
\* never initialised; here pthread_attr_init has succeeded before.)
assignHandle(c) ==
    /\ cpc[c] = "assign"
    /\ mThreadHandle' = created
    /\ Goto(c, "return")
    /\ UNCHANGED <<mAlive, mJoinSem, mThreadMutex, threads, created, control, refused>>

\* stop(), called on its own or by end()
AfterStop(c) == IF within[c] = "end" THEN "join" ELSE "return"

stop(c) ==
    /\ cpc[c] = "stop"
    /\ Goto(c, IF mThreadHandle # Null THEN "setAlive" ELSE AfterStop(c))
    /\ UNCHANGED <<object, mThreadMutex, threads, created, control, refused>>

setAliveFalse(c) ==
    /\ cpc[c] = "setAlive"
    /\ mAlive' = FALSE
    /\ Goto(c, AfterStop(c))
    /\ UNCHANGED <<mThreadHandle, mJoinSem, mThreadMutex, threads, created, control, refused>>

\* end(): with a handle, stop() and join()
end(c) ==
    /\ cpc[c] = "end"
    /\ Goto(c, IF mThreadHandle # Null THEN "stop" ELSE "return")
    /\ UNCHANGED <<object, mThreadMutex, threads, created, control, refused>>

\* join(), called on its own or by end(): with a handle, wait for the semaphore
join(c) ==
    /\ cpc[c] = "join"
    /\ Goto(c, IF mThreadHandle # Null THEN "wait" ELSE "return")
    /\ joining' = [joining EXCEPT ![c] = mThreadHandle]
    /\ UNCHANGED <<object, mThreadMutex, threads, created, within, calls, refused>>

\* mJoinSem.waitIndefinitely()
joinWait(c) ==
    /\ cpc[c] = "wait"
    /\ mJoinSem
    /\ mJoinSem' = FALSE
    /\ Goto(c, "allowMany")
    /\ UNCHANGED <<mThreadHandle, mAlive, mThreadMutex, threads, created, control, refused>>

\* mutant: the semaphore is not posted again
allowManyJoinsNot(c) ==
    /\ cpc[c] = "allowMany"
    /\ Goto(c, "return")
    /\ UNCHANGED <<object, mThreadMutex, threads, created, control, refused>>

\* mJoinSem.inc(); // allow many joins
allowManyJoins(c) ==
    /\ cpc[c] = "allowMany"
    /\ mJoinSem' = TRUE
    /\ Goto(c, "return")
    /\ UNCHANGED <<mThreadHandle, mAlive, mThreadMutex, threads, created, control, refused>>

ControllerStep(c) ==
    \/ lock(c) \/ start(c) \/ assignHandle(c) \/ stop(c) \/ setAliveFalse(c) \/ end(c)
    \/ join(c) \/ joinWait(c) \/ allowManyJoins(c) \/ return(c)

-----------------------------------------------------------------------------
(* The created thread: runThread *)

setAliveTrue(t) ==
    /\ threads[t] = "created"
    /\ mAlive' = TRUE
    /\ threads' = [threads EXCEPT ![t] = "run"]
    /\ UNCHANGED <<mThreadHandle, mJoinSem, mThreadMutex, created, cpc, control, refused>>

\* run() is left when it finds isAlive() false ...
leaveRun(t) ==
    /\ threads[t] = "run"
    /\ ~mAlive
    /\ threads' = [threads EXCEPT ![t] = "left"]
    /\ UNCHANGED <<object, mThreadMutex, created, cpc, control, refused>>

\* ... or on its own accord.
selfEnd(t) ==
    /\ SelfEnding
    /\ threads[t] = "run"
    /\ threads' = [threads EXCEPT ![t] = "left"]
    /\ UNCHANGED <<object, mThreadMutex, created, cpc, control, refused>>

\* setAlive(false)
clearAlive(t) ==
    /\ threads[t] = "left"
    /\ mAlive' = FALSE
    /\ threads' = [threads EXCEPT ![t] = "clearHandle"]
    /\ UNCHANGED <<mThreadHandle, mJoinSem, mThreadMutex, created, cpc, control, refused>>

\* mThreadHandle = nullHandle
clearHandle(t) ==
    /\ threads[t] = "clearHandle"
    /\ mThreadHandle' = Null
    /\ threads' = [threads EXCEPT ![t] = "post"]
    /\ UNCHANGED <<mAlive, mJoinSem, mThreadMutex, created, cpc, control, refused>>

\* mutant: the semaphore is posted before run() is called
postEarly(t) ==
    /\ threads[t] \in {"run", "post"}
    /\ mJoinSem' = TRUE
    /\ threads' = [threads EXCEPT ![t] = IF @ = "post" THEN "dead" ELSE @]
    /\ UNCHANGED <<mThreadHandle, mAlive, mThreadMutex, created, cpc, control, refused>>

\* mJoinSem.inc()
post(t) ==
    /\ threads[t] = "post"
    /\ mJoinSem' = TRUE
    /\ threads' = [threads EXCEPT ![t] = "dead"]
    /\ UNCHANGED <<mThreadHandle, mAlive, mThreadMutex, created, cpc, control, refused>>

RunThread(t) ==
    setAliveTrue(t) \/ leaveRun(t) \/ clearAlive(t) \/ clearHandle(t) \/ post(t)

-----------------------------------------------------------------------------
Operations == {"start", "stop", "end", "join"}

Next ==
    \/ \E c \in Controllers : ControllerStep(c) \/ \E op \in Operations : Call(c, op)
    \/ \E t \in Thread : RunThread(t) \/ selfEnd(t)

\* The operating system runs every thread that can run, and run() looks at isAlive()
\* again and again.  Nobody has to make a call, and run() need not end on its own.
Fairness ==
    /\ \A c \in Controllers : WF_vars(ControllerStep(c))
    /\ \A t \in Thread : WF_vars(RunThread(t))

Spec == Init /\ [][Next]_vars
FairSpec == Spec /\ Fairness

-----------------------------------------------------------------------------
(* Properties *)

Finished(t) == threads[t] \in {"post", "dead"}

\* Types of the members of CThreadBase.  The handle, and the one a joining controller found,
\* is null or that of a thread that has been created.
TypeOK ==
    /\ mThreadHandle \in 0 .. created
    /\ mAlive \in BOOLEAN
    /\ mJoinSem \in BOOLEAN
    /\ mThreadMutex \in Controllers \cup {NoOne}
    /\ threads \in [Thread -> {"unborn", "created", "run", "left", "clearHandle", "post",
                               "dead"}]
    /\ created \in 0 .. MaxThreads
    /\ cpc \in [Controllers -> {"idle", "lock", "start", "assign", "stop", "setAlive", "end",
                                "join", "wait", "allowMany", "return"}]
    /\ within \in [Controllers -> Operations \cup {"none"}]
    /\ joining \in [Controllers -> 0 .. created]
    /\ calls \in 0 .. MaxCalls
    /\ refused \in BOOLEAN

\* What mThreadMutex is there for ("If two threads call start() at the same time, the
\* thread will be created twice"): no thread is created, let alone runs, while an earlier
\* one has not finished, however the calls of the controllers interleave with the end of
\* the thread.
OneThreadAtATime ==
    \A t, u \in Thread :
        t # u /\ threads[t] # "unborn" /\ threads[u] # "unborn" => Finished(t) \/ Finished(u)

\* join() on the first thread of the object does not return before that thread has left
\* run(), unless createThread failed before.  (The semaphore stays posted afterwards:
\* nothing of the kind holds for the threads that follow.)
FirstJoinWaits ==
    \A c \in Controllers :
        cpc[c] = "allowMany" /\ joining[c] = 1 /\ ~refused => Finished(1)

\* "allow many joins": every controller that waits for a thread is released when it has
\* ended, not only the first one the binary semaphore lets through.
EveryJoinerReleased ==
    \A c \in Controllers, t \in Thread :
        (cpc[c] = "wait" /\ joining[c] = t /\ threads[t] = "dead") ~> cpc[c] # "wait"

\* What the documentation of end() says: it "immediately stops the execution of the
\* thread (setting alive to false) and waits till this is finished".
EndReturns ==
    \A c \in Controllers : within[c] = "end" ~> within[c] # "end"
=============================================================================
