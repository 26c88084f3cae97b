---------------------------- MODULE TimerHandler ----------------------------
(***************************************************************************)
(* CTimerHandler: function blocks ask for one event after an interval or   *)
(* for one event per interval.  Requests are collected in two lists, each  *)
(* behind its own mutex, by the thread the blocks run in; the timer thread *)
(* works them into its own list, sorted by time, once per tick.            *)
(* A critical region is one step, except that of processAddList, which     *)
(* triggers blocks on the way.                                             *)
(***************************************************************************)
EXTENDS Integers, Sequences, FiniteSets

CONSTANTS
    FB,             \* the event source function blocks
    NoEntry,        \* no call of register is under way
    UnitsPerTick,   \* scmTimeToTimerUnit
    UInt32,         \* number of values of TForteUInt32
    ChainCap,       \* how many started event chains the executing thread holds
    MaxTime         \* bound: ticks

ASSUME TimerAssumption ==
    /\ UnitsPerTick \in Nat \ {0}
    /\ UInt32 \in Nat \ {0, 1}
    /\ ChainCap \in Nat
    /\ MaxTime \in Nat

VARIABLES
    mForteTime,
    mTimedFBList,       \* sorted by mTimeOut
    mAddFBList,
    waitingSince,       \* history: the tick since which mAddFBList has entries
    mRemoveFBList,
    triggered,          \* local variable of processTimedFBList
    kpc,                \* where the timer thread is
    call,               \* the entry a register call is about to hand over
    chains,             \* event chains started and not yet executed
    overrun             \* history: blocks whose event the executing thread dropped

timerVars == <<mForteTime, mTimedFBList, mAddFBList, waitingSince, mRemoveFBList, triggered,
               kpc, call, chains, overrun>>

OneShot == 0        \* scmOneShotIndicator
Entry == [mTimedFB : FB, mTimeOut : Nat, mInterval : Nat]

TimerInit ==
    /\ mForteTime = 0
    /\ mTimedFBList = <<>>
    /\ mAddFBList = <<>>
    /\ waitingSince = 0
    /\ mRemoveFBList = <<>>
    /\ triggered = <<>>
    /\ kpc = "sleep"
    /\ call = NoEntry
    /\ chains = <<>>
    /\ overrun = {}

-----------------------------------------------------------------------------
(* Called by function blocks *)

\* Whole ticks, at least one, cut to 32 bits.
convertIntervalToTimerHandlerUnits(t) ==
    LET interval == t \div UnitsPerTick
    IN  IF interval > 0 THEN interval % UInt32 ELSE 1

\* registerOneShotTimedFB and registerPeriodicTimedFB up to the critical region: the
\* time of the runtime is read without protection.
registerTimedFB(fb, t, periodic) ==
    LET interval == convertIntervalToTimerHandlerUnits(t)
    IN  /\ call = NoEntry
        /\ call' = [mTimedFB  |-> fb,
                    mTimeOut  |-> mForteTime + interval,
                    mInterval |-> IF periodic THEN interval ELSE OneShot]
        /\ UNCHANGED <<mForteTime, mTimedFBList, mAddFBList, waitingSince, triggered, kpc,
                       chains, overrun>>

\* The critical region of mAddListSync, which processAddList holds while it is adding.
addToAddFBList ==
    /\ call # NoEntry
    /\ kpc # "adding"
    /\ mAddFBList' = Append(mAddFBList, call)
    /\ waitingSince' = IF mAddFBList = <<>> THEN mForteTime ELSE waitingSince
    /\ call' = NoEntry
    /\ UNCHANGED <<mForteTime, mTimedFBList, mRemoveFBList, triggered, kpc, chains, overrun>>

unregisterTimedFB(fb) == mRemoveFBList' = Append(mRemoveFBList, fb)

-----------------------------------------------------------------------------
(* The timer thread: nextTick *)

\* std::upper_bound: how many entries lie before the first one later than time
upperBound(list, time) ==
    CHOOSE k \in 0 .. Len(list) :
        /\ \A i \in 1 .. k : list[i].mTimeOut <= time
        /\ k < Len(list) => list[k + 1].mTimeOut > time

\* mutant: a new entry goes to the end of the list
addTimedFBEntryAtEnd(list, entry) == Append(list, entry)

addTimedFBEntry(list, entry) ==
    LET k == upperBound(list, entry.mTimeOut)
    IN  SubSeq(list, 1, k) \o <<entry>> \o SubSeq(list, k + 1, Len(list))

\* mutant: the limit of the executing thread's list is not observed
startNewEventChainUnbounded(fb) == chains' = Append(chains, fb) /\ UNCHANGED overrun

\* mDeviceExecution.startNewEventChain; the executing thread drops what it cannot hold.
startNewEventChain(fb) ==
    IF Len(chains) < ChainCap
    THEN chains' = Append(chains, fb) /\ UNCHANGED overrun
    ELSE overrun' = overrun \cup {fb} /\ UNCHANGED chains

\* Starts the chain, and puts a periodic block back into the list.
triggerTimedFB(entry) ==
    /\ startNewEventChain(entry.mTimedFB)
    /\ mTimedFBList' =
          IF entry.mInterval = OneShot
          THEN mTimedFBList
          ELSE addTimedFBEntry(mTimedFBList,
                               [entry EXCEPT !.mTimeOut = mForteTime + entry.mInterval])

nextTick ==
    /\ kpc = "sleep"
    /\ mForteTime < MaxTime
    /\ mForteTime' = mForteTime + 1
    /\ kpc' = "remove"
    /\ UNCHANGED <<mTimedFBList, mAddFBList, waitingSince, mRemoveFBList, triggered, call,
                   chains, overrun>>

\* The positions in the list of the blocks that nobody wants removed.
staying ==
    {i \in 1 .. Len(mTimedFBList) :
        \A j \in 1 .. Len(mRemoveFBList) : mRemoveFBList[j] # mTimedFBList[i].mTimedFB}

\* if (!mRemoveFBList.empty()) processRemoveList(): removeTimedFB for every block listed.
\* std::remove_if leaves the other entries in their order.
processRemoveList ==
    /\ kpc = "remove"
    /\ \E pos \in [1 .. Cardinality(staying) -> staying] :
          /\ \A i, j \in DOMAIN pos : i < j => pos[i] < pos[j]
          /\ mTimedFBList' = [i \in DOMAIN pos |-> mTimedFBList[pos[i]]]
    /\ mRemoveFBList' = <<>>
    /\ kpc' = "timed"
    /\ UNCHANGED <<mForteTime, mAddFBList, waitingSince, triggered, call, chains, overrun>>

\* processTimedFBList: takes the entries that are due off the list ...
processTimedFBList ==
    /\ kpc = "timed"
    /\ LET k == upperBound(mTimedFBList, mForteTime)
       IN  /\ triggered' = SubSeq(mTimedFBList, 1, k)
           /\ mTimedFBList' = SubSeq(mTimedFBList, k + 1, Len(mTimedFBList))
    /\ kpc' = "trigger"
    /\ UNCHANGED <<mForteTime, mAddFBList, waitingSince, mRemoveFBList, call, chains, overrun>>

\* ... and triggers them one by one.
triggerNext ==
    /\ kpc = "trigger"
    /\ triggered # <<>>
    /\ triggerTimedFB(Head(triggered))
    /\ triggered' = Tail(triggered)
    /\ UNCHANGED <<mForteTime, mAddFBList, waitingSince, mRemoveFBList, kpc, call>>

\* if (!mAddFBList.empty()), outside of the critical region
checkAddList ==
    /\ kpc = "trigger"
    /\ triggered = <<>>
    /\ kpc' = IF mAddFBList = <<>> THEN "sleep" ELSE "adding"
    /\ UNCHANGED <<mForteTime, mTimedFBList, mAddFBList, waitingSince, mRemoveFBList, triggered, call,
                   chains, overrun>>

\* mutant: an entry that is due just now is put into the list
isDueBefore(entry) == entry.mTimeOut < mForteTime

isDue(entry) == entry.mTimeOut <= mForteTime

\* processAddList, one entry: what is already due is triggered at once
processAddList ==
    /\ kpc = "adding"
    /\ mAddFBList # <<>>
    /\ LET entry == Head(mAddFBList)
       IN  IF isDue(entry)
           THEN triggerTimedFB(entry)
           ELSE /\ mTimedFBList' = addTimedFBEntry(mTimedFBList, entry)
                /\ UNCHANGED <<chains, overrun>>
    /\ mAddFBList' = Tail(mAddFBList)
    /\ waitingSince' = IF Len(mAddFBList) = 1 THEN 0 ELSE waitingSince
    /\ kpc' = IF Len(mAddFBList) = 1 THEN "sleep" ELSE "adding"
    /\ UNCHANGED <<mForteTime, mRemoveFBList, triggered, call>>

TimerStep ==
    \/ nextTick \/ processRemoveList \/ processTimedFBList \/ triggerNext
    \/ checkAddList \/ processAddList

-----------------------------------------------------------------------------
(* Properties *)

\* Types of the lists of CTimerHandler; the executing thread holds at most ChainCap chains.
TimerTypeOK ==
    /\ mForteTime \in 0 .. MaxTime
    /\ mTimedFBList \in Seq(Entry)
    /\ mAddFBList \in Seq(Entry)
    /\ waitingSince \in 0 .. MaxTime
    /\ mRemoveFBList \in Seq(FB)
    /\ triggered \in Seq(Entry)
    /\ kpc \in {"sleep", "remove", "timed", "trigger", "adding"}
    /\ call \in Entry \cup {NoEntry}
    /\ chains \in Seq(FB) /\ Len(chains) <= ChainCap
    /\ overrun \subseteq FB

\* When an entry fires.  Between two ticks nothing on the sorted list is overdue, and what a
\* tick takes off the list was due at exactly this tick.  An entry that never reaches the
\* list, because its time has come before (registered against a clock that ticks on while
\* the call is on its way), waits in mAddFBList for no more than one tick: it is late by
\* the time its hand-over took and at most that one tick.
OnTick ==
    /\ kpc \in {"sleep", "trigger", "adding"} =>
          \A i \in 1 .. Len(mTimedFBList) : mTimedFBList[i].mTimeOut > mForteTime
    /\ \A i \in 1 .. Len(triggered) : triggered[i].mTimeOut = mForteTime
    /\ mAddFBList # <<>> =>
          mForteTime <= IF kpc = "sleep" THEN waitingSince ELSE waitingSince + 1
=============================================================================
