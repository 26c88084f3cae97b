------------------------------- MODULE CommFB -------------------------------
(***************************************************************************)
(* A communication function block (CLIENT or SERVER) over a TCP socket:    *)
(* CCommFB and CBaseCommFB, the bottom layer CIPComLayer, the socket       *)
(* thread CFDSelectHandler, and the peer on the network.                   *)
(*                                                                         *)
(* Four threads meet here.  The select handler calls recvData of the layer *)
(* when a descriptor is readable; the layer fills its buffer and leaves an *)
(* interrupt in the queue of the block.  The executing thread of the       *)
(* resource works off the queue and hands the buffer to the layers above.  *)
(* The management thread kills the block, which closes the connection.     *)
(* mFBLock guards the buffer; mInterruptResp, mConnectionState and the     *)
(* queue of interrupts are read and written without it.                    *)
(*                                                                         *)
(* A stack of layers is a number, 0 is the null pointer.  A step on a      *)
(* stack that has been deleted is undefined behaviour: the model says so   *)
(* (crashed) and follows the program no further.  Data is numbered in the  *)
(* order it is sent.  The external event list of the resource (see Ecet)   *)
(* is the number of events it holds for this block.                        *)
(***************************************************************************)
EXTENDS Integers, Sequences

CONSTANTS
    Services,       \* the kinds of block to look at, of {"Server", "Client"}
    BufferSize,     \* cgIPLayerRecvBufferSize
    QueueSize,      \* cgCommunicationInterruptQueueSize
    ChainCap,       \* room for this block in the external event list
    MaxOpens,       \* bound: stacks that are created
    MaxSent,        \* bound: pieces of data the peers send
    MaxConnects,    \* bound: connection attempts of clients
    MaxTroubles     \* bound: INIT events with QI false, REQ or RSP events that meet a
                    \* broken connection, errors of recv, and kill commands, together

ASSUME CommAssumption ==
    /\ Services \subseteq {"Server", "Client"}
    /\ {BufferSize, QueueSize} \subseteq Nat \ {0}
    /\ {ChainCap, MaxOpens, MaxSent, MaxConnects, MaxTroubles} \subseteq Nat

VARIABLES
    mCommServiceType,
    mFBState,               \* "Running" or "Killed"
    mTopOfComStack,         \* number of the stack
    mInterruptQueue, mComInterruptQueueCount,
    mFBLock,                \* "free" or the thread that has it
    \* CIPComLayer at the bottom of the stack
    mConnectionState, mSocketID, mListeningID, mInterruptResp, mRecvBuffer,
    mConnectionsList,       \* of the select handler: descriptors with a callback
    tcp,                    \* the network: what the peer has sent and recv has not returned
    attempts,               \* the network: clients waiting to be accepted
    chains,                 \* external events of the block in the executing thread's list
    h,                      \* the select handler: position and local variables
    e,                      \* the executing thread
    mpc,                    \* the management thread
    n,                      \* counters for the bounds
    received, handedUp,     \* history of the stack: data received, data given to the upper layer
    lost,                   \* history: an interrupt or its event was refused or overwritten
    crashed                 \* a deleted stack was used

fb      == <<mCommServiceType, mFBState>>
queue   == <<mInterruptQueue, mComInterruptQueueCount>>
socket  == <<mConnectionState, mSocketID, mListeningID, mConnectionsList, tcp>>
buffer  == <<mRecvBuffer, received, handedUp>>
vars == <<fb, mTopOfComStack, queue, mFBLock, socket, mInterruptResp, buffer, attempts, chains,
          h, e, mpc, n, lost, crashed>>

\* An entry of the queue that was read from behind its end.
Garbage == -1

Responses == {"Nothing", "Ok", "InitTerminated", "DataTypeError", "RecvFaild"}

\* The order of EComResponse.
Code(resp) ==
    CASE resp = "Nothing" -> 0 [] resp = "Ok" -> 32 [] resp = "InitTerminated" -> 82
      [] resp = "DataTypeError" -> 100 [] resp = "RecvFaild" -> 104

Init ==
    /\ mCommServiceType \in Services
    /\ mFBState = "Running"
    /\ mTopOfComStack = 0
    /\ mInterruptQueue = [i \in 1 .. QueueSize |-> 0] /\ mComInterruptQueueCount = 0
    /\ mFBLock = "free"
    /\ mConnectionState = "Disconnected"
    /\ mSocketID = FALSE /\ mListeningID = FALSE
    /\ mInterruptResp = "Nothing"
    /\ mRecvBuffer = <<>>
    /\ mConnectionsList = {}
    /\ tcp = <<>> /\ attempts = 0
    /\ chains = 0
    /\ h = [pc |-> "select", ready |-> {}, fd |-> "none", callee |-> 0, count |-> 0]
    /\ e = [pc |-> "idle", copy |-> 0, i |-> 0, resp |-> "Nothing", count |-> 0]
    /\ mpc = "ready"
    /\ n = [opens |-> 0, closes |-> 0, sent |-> 0, connects |-> 0, failures |-> 0,
           errors |-> 0, kills |-> 0]
    /\ received = <<>> /\ handedUp = <<>>
    /\ lost = FALSE
    /\ crashed = FALSE

Goes(pc) == e' = [e EXCEPT !.pc = pc]
Troubles == n.closes + n.failures + n.errors + n.kills

-----------------------------------------------------------------------------
(* CBaseCommFB::openConnection and closeConnection *)

\* A server listens, a client is connected.
createComstack ==
    /\ mTopOfComStack' = n.opens + 1
    /\ mConnectionState' = IF mCommServiceType = "Server" THEN "Listening" ELSE "Connected"
    /\ mListeningID' = (mCommServiceType = "Server")
    /\ mSocketID' = (mCommServiceType = "Client")
    /\ mConnectionsList' = IF mCommServiceType = "Server" THEN {"listening"} ELSE {"socket"}
    /\ mInterruptResp' = "Nothing"
    /\ mRecvBuffer' = <<>> /\ received' = <<>> /\ handedUp' = <<>>
    /\ tcp' = <<>>

\* Both sockets are closed and the stack is deleted.  The queue of interrupts is not touched.
closeConnection ==
    /\ mTopOfComStack' = 0
    /\ mConnectionState' = "Disconnected"
    /\ mListeningID' = FALSE /\ mSocketID' = FALSE
    /\ mConnectionsList' = {}
    /\ mInterruptResp' = "Nothing"
    /\ mRecvBuffer' = <<>> /\ received' = <<>> /\ handedUp' = <<>>
    /\ tcp' = <<>>

stack == <<mTopOfComStack, socket, mInterruptResp, buffer>>

\* closeSocket(&mSocketID)
closeSocket ==
    /\ mSocketID' = FALSE
    /\ mConnectionsList' = mConnectionsList \ {"socket"}
    /\ tcp' = <<>>

-----------------------------------------------------------------------------
(* The network *)

connectPeer ==
    /\ mListeningID
    /\ n.connects < MaxConnects
    /\ attempts' = attempts + 1
    /\ n' = [n EXCEPT !.connects = @ + 1]
    /\ UNCHANGED <<fb, queue, mFBLock, stack, chains, h, e, mpc, lost, crashed>>

Closed == tcp # <<>> /\ tcp[Len(tcp)] = 0

sendPeer ==
    /\ mSocketID /\ ~Closed
    /\ n.sent < MaxSent
    /\ tcp' = Append(tcp, n.sent + 1)
    /\ n' = [n EXCEPT !.sent = @ + 1]
    /\ UNCHANGED <<fb, queue, mFBLock, mTopOfComStack, mConnectionState, mSocketID, mListeningID,
                   mConnectionsList, mInterruptResp, buffer, attempts, chains, h, e, mpc, lost,
                   crashed>>

\* The peer closes its end: a 0 in the stream.
closePeer ==
    /\ mSocketID /\ ~Closed
    /\ tcp' = Append(tcp, 0)
    /\ UNCHANGED <<fb, queue, mFBLock, mTopOfComStack, mConnectionState, mSocketID, mListeningID,
                   mConnectionsList, mInterruptResp, buffer, attempts, chains, h, e, mpc, n, lost,
                   crashed>>

NetworkStep == connectPeer \/ sendPeer \/ closePeer

-----------------------------------------------------------------------------
(* CFDSelectHandler::run and, in its thread, CIPComLayer::recvData *)

Readable(fd) == IF fd = "socket" THEN tcp # <<>> ELSE attempts > 0

select ==
    /\ h.pc = "select"
    /\ \E fd \in mConnectionsList : Readable(fd)
    /\ h' = [h EXCEPT !.pc = "next", !.ready = {fd \in mConnectionsList : Readable(fd)}]
    /\ UNCHANGED <<fb, queue, mFBLock, stack, attempts, chains, e, mpc, n, lost, crashed>>

\* The lock of the list is given up for the time of the callback.
nextConnection ==
    /\ h.pc = "next"
    /\ \/ \E fd \in h.ready \cap mConnectionsList :
             h' = [h EXCEPT !.pc = "recvData", !.fd = fd, !.callee = mTopOfComStack,
                            !.ready = @ \ {fd}]
       \/ /\ h.ready \cap mConnectionsList = {}
          /\ h' = [h EXCEPT !.pc = "select", !.ready = {}, !.fd = "none", !.callee = 0]
    /\ UNCHANGED <<fb, queue, mFBLock, stack, attempts, chains, e, mpc, n, lost, crashed>>

\* mInterruptResp = e_Nothing
recvData ==
    /\ h.pc = "recvData"
    /\ mInterruptResp' = "Nothing"
    /\ h' = [h EXCEPT !.pc = "switch"]
    /\ UNCHANGED <<fb, queue, mFBLock, mTopOfComStack, socket, buffer, attempts, chains, e, mpc, n,
                   lost, crashed>>

\* case e_Listening: accept blocks while nobody waits.
acceptTCPConnection ==
    /\ h.pc = "switch" /\ mConnectionState = "Listening"
    /\ attempts > 0
    /\ attempts' = attempts - 1
    /\ mSocketID' = TRUE
    /\ mConnectionsList' = mConnectionsList \cup {"socket"}
    /\ tcp' = <<>>
    /\ mConnectionState' = "Connected"
    /\ h' = [h EXCEPT !.pc = "return"]
    /\ UNCHANGED <<fb, queue, mFBLock, mTopOfComStack, mListeningID, mInterruptResp, buffer, chains,
                   e, mpc, n, lost, crashed>>

\* accept fails: the client is gone, and there is no socket.
acceptFailed ==
    /\ h.pc = "switch" /\ mConnectionState = "Listening"
    /\ attempts > 0
    /\ attempts' = attempts - 1
    /\ mSocketID' = FALSE
    /\ h' = [h EXCEPT !.pc = "return"]
    /\ UNCHANGED <<fb, queue, mFBLock, mTopOfComStack, mConnectionState, mListeningID,
                   mConnectionsList, tcp, mInterruptResp, buffer, chains, e, mpc, n, lost, crashed>>

\* case e_Connected, listening socket: the client is accepted and sent away.
handleConnectionAttemptInConnected ==
    /\ h.pc = "switch" /\ mConnectionState = "Connected" /\ h.fd = "listening"
    /\ attempts > 0
    /\ attempts' = attempts - 1
    /\ h' = [h EXCEPT !.pc = "return"]
    /\ UNCHANGED <<fb, queue, mFBLock, stack, chains, e, mpc, n, lost, crashed>>

\* case e_Connected, data: handledConnectedDataRecv waits while the buffer is full, ...
handledConnectedDataRecv ==
    /\ h.pc = "switch" /\ mConnectionState = "Connected" /\ h.fd = "socket"
    /\ h' = [h EXCEPT !.pc = "wait"]
    /\ UNCHANGED <<fb, queue, mFBLock, stack, attempts, chains, e, mpc, n, lost, crashed>>

waitForRoom ==
    /\ h.pc = "wait"
    /\ Len(mRecvBuffer) < BufferSize
    /\ h' = [h EXCEPT !.pc = IF mSocketID THEN "lock" ELSE "return"]
    /\ UNCHANGED <<fb, queue, mFBLock, stack, attempts, chains, e, mpc, n, lost, crashed>>

\* mutant: the buffer is filled without the lock of the block
lockFBNot ==
    /\ h.pc = "lock"
    /\ h' = [h EXCEPT !.pc = "receive"]
    /\ UNCHANGED <<fb, queue, mFBLock, stack, attempts, chains, e, mpc, n, lost, crashed>>

lockFB ==
    /\ h.pc = "lock"
    /\ mFBLock = "free"
    /\ mFBLock' = "handler"
    /\ h' = [h EXCEPT !.pc = "receive"]
    /\ UNCHANGED <<fb, queue, stack, attempts, chains, e, mpc, n, lost, crashed>>

\* ... receives what has come, at most as much as there is room for, ...
receiveData ==
    /\ h.pc = "receive"
    /\ \E k \in 1 .. BufferSize - Len(mRecvBuffer) :
          /\ k <= Len(tcp) /\ tcp[k] # 0
          /\ mRecvBuffer' = mRecvBuffer \o SubSeq(tcp, 1, k)
          /\ received' = received \o SubSeq(tcp, 1, k)
          /\ tcp' = SubSeq(tcp, k + 1, Len(tcp))
    /\ mInterruptResp' = "Ok"
    /\ h' = [h EXCEPT !.pc = "interrupt"]
    /\ UNCHANGED <<fb, queue, mFBLock, mTopOfComStack, mConnectionState, mSocketID, mListeningID,
                   mConnectionsList, handedUp, attempts, chains, e, mpc, n, lost, crashed>>

\* mutant: the server stays in the connected state
connectionClosedByPeerStay ==
    /\ h.pc = "receive"
    /\ tcp # <<>> /\ Head(tcp) = 0
    /\ mInterruptResp' = "InitTerminated"
    /\ closeSocket
    /\ h' = [h EXCEPT !.pc = "interrupt"]
    /\ UNCHANGED <<fb, queue, mFBLock, mTopOfComStack, mListeningID, mConnectionState, buffer,
                   attempts, chains, e, mpc, n, lost, crashed>>

\* ... or learns that the peer has closed ("Move server into listening mode again") ...
connectionClosedByPeer ==
    /\ h.pc = "receive"
    /\ tcp # <<>> /\ Head(tcp) = 0
    /\ mInterruptResp' = "InitTerminated"
    /\ closeSocket
    /\ mConnectionState' = IF mCommServiceType = "Server" THEN "Listening" ELSE mConnectionState
    /\ h' = [h EXCEPT !.pc = "interrupt"]
    /\ UNCHANGED <<fb, queue, mFBLock, mTopOfComStack, mListeningID, buffer, attempts, chains, e,
                   mpc, n, lost, crashed>>

\* ... or that the executing thread has closed the socket, ...
receiveFailed ==
    /\ h.pc = "receive"
    /\ ~mSocketID
    /\ mInterruptResp' = "RecvFaild"
    /\ h' = [h EXCEPT !.pc = "interrupt"]
    /\ UNCHANGED <<fb, queue, mFBLock, mTopOfComStack, socket, buffer, attempts, chains, e, mpc, n,
                   lost, crashed>>

\* ... or that recv reports an error of an open socket (a reset is reported once, then the
\* end of the stream), ...
receiveError ==
    /\ h.pc = "receive"
    /\ mSocketID
    /\ Troubles < MaxTroubles
    /\ mInterruptResp' = "RecvFaild"
    /\ n' = [n EXCEPT !.errors = @ + 1]
    /\ h' = [h EXCEPT !.pc = "interrupt"]
    /\ UNCHANGED <<fb, queue, mFBLock, mTopOfComStack, socket, buffer, attempts, chains, e, mpc,
                   lost, crashed>>

\* ... and leaves an interrupt: interruptCommFB reads the count ...
readQueueCount ==
    /\ h.pc = "interrupt"
    /\ h' = [h EXCEPT !.pc = "store", !.count = mComInterruptQueueCount]
    /\ UNCHANGED <<fb, queue, mFBLock, stack, attempts, chains, e, mpc, n, lost, crashed>>

\* mutant: the test of the bound is off by one
roomInQueueOffByOne(count) == count <= QueueSize

roomInQueue(count) == count < QueueSize

\* ... and writes it back; the executing thread may have changed it in between.
interruptCommFB ==
    /\ h.pc = "store"
    /\ IF roomInQueue(h.count)
       THEN /\ mInterruptQueue' = [i \in DOMAIN mInterruptQueue |->
                                      IF i = h.count + 1 THEN h.callee ELSE mInterruptQueue[i]]
            /\ mComInterruptQueueCount' = h.count + 1
       ELSE UNCHANGED queue
    /\ lost' = (lost \/ ~roomInQueue(h.count) \/ h.count # mComInterruptQueueCount)
    /\ mFBLock' = "free"
    /\ h' = [h EXCEPT !.pc = "return", !.count = 0]
    /\ UNCHANGED <<fb, stack, attempts, chains, e, mpc, n, crashed>>

\* recvData returns mInterruptResp; startNewEventChain when there is something to do.
returnFromRecvData ==
    /\ h.pc = "return"
    /\ IF mInterruptResp = "Nothing"
       THEN UNCHANGED <<chains, lost>>
       ELSE /\ chains' = IF chains < ChainCap THEN chains + 1 ELSE chains
            /\ lost' = (lost \/ chains >= ChainCap)
    /\ h' = [h EXCEPT !.pc = "next"]
    /\ UNCHANGED <<fb, queue, mFBLock, stack, attempts, e, mpc, n, crashed>>

LayerStep ==
    \/ recvData \/ acceptTCPConnection \/ acceptFailed \/ handleConnectionAttemptInConnected
    \/ handledConnectedDataRecv \/ waitForRoom \/ lockFB \/ receiveData
    \/ connectionClosedByPeer \/ receiveFailed \/ receiveError \/ readQueueCount
    \/ interruptCommFB \/ returnFromRecvData

\* The stack was deleted during the callback.
handlerUsesDeletedStack ==
    /\ h.pc \notin {"select", "next"}
    /\ h.callee # mTopOfComStack
    /\ crashed' = TRUE
    /\ UNCHANGED <<fb, queue, mFBLock, stack, attempts, chains, h, e, mpc, n, lost>>

HandlerStep ==
    \/ select \/ nextConnection
    \/ h.callee = mTopOfComStack /\ LayerStep
    \/ handlerUsesDeletedStack

-----------------------------------------------------------------------------
(* The executing thread: CCommFB::executeEvent *)

\* INIT with QI: an open connection stays, an opening that fails leaves no stack.
openConnection ==
    /\ e.pc = "idle" /\ mFBState = "Running"
    /\ mTopOfComStack = 0
    /\ n.opens < MaxOpens
    /\ createComstack
    /\ n' = [n EXCEPT !.opens = @ + 1]
    /\ UNCHANGED <<fb, queue, mFBLock, attempts, chains, h, e, mpc, lost, crashed>>

\* INIT without QI
closeOnINIT ==
    /\ e.pc = "idle" /\ mFBState = "Running"
    /\ mTopOfComStack # 0
    /\ Troubles < MaxTroubles
    /\ closeConnection
    /\ n' = [n EXCEPT !.closes = @ + 1]
    /\ UNCHANGED <<fb, queue, mFBLock, attempts, chains, h, e, mpc, lost, crashed>>

\* REQ or RSP when the peer has gone: a client closes the stack, a server its socket.
sendData ==
    /\ e.pc = "idle" /\ mFBState = "Running"
    /\ mTopOfComStack # 0 /\ mSocketID /\ Closed
    /\ Troubles < MaxTroubles
    /\ n' = [n EXCEPT !.failures = @ + 1]
    /\ IF mCommServiceType = "Server"
       THEN Goes("sendFailed") /\ UNCHANGED stack
       ELSE closeConnection /\ UNCHANGED e
    /\ UNCHANGED <<fb, queue, mFBLock, attempts, chains, h, mpc, lost, crashed>>

closeOnSend ==
    /\ e.pc = "sendFailed"
    /\ closeSocket
    /\ Goes("listen")
    /\ UNCHANGED <<fb, queue, mFBLock, mTopOfComStack, mConnectionState, mListeningID,
                   mInterruptResp, buffer, attempts, chains, h, mpc, n, lost, crashed>>

listenOnSend ==
    /\ e.pc = "listen"
    /\ mConnectionState' = "Listening"
    /\ Goes("idle")
    /\ UNCHANGED <<fb, queue, mFBLock, mTopOfComStack, mSocketID, mListeningID, mConnectionsList,
                   tcp, mInterruptResp, buffer, attempts, chains, h, mpc, n, lost, crashed>>

\* The external event: receiveData copies the number of interrupts, ...
externalEvent ==
    /\ e.pc = "idle"
    /\ chains > 0
    /\ chains' = chains - 1
    /\ e' = IF mFBState = "Running"
            THEN [e EXCEPT !.pc = "process", !.copy = mComInterruptQueueCount, !.i = 1]
            ELSE e
    /\ UNCHANGED <<fb, queue, mFBLock, stack, attempts, h, mpc, n, lost, crashed>>

\* ... passes over an entry that is null ("Attempt to process nullptr"), ...
skipNull ==
    /\ e.pc = "process" /\ e.i <= e.copy
    /\ mInterruptQueue[e.i] = 0
    /\ e' = [e EXCEPT !.i = @ + 1]
    /\ UNCHANGED <<fb, queue, mFBLock, stack, attempts, chains, h, mpc, n, lost, crashed>>

\* ... processes each of the others, ...
processInterrupt ==
    /\ e.pc = "process" /\ e.i <= e.copy
    /\ mInterruptQueue[e.i] # 0 /\ mInterruptQueue[e.i] = mTopOfComStack
    /\ Goes(IF mInterruptResp = "Ok" /\ mConnectionState = "Connected" /\ mRecvBuffer # <<>>
            THEN "lock" ELSE "response")
    /\ UNCHANGED <<fb, queue, mFBLock, stack, attempts, chains, h, mpc, n, lost, crashed>>

lockForUpperLayer ==
    /\ e.pc = "lock"
    /\ mFBLock = "free"
    /\ mFBLock' = "ecet"
    /\ Goes("hand")
    /\ UNCHANGED <<fb, queue, stack, attempts, chains, h, mpc, n, lost, crashed>>

\* mTopLayer->recvData: a complete telegram, a part of one, or data of the wrong type.
handToUpperLayer ==
    /\ e.pc = "hand"
    /\ handedUp' = handedUp \o mRecvBuffer
    /\ mInterruptResp' \in {"Ok", "Nothing", "DataTypeError"}
    /\ Goes("clear")
    /\ UNCHANGED <<fb, queue, mFBLock, mTopOfComStack, socket, mRecvBuffer, received, attempts,
                   chains, h, mpc, n, lost, crashed>>

\* mBufFillSize = 0
clearBuffer ==
    /\ e.pc = "clear"
    /\ mRecvBuffer' = <<>>
    /\ mFBLock' = "free"
    /\ Goes("response")
    /\ UNCHANGED <<fb, queue, mTopOfComStack, socket, mInterruptResp, received, handedUp, attempts,
                   chains, h, mpc, n, lost, crashed>>

\* The response is read again when processInterrupt returns; the largest one counts.
keepResponse ==
    /\ e.pc = "response"
    /\ e' = [e EXCEPT !.pc = "process", !.i = @ + 1,
                      !.resp = IF Code(mInterruptResp) > Code(@) THEN mInterruptResp ELSE @]
    /\ UNCHANGED <<fb, queue, mFBLock, stack, attempts, chains, h, mpc, n, lost, crashed>>

\* ... and takes them off the queue: reads the count, ...
interruptsProcessed ==
    /\ e.pc = "process" /\ e.i > e.copy
    /\ e' = [e EXCEPT !.pc = "store", !.count = mComInterruptQueueCount]
    /\ UNCHANGED <<fb, queue, mFBLock, stack, attempts, chains, h, mpc, n, lost, crashed>>

\* mutant: the queue is emptied, with what has come while it was worked off
removeInterruptsAll ==
    /\ e.pc = "store"
    /\ mComInterruptQueueCount' = 0
    /\ lost' = (lost \/ e.count # mComInterruptQueueCount)
    /\ Goes("answer")
    /\ UNCHANGED <<fb, mInterruptQueue, mFBLock, stack, attempts, chains, h, mpc, n, crashed>>

\* ... writes back what is left of it, ...
removeInterrupts ==
    /\ e.pc = "store"
    /\ mComInterruptQueueCount' = e.count - e.copy
    /\ lost' = (lost \/ e.count # mComInterruptQueueCount)
    /\ e' = [e EXCEPT !.pc = "shift", !.i = 1]
    /\ UNCHANGED <<fb, mInterruptQueue, mFBLock, stack, attempts, chains, h, mpc, n, crashed>>

\* ... and moves the rest to the front.  The loop reads the count again for every entry: an
\* interrupt that was appended after the count had been written back is overwritten with
\* what happens to be e.copy entries further on, in the array or behind its end.
shiftInterrupts ==
    /\ e.pc = "shift"
    /\ IF e.i <= mComInterruptQueueCount
       THEN /\ mInterruptQueue' = [mInterruptQueue EXCEPT ![e.i] =
                  IF e.i + e.copy <= QueueSize THEN mInterruptQueue[e.i + e.copy] ELSE Garbage]
            /\ lost' = (lost \/ e.i > e.count - e.copy)
            /\ e' = [e EXCEPT !.i = @ + 1]
       ELSE /\ e' = [e EXCEPT !.pc = "answer", !.copy = 0, !.i = 0, !.count = 0]
            /\ UNCHANGED <<mInterruptQueue, lost>>
    /\ UNCHANGED <<fb, mComInterruptQueueCount, mFBLock, stack, attempts, chains, h, mpc, n,
                   crashed>>

\* A server keeps silent about a client that has gone, a client closes its stack.  The
\* output event is left out.
answer ==
    /\ e.pc = "answer"
    /\ IF e.resp = "InitTerminated" /\ mCommServiceType # "Server"
       THEN closeConnection
       ELSE UNCHANGED stack
    /\ e' = [pc |-> "idle", copy |-> 0, i |-> 0, resp |-> "Nothing", count |-> 0]
    /\ UNCHANGED <<fb, queue, mFBLock, attempts, chains, h, mpc, n, lost, crashed>>

StackStep ==
    \/ lockForUpperLayer \/ handToUpperLayer \/ clearBuffer \/ keepResponse
    \/ closeOnSend \/ listenOnSend

\* The stack was deleted by the management thread, or the entry is an interrupt of an
\* earlier stack or no pointer to a layer at all.
executionUsesDeletedStack ==
    /\ \/ mTopOfComStack = 0 /\ e.pc \in {"lock", "hand", "clear", "response", "sendFailed", "listen"}
       \/ /\ e.pc = "process" /\ e.i <= e.copy
          /\ mInterruptQueue[e.i] \notin {0, mTopOfComStack}
    /\ crashed' = TRUE
    /\ UNCHANGED <<fb, queue, mFBLock, stack, attempts, chains, h, e, mpc, n, lost>>

\* What the thread does without being asked by the application.
ExecutionStep ==
    \/ externalEvent \/ skipNull \/ processInterrupt \/ interruptsProcessed
    \/ removeInterrupts \/ shiftInterrupts \/ answer
    \/ mTopOfComStack # 0 /\ StackStep
    \/ executionUsesDeletedStack

ApplicationStep == openConnection \/ closeOnINIT \/ sendData

-----------------------------------------------------------------------------
(* The management thread: Kill, and Reset and Start after it *)

kill ==
    /\ mpc = "ready" /\ mFBState = "Running"
    /\ Troubles < MaxTroubles
    /\ mFBState' = "Killed"
    /\ mpc' = "close"
    /\ n' = [n EXCEPT !.kills = @ + 1]
    /\ UNCHANGED <<mCommServiceType, queue, mFBLock, stack, attempts, chains, h, e, lost, crashed>>

closeOnKill ==
    /\ mpc = "close"
    /\ closeConnection
    /\ mpc' = "clear"
    /\ UNCHANGED <<fb, queue, mFBLock, attempts, chains, h, e, n, lost, crashed>>

\* The executing thread drops its events.
clearEvents ==
    /\ mpc = "clear"
    /\ chains' = 0
    /\ mpc' = "ready"
    /\ UNCHANGED <<fb, queue, mFBLock, stack, attempts, h, e, n, lost, crashed>>

restart ==
    /\ mpc = "ready" /\ mFBState = "Killed"
    /\ mFBState' = "Running"
    /\ UNCHANGED <<mCommServiceType, queue, mFBLock, stack, attempts, chains, h, e, mpc, n, lost,
                   crashed>>

ManagementStep == kill \/ closeOnKill \/ clearEvents \/ restart

-----------------------------------------------------------------------------
Next ==
    /\ ~crashed
    /\ NetworkStep \/ HandlerStep \/ ApplicationStep \/ ExecutionStep \/ ManagementStep

\* Both threads carry on with what they have begun; the network, the application and the
\* management may stop at any time.
Fairness == WF_vars(~crashed /\ HandlerStep) /\ WF_vars(~crashed /\ ExecutionStep)

Spec == Init /\ [][Next]_vars /\ Fairness

-----------------------------------------------------------------------------
(* Properties *)

Handler ==
    [pc : {"select", "next", "recvData", "switch", "wait", "lock", "receive", "interrupt", "store",
           "return"},
     ready : SUBSET {"socket", "listening"}, fd : {"none", "socket", "listening"},
     callee : 0 .. MaxOpens, count : 0 .. QueueSize]
Executor ==
    [pc : {"idle", "sendFailed", "listen", "process", "lock", "hand", "clear", "response", "store",
           "shift", "answer"},
     copy : 0 .. QueueSize, i : Nat, resp : Responses, count : 0 .. QueueSize]
QueueEntry == (0 .. MaxOpens) \cup {Garbage}
Counters ==
    [opens : 0 .. MaxOpens, closes : Nat, sent : 0 .. MaxSent, connects : 0 .. MaxConnects,
     failures : Nat, errors : Nat, kills : Nat]

\* Types.  The buffer and the count of interrupts, which two threads write without agreeing,
\* stay within their arrays: nothing is written outside of them.  What the shift of
\* receiveData reads may lie behind the queue, and is Garbage.
TypeOK ==
    /\ mCommServiceType \in Services
    /\ mFBState \in {"Running", "Killed"}
    /\ mTopOfComStack \in 0 .. MaxOpens
    /\ mInterruptQueue \in [1 .. QueueSize -> QueueEntry]
    /\ mComInterruptQueueCount \in 0 .. QueueSize
    /\ mFBLock \in {"free", "handler", "ecet"}
    /\ mConnectionState \in {"Disconnected", "Listening", "Connected"}
    /\ mSocketID \in BOOLEAN /\ mListeningID \in BOOLEAN
    /\ mInterruptResp \in Responses
    /\ mRecvBuffer \in Seq(1 .. MaxSent) /\ Len(mRecvBuffer) <= BufferSize
    /\ received \in Seq(1 .. MaxSent) /\ handedUp \in Seq(1 .. MaxSent)
    /\ mConnectionsList \subseteq {"socket", "listening"}
    /\ tcp \in Seq(0 .. MaxSent)
    /\ attempts \in 0 .. MaxConnects
    /\ chains \in 0 .. ChainCap
    /\ h \in Handler /\ e \in Executor /\ n \in Counters
    /\ mpc \in {"ready", "close", "clear"}
    /\ lost \in BOOLEAN /\ crashed \in BOOLEAN

\* What recv has returned since the stack was opened is handed to the upper layer or still
\* in the buffer, each piece once and in the order of its receipt, although one thread
\* fills the buffer while the other empties it.
EveryByteOnceInOrder ==
    received = handedUp \o IF e.pc = "clear" THEN <<>> ELSE mRecvBuffer

\* The executing thread will look at an interrupt of this stack.
Coming ==
    \/ h.pc \in {"interrupt", "store", "return"}
    \/ e.pc \in {"lock", "hand", "clear"}
    \/ e.pc = "process" /\ e.i <= e.copy
    \/ chains > 0 /\ mComInterruptQueueCount > 0

\* Data in the buffer of a connected layer that says so is on its way to the block: an
\* interrupt is queued and an external event will look at it.  The exceptions (lost) are a
\* full queue, a full event list, the two unprotected updates of the count meeting, and an
\* interrupt that is appended while receiveData moves the queue, which overwrites it; and
\* a block that has been killed.
DataIsAnnounced ==
    mRecvBuffer # <<>> /\ mInterruptResp = "Ok" /\ mConnectionState = "Connected"
        => Coming \/ lost \/ crashed \/ n.kills > 0

\* A server whose client has closed its end listens again or is closed, unless the handler
\* waits for room in the buffer, or a failed send, which closes the socket as well, has
\* got in its way (see ListeningHasNoSocket).  Errors of recv do not last.
ServerListensAgain ==
    (mCommServiceType = "Server" /\ mConnectionState = "Connected" /\ Closed)
        ~> (mConnectionState # "Connected" \/ h.pc = "wait" \/ n.failures > 0 \/ crashed)

\* What changeExecutionState says of a kill, "we'll close the connection so that it can
\* safely be opened again after an reset": a stack opened after a kill finds no interrupt
\* of the earlier one, which receiveData would call.
ReopenedIsClean ==
    n.kills > 0 /\ mTopOfComStack # 0 =>
        \A i \in 1 .. mComInterruptQueueCount : mInterruptQueue[i] = mTopOfComStack

\* What receiveData reports as an error, "Attempt to process nullptr": the queue holds no null
\* pointer among the interrupts that are counted.
NoNullInQueue ==
    \A i \in 1 .. mComInterruptQueueCount : mInterruptQueue[i] # 0

\* What handledConnectedDataRecv says of a full buffer, "wait until buffer is larger 0":
\* the waiting ends.
HandlerReturns == h.pc = "wait" ~> h.pc # "wait" \/ crashed

\* "Move server into listening mode again": a layer that listens has no connection.
ListeningHasNoSocket == mConnectionState = "Listening" => ~mSocketID
=============================================================================
