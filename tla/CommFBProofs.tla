---------------------------- MODULE CommFBProofs ----------------------------
(***************************************************************************)
(* The buffer between the socket thread and the executing thread of a      *)
(* communication block, and the queue of interrupts that announces what is *)
(* in it: for every size of the buffer, of the queue and of the event      *)
(* list, and every amount of data, of clients and of trouble.              *)
(***************************************************************************)
EXTENDS CommFB, SequenceTheorems, TLAPS

\* The end of the connection is the last thing in the stream; nobody waits to be accepted
\* who has not called.
NetworkInv ==
    /\ \A i \in 1 .. Len(tcp) - 1 : tcp[i] # 0
    /\ attempts <= n.connects

\* Both threads hold the lock of the block while they use the buffer.
LockInv ==
    /\ h.pc \in {"receive", "interrupt", "store"} => mFBLock = "handler"
    /\ e.pc \in {"hand", "clear"} => mFBLock = "ecet"

\* The two unprotected counts: what the handler has read is outdated only in that the
\* executing thread has taken interrupts away, and the other way round.
QueueInv ==
    /\ h.pc = "store" => mComInterruptQueueCount <= h.count
    /\ e.pc \in {"process", "lock", "hand", "clear", "response"} =>
          e.copy <= mComInterruptQueueCount
    /\ e.pc = "store" => e.copy <= e.count /\ e.count <= mComInterruptQueueCount
    /\ e.pc = "shift" =>
          e.copy <= e.count /\ e.count - e.copy <= mComInterruptQueueCount /\ e.i >= 1
    /\ e.pc = "process" => e.i <= e.copy + 1 /\ e.i >= 1
    /\ e.pc \in {"lock", "hand", "clear", "response"} => e.i <= e.copy

\* The management thread is at work only after a kill command.
KillInv == mpc # "ready" \/ mFBState = "Killed" => n.kills > 0

\* An interrupt that the executing thread has not looked at is in the queue.
Queued ==
    /\ e.pc \in {"idle", "sendFailed", "listen", "shift", "answer"} =>
          mComInterruptQueueCount > 0
    /\ e.pc = "process" => mComInterruptQueueCount >= e.i
    /\ e.pc = "response" => mComInterruptQueueCount > e.i
    /\ e.pc = "store" => mComInterruptQueueCount > e.copy

\* The executing thread will look at it.
Expected ==
    \/ chains > 0
    \/ h.pc = "return"
    \/ e.pc = "process" /\ e.i <= e.copy

Waiting == mRecvBuffer # <<>> /\ mInterruptResp = "Ok"

\* Data that waits is about to be announced, about to be fetched, or announced by an
\* interrupt of its own.  (In a layer that was told nothing new, nothing waits.)
AnnounceInv ==
    /\ Waiting /\ mConnectionState = "Connected" =>
          \/ lost \/ crashed \/ n.kills > 0
          \/ h.pc \in {"interrupt", "store"}
          \/ e.pc \in {"lock", "hand", "clear"}
          \/ Queued /\ Expected
    /\ Waiting /\ h.pc = "switch" => e.pc = "clear"

\* As long as nothing is lost, every counted entry of the queue is an interrupt.  While the
\* queue is moved, that holds for the entries already moved and for those still to come.
NullInv ==
    ~lost =>
        /\ e.pc # "shift" => \A j \in 1 .. mComInterruptQueueCount : mInterruptQueue[j] # 0
        /\ e.pc = "shift" =>
              /\ e.i <= e.count - e.copy + 1
              /\ \A j \in 1 .. e.i - 1 : mInterruptQueue[j] # 0
              /\ \A j \in e.i + e.copy .. e.count : mInterruptQueue[j] # 0

\* Only a stack has descriptors with a callback, so a callback is one of a stack.
StackInv ==
    /\ mTopOfComStack = 0 => mConnectionsList = {}
    /\ h.pc \notin {"select", "next"} => h.callee # 0

IInv ==
    /\ TypeOK /\ NetworkInv /\ LockInv /\ EveryByteOnceInOrder
    /\ QueueInv /\ KillInv /\ AnnounceInv

\* The constants are numbers.
LEMMA Constants ==
    /\ BufferSize \in Nat /\ QueueSize \in Nat /\ ChainCap \in Nat /\ MaxOpens \in Nat
    /\ MaxSent \in Nat /\ MaxConnects \in Nat /\ MaxTroubles \in Nat
  BY CommAssumption

-----------------------------------------------------------------------------
(* The select handler *)

\* The steps that only move the handler.
LEMMA HandlerKeepsIInv ==
    ASSUME IInv, select \/ nextConnection \/ handledConnectedDataRecv \/ waitForRoom
    PROVE  IInv'
  <1> USE DEF IInv, fb, queue, socket, buffer, stack
  <1>1. CASE select
    <2>1. h' \in Handler
      BY <1>1 DEF select, TypeOK, Handler
    <2>2. TypeOK'
      BY <1>1, <2>1 DEF select, TypeOK, Responses
    <2>3. NetworkInv' /\ LockInv' /\ EveryByteOnceInOrder' /\ QueueInv' /\ KillInv'
      BY <1>1 DEF select, NetworkInv, LockInv, EveryByteOnceInOrder, QueueInv, KillInv, TypeOK,
                  Handler, Executor
    <2>4. AnnounceInv'
      BY <1>1 DEF select, AnnounceInv, Waiting, Queued, Expected, TypeOK, Handler, Executor
    <2> QED BY <2>2, <2>3, <2>4
  <1>2. CASE nextConnection
    <2>1. h \in Handler /\ mTopOfComStack \in 0 .. MaxOpens
      BY DEF TypeOK
    <2>2. h' \in Handler /\ h'.pc \in {"recvData", "select"}
      <3>1. CASE h' = [h EXCEPT !.pc = "select", !.ready = {}, !.fd = "none", !.callee = 0]
        <4>1. 0 \in 0 .. MaxOpens /\ {} \in SUBSET {"socket", "listening"}
          BY Constants
        <4> QED BY <2>1, <3>1, <4>1 DEF Handler
      <3>2. ASSUME NEW fd \in h.ready \cap mConnectionsList,
                   h' = [h EXCEPT !.pc = "recvData", !.fd = fd, !.callee = mTopOfComStack,
                                  !.ready = @ \ {fd}]
            PROVE  h' \in Handler /\ h'.pc = "recvData"
        BY <2>1, <3>2 DEF Handler
      <3> QED BY <1>2, <3>1, <3>2 DEF nextConnection
    <2>3. TypeOK'
      BY <1>2, <2>2 DEF nextConnection, TypeOK
    <2>4. NetworkInv' /\ LockInv' /\ EveryByteOnceInOrder' /\ QueueInv' /\ KillInv'
      BY <1>2, <2>2 DEF nextConnection, NetworkInv, LockInv, EveryByteOnceInOrder, QueueInv,
                      KillInv
    <2>5. AnnounceInv'
      BY <1>2, <2>2 DEF nextConnection, AnnounceInv, Waiting, Queued, Expected
    <2> QED BY <2>3, <2>4, <2>5
  <1>3. CASE handledConnectedDataRecv
    <2>1. h' \in Handler
      BY <1>3 DEF handledConnectedDataRecv, TypeOK, Handler
    <2>2. TypeOK'
      BY <1>3, <2>1 DEF handledConnectedDataRecv, TypeOK, Responses
    <2>3. NetworkInv' /\ LockInv' /\ EveryByteOnceInOrder' /\ QueueInv' /\ KillInv'
      BY <1>3 DEF handledConnectedDataRecv, NetworkInv, LockInv, EveryByteOnceInOrder, QueueInv, KillInv, TypeOK,
                  Handler, Executor
    <2>4. AnnounceInv'
      BY <1>3 DEF handledConnectedDataRecv, AnnounceInv, Waiting, Queued, Expected, TypeOK, Handler, Executor
    <2> QED BY <2>2, <2>3, <2>4
  <1>4. CASE waitForRoom
    <2>1. h' \in Handler
      BY <1>4 DEF waitForRoom, TypeOK, Handler
    <2>2. TypeOK'
      BY <1>4, <2>1 DEF waitForRoom, TypeOK, Responses
    <2>3. NetworkInv' /\ LockInv' /\ EveryByteOnceInOrder' /\ QueueInv' /\ KillInv'
      BY <1>4 DEF waitForRoom, NetworkInv, LockInv, EveryByteOnceInOrder, QueueInv, KillInv, TypeOK,
                  Handler, Executor
    <2>4. AnnounceInv'
      BY <1>4 DEF waitForRoom, AnnounceInv, Waiting, Queued, Expected, TypeOK, Handler, Executor
    <2> QED BY <2>2, <2>3, <2>4
  <1> QED BY <1>1, <1>2, <1>3, <1>4

\* recvData of the layer, without the part that fills the buffer.
LEMMA LayerKeepsIInv ==
    ASSUME IInv,
           \/ recvData \/ acceptTCPConnection \/ acceptFailed
           \/ handleConnectionAttemptInConnected
           \/ lockFB \/ receiveFailed \/ receiveError \/ readQueueCount
    PROVE  IInv'
  <1> USE Constants DEF IInv, fb, queue, socket, buffer, stack
  <1>1. CASE recvData
    <2>1. h' \in Handler
      BY <1>1 DEF recvData, TypeOK, Handler
    <2>2. TypeOK'
      BY <1>1, <2>1 DEF recvData, TypeOK, Responses
    <2>3. NetworkInv' /\ LockInv' /\ EveryByteOnceInOrder' /\ QueueInv' /\ KillInv'
      BY <1>1 DEF recvData, NetworkInv, LockInv, EveryByteOnceInOrder, QueueInv, KillInv, TypeOK,
                  Handler, Executor
    <2>4. AnnounceInv'
      BY <1>1 DEF recvData, AnnounceInv, Waiting, Queued, Expected, TypeOK, Handler, Executor
    <2> QED BY <2>2, <2>3, <2>4
  <1>2. CASE acceptTCPConnection
    <2>1. h' \in Handler
      BY <1>2 DEF acceptTCPConnection, TypeOK, Handler
    <2>2. TypeOK'
      BY <1>2, <2>1 DEF acceptTCPConnection, TypeOK, Responses
    <2>3. NetworkInv'
      <3>1. attempts' <= n.connects /\ n' = n
        BY <1>2 DEF acceptTCPConnection, NetworkInv, TypeOK, Counters
      <3>2. 1 .. Len(tcp') - 1 = {}
        BY <1>2 DEF acceptTCPConnection
      <3> QED BY <3>1, <3>2 DEF NetworkInv
    <2>5. LockInv' /\ EveryByteOnceInOrder' /\ QueueInv' /\ KillInv'
      BY <1>2 DEF acceptTCPConnection, LockInv, EveryByteOnceInOrder, QueueInv, KillInv, TypeOK,
                  Handler, Executor
    <2>4. AnnounceInv'
      BY <1>2 DEF acceptTCPConnection, AnnounceInv, Waiting, Queued, Expected, TypeOK, Handler, Executor
    <2> QED BY <2>2, <2>3, <2>4, <2>5
  <1>3. CASE handleConnectionAttemptInConnected
    <2>1. h' \in Handler
      BY <1>3 DEF handleConnectionAttemptInConnected, TypeOK, Handler
    <2>2. TypeOK'
      BY <1>3, <2>1 DEF handleConnectionAttemptInConnected, TypeOK, Responses
    <2>3. NetworkInv'
      <3>1. attempts' <= n.connects /\ n' = n
        BY <1>3 DEF handleConnectionAttemptInConnected, NetworkInv, TypeOK, Counters
      <3> QED BY <1>3, <3>1 DEF handleConnectionAttemptInConnected, NetworkInv
    <2>5. LockInv' /\ EveryByteOnceInOrder' /\ QueueInv' /\ KillInv'
      BY <1>3 DEF handleConnectionAttemptInConnected, LockInv, EveryByteOnceInOrder, QueueInv, KillInv, TypeOK,
                  Handler, Executor
    <2>4. AnnounceInv'
      BY <1>3 DEF handleConnectionAttemptInConnected, AnnounceInv, Waiting, Queued, Expected, TypeOK, Handler, Executor
    <2> QED BY <2>2, <2>3, <2>4, <2>5
  <1>4. CASE lockFB
    <2>1. h' \in Handler
      BY <1>4 DEF lockFB, TypeOK, Handler
    <2>2. TypeOK'
      BY <1>4, <2>1 DEF lockFB, TypeOK, Responses
    <2>3. NetworkInv' /\ LockInv' /\ EveryByteOnceInOrder' /\ QueueInv' /\ KillInv'
      BY <1>4 DEF lockFB, NetworkInv, LockInv, EveryByteOnceInOrder, QueueInv, KillInv, TypeOK,
                  Handler, Executor
    <2>4. AnnounceInv'
      BY <1>4 DEF lockFB, AnnounceInv, Waiting, Queued, Expected, TypeOK, Handler, Executor
    <2> QED BY <2>2, <2>3, <2>4
  <1>5. CASE receiveFailed
    <2>1. h' \in Handler
      BY <1>5 DEF receiveFailed, TypeOK, Handler
    <2>2. TypeOK'
      BY <1>5, <2>1 DEF receiveFailed, TypeOK, Responses
    <2>3. NetworkInv' /\ LockInv' /\ EveryByteOnceInOrder' /\ QueueInv' /\ KillInv'
      BY <1>5 DEF receiveFailed, NetworkInv, LockInv, EveryByteOnceInOrder, QueueInv, KillInv, TypeOK,
                  Handler, Executor
    <2>4. AnnounceInv'
      BY <1>5 DEF receiveFailed, AnnounceInv, Waiting, Queued, Expected, TypeOK, Handler, Executor
    <2> QED BY <2>2, <2>3, <2>4
  <1>6. CASE readQueueCount
    <2>1. h' \in Handler
      BY <1>6 DEF readQueueCount, TypeOK, Handler
    <2>2. TypeOK'
      BY <1>6, <2>1 DEF readQueueCount, TypeOK, Responses
    <2>3. NetworkInv' /\ LockInv' /\ EveryByteOnceInOrder' /\ QueueInv' /\ KillInv'
      BY <1>6 DEF readQueueCount, NetworkInv, LockInv, EveryByteOnceInOrder, QueueInv, KillInv, TypeOK,
                  Handler, Executor
    <2>4. AnnounceInv'
      BY <1>6 DEF readQueueCount, AnnounceInv, Waiting, Queued, Expected, TypeOK, Handler, Executor
    <2> QED BY <2>2, <2>3, <2>4
  <1>7. CASE acceptFailed
    <2>1. h' \in Handler
      BY <1>7 DEF acceptFailed, TypeOK, Handler
    <2>2. TypeOK'
      <3>1. attempts' \in 0 .. MaxConnects
        BY <1>7, Constants DEF acceptFailed, TypeOK
      <3>2. mSocketID' \in BOOLEAN
        BY <1>7 DEF acceptFailed
      <3> QED BY <1>7, <2>1, <3>1, <3>2 DEF acceptFailed, TypeOK, Responses
    <2>3. NetworkInv'
      <3>1. attempts' <= n.connects /\ n' = n
        BY <1>7 DEF acceptFailed, NetworkInv, TypeOK, Counters
      <3> QED BY <1>7, <3>1 DEF acceptFailed, NetworkInv
    <2>4. LockInv' /\ EveryByteOnceInOrder' /\ QueueInv' /\ KillInv'
      BY <1>7 DEF acceptFailed, LockInv, EveryByteOnceInOrder, QueueInv, KillInv, TypeOK,
                  Handler, Executor
    <2>5. AnnounceInv'
      BY <1>7 DEF acceptFailed, AnnounceInv, Waiting, Queued, Expected, TypeOK, Handler, Executor
    <2> QED BY <2>2, <2>3, <2>4, <2>5
  <1>8. CASE receiveError
    <2>1. h' \in Handler
      BY <1>8 DEF receiveError, TypeOK, Handler
    <2>2. n' \in Counters /\ n'.connects = n.connects /\ n'.kills = n.kills
      <3>1. n \in Counters /\ n' = [n EXCEPT !.errors = @ + 1]
        BY <1>8 DEF receiveError, TypeOK
      <3>2. n.errors + 1 \in Nat
        BY <3>1 DEF Counters
      <3> QED BY <3>1, <3>2 DEF Counters
    <2>3. TypeOK'
      BY <1>8, <2>1, <2>2 DEF receiveError, TypeOK, Responses
    <2>4. NetworkInv' /\ LockInv' /\ EveryByteOnceInOrder' /\ QueueInv' /\ KillInv'
      BY <1>8, <2>2 DEF receiveError, NetworkInv, LockInv, EveryByteOnceInOrder, QueueInv,
                        KillInv, TypeOK, Handler, Executor
    <2>5. AnnounceInv'
      BY <1>8 DEF receiveError, AnnounceInv, Waiting
    <2> QED BY <2>3, <2>4, <2>5
  <1> QED BY <1>1, <1>2, <1>3, <1>4, <1>5, <1>6, <1>7, <1>8

\* The layer takes data from the network: the executing thread is not at the buffer.
LEMMA ReceiveKeepsIInv ==
    ASSUME IInv, receiveData
    PROVE  IInv'
  <1> USE DEF IInv
  <1>1. PICK k \in 1 .. BufferSize - Len(mRecvBuffer) :
           /\ k <= Len(tcp) /\ tcp[k] # 0
           /\ mRecvBuffer' = mRecvBuffer \o SubSeq(tcp, 1, k)
           /\ received' = received \o SubSeq(tcp, 1, k)
           /\ tcp' = SubSeq(tcp, k + 1, Len(tcp))
    BY DEF receiveData
  <1>2. /\ mRecvBuffer \in Seq(1 .. MaxSent) /\ received \in Seq(1 .. MaxSent)
        /\ handedUp \in Seq(1 .. MaxSent) /\ tcp \in Seq(0 .. MaxSent)
        /\ Len(mRecvBuffer) \in Nat /\ Len(tcp) \in Nat
    BY DEF TypeOK
  <1>3. k \in 1 .. Len(tcp) /\ k \in Nat /\ Len(mRecvBuffer) + k <= BufferSize
    BY <1>1, <1>2, Constants
  <1>4. PICK piece : piece = SubSeq(tcp, 1, k)
    OBVIOUS
  <1>5. piece \in Seq(1 .. MaxSent) /\ Len(piece) = k
    <2>1. \A i \in 1 .. k : tcp[i] \in 0 .. MaxSent /\ tcp[i] # 0
      <3> TAKE i \in 1 .. k
      <3>1. i \in 1 .. Len(tcp)
        BY <1>3
      <3>2. i = k \/ i \in 1 .. Len(tcp) - 1
        BY <1>2, <1>3
      <3>3. tcp[i] \in 0 .. MaxSent
        BY <1>2, <3>1, ElementOfSeq
      <3> QED BY <1>1, <3>2, <3>3 DEF NetworkInv
    <2>2. \A i \in 1 .. k : tcp[i] \in 1 .. MaxSent
      BY <2>1, Constants
    <2>3. piece = [i \in 1 .. k |-> tcp[i]]
      BY <1>2, <1>3, <1>4
    <2> QED BY <1>3, <2>2, <2>3
  <1>6. /\ tcp' \in Seq(0 .. MaxSent) /\ Len(tcp') = Len(tcp) - k
        /\ \A i \in 1 .. Len(tcp) - k : tcp'[i] = tcp[i + k]
    <2>0. k + 1 \in Int /\ Len(tcp) \in Int
      BY <1>2, <1>3
    <2>1. \A i \in k + 1 .. Len(tcp) : tcp[i] \in 0 .. MaxSent
      <3> TAKE i \in k + 1 .. Len(tcp)
      <3>1. i \in 1 .. Len(tcp)
        BY <1>3, <2>0
      <3> QED BY <1>2, <3>1, ElementOfSeq
    <2>2. /\ SubSeq(tcp, k + 1, Len(tcp)) \in Seq(0 .. MaxSent)
          /\ Len(SubSeq(tcp, k + 1, Len(tcp))) =
                IF k + 1 <= Len(tcp) THEN Len(tcp) - (k + 1) + 1 ELSE 0
          /\ \A i \in 1 .. Len(tcp) - (k + 1) + 1 :
                SubSeq(tcp, k + 1, Len(tcp))[i] = tcp[(k + 1) + i - 1]
      BY <2>0, <2>1, SubSeqProperties
    <2>3. \A i \in 1 .. Len(tcp) - k : (k + 1) + i - 1 = i + k
      BY <1>2, <1>3
    <2>4. Len(tcp) - (k + 1) + 1 = Len(tcp) - k
      BY <1>2, <1>3
    <2>5. (IF k + 1 <= Len(tcp) THEN Len(tcp) - (k + 1) + 1 ELSE 0) = Len(tcp) - k
      BY <1>2, <1>3
    <2> QED BY <1>1, <2>2, <2>3, <2>4, <2>5
  <1>7. /\ mRecvBuffer' \in Seq(1 .. MaxSent) /\ Len(mRecvBuffer') <= BufferSize
        /\ received' \in Seq(1 .. MaxSent)
    BY <1>1, <1>2, <1>3, <1>4, <1>5
  <1>8. h' \in Handler /\ h'.pc = "interrupt" /\ h.pc = "receive"
    BY DEF receiveData, TypeOK, Handler
  <1>9. TypeOK'
    BY <1>6, <1>7, <1>8 DEF receiveData, fb, queue, TypeOK, Responses
  <1>10. NetworkInv'
    <2>1. \A i \in 1 .. Len(tcp') - 1 : i + k \in 1 .. Len(tcp) - 1 /\ i \in 1 .. Len(tcp) - k
      BY <1>2, <1>3, <1>6
    <2> QED BY <1>6, <2>1 DEF receiveData, NetworkInv
  <1>11. LockInv' /\ QueueInv' /\ KillInv' /\ AnnounceInv'
    BY <1>8 DEF receiveData, fb, queue, LockInv, QueueInv, KillInv, AnnounceInv
  <1>12. EveryByteOnceInOrder'
    <2>1. e.pc # "clear" /\ e' = e /\ handedUp' = handedUp
      BY <1>8 DEF receiveData, LockInv
    <2>2. received = handedUp \o mRecvBuffer
      BY <2>1 DEF EveryByteOnceInOrder
    <2>3. (handedUp \o mRecvBuffer) \o piece = handedUp \o (mRecvBuffer \o piece)
      BY <1>2, <1>5
    <2> QED BY <1>1, <1>4, <2>1, <2>2, <2>3 DEF EveryByteOnceInOrder
  <1> QED BY <1>9, <1>10, <1>11, <1>12

\* The layer learns that the peer has closed.
LEMMA ClosedByPeerKeepsIInv ==
    ASSUME IInv, connectionClosedByPeer
    PROVE  IInv'
  <1> USE DEF IInv
  <1>1. h' \in Handler /\ h'.pc = "interrupt" /\ h.pc = "receive"
    BY DEF connectionClosedByPeer, TypeOK, Handler
  <1>2. tcp' = <<>> /\ tcp' \in Seq(0 .. MaxSent) /\ Len(tcp') = 0
    BY DEF connectionClosedByPeer, closeSocket
  <1>3. /\ mConnectionsList' \subseteq {"socket", "listening"} /\ mSocketID' \in BOOLEAN
        /\ mInterruptResp' = "InitTerminated"
        /\ mConnectionState' \in {"Disconnected", "Listening", "Connected"}
    BY DEF connectionClosedByPeer, closeSocket, TypeOK
  <1>4. TypeOK'
    BY <1>1, <1>2, <1>3 DEF connectionClosedByPeer, fb, queue, buffer, TypeOK, Responses
  <1>5. NetworkInv'
    BY <1>2 DEF connectionClosedByPeer, NetworkInv
  <1>6. LockInv' /\ EveryByteOnceInOrder' /\ QueueInv' /\ KillInv'
    BY <1>1 DEF connectionClosedByPeer, fb, queue, buffer, LockInv, EveryByteOnceInOrder,
                QueueInv, KillInv
  <1>7. AnnounceInv'
    BY <1>3 DEF AnnounceInv, Waiting
  <1> QED BY <1>4, <1>5, <1>6, <1>7

\* The interrupt is written: whatever the count has become meanwhile, the new one is
\* larger than all that the executing thread has seen.
LEMMA InterruptKeepsIInv ==
    ASSUME IInv, interruptCommFB
    PROVE  IInv'
  <1> USE DEF IInv
  <1>1. /\ h \in Handler /\ h.pc = "store" /\ h.count \in 0 .. QueueSize
        /\ h.callee \in 0 .. MaxOpens /\ e \in Executor /\ QueueSize \in Nat
        /\ mComInterruptQueueCount \in 0 .. QueueSize /\ mComInterruptQueueCount <= h.count
        /\ mInterruptQueue \in [1 .. QueueSize -> QueueEntry]
    BY Constants DEF interruptCommFB, TypeOK, Handler, QueueInv
  <1>2. h' \in Handler /\ h'.pc = "return" /\ mFBLock' = "free" /\ e' = e
    <2>1. h' = [h EXCEPT !.pc = "return", !.count = 0]
      BY DEF interruptCommFB
    <2>2. 0 \in 0 .. QueueSize
      BY <1>1
    <2>3. h' \in Handler /\ h'.pc = "return"
      BY <1>1, <2>1, <2>2 DEF Handler
    <2> QED BY <2>3 DEF interruptCommFB
  <1>3. lost' \in BOOLEAN
    BY DEF interruptCommFB
  <1>4. CASE h.count < QueueSize
    <2>1. /\ mInterruptQueue' = [i \in DOMAIN mInterruptQueue |->
                                    IF i = h.count + 1 THEN h.callee ELSE mInterruptQueue[i]]
          /\ mComInterruptQueueCount' = h.count + 1
      BY <1>4 DEF interruptCommFB, roomInQueue
    <2>0. h.callee \in QueueEntry
      BY <1>1 DEF QueueEntry
    <2>2. /\ mInterruptQueue' \in [1 .. QueueSize -> QueueEntry]
          /\ mComInterruptQueueCount' \in 0 .. QueueSize
          /\ mComInterruptQueueCount' >= mComInterruptQueueCount + 1
      BY <1>1, <1>4, <2>0, <2>1
    <2>3. TypeOK'
      BY <1>2, <1>3, <2>2 DEF interruptCommFB, fb, socket, buffer, stack, TypeOK
    <2>4. e.copy \in Nat /\ e.count \in Nat /\ e.i \in Nat
      BY <1>1 DEF Executor
    <2>5. QueueInv'
      BY <1>1, <1>2, <2>2, <2>4 DEF QueueInv
    <2>6. AnnounceInv'
      <3>1. /\ mComInterruptQueueCount \in Nat /\ mComInterruptQueueCount' \in Nat
            /\ mComInterruptQueueCount' >= mComInterruptQueueCount + 1
        BY <1>1, <2>2
      <3>2. Queued'
        BY <1>2, <2>4, <3>1 DEF QueueInv, Queued
      <3> QED BY <1>2, <3>2 DEF AnnounceInv, Expected
    <2> QED
      BY <1>1, <1>2, <2>3, <2>5, <2>6 DEF interruptCommFB, fb, socket, buffer, stack,
         NetworkInv, LockInv, EveryByteOnceInOrder, KillInv
  <1>5. CASE ~(h.count < QueueSize)
    <2>1. /\ mInterruptQueue' = mInterruptQueue /\ lost'
          /\ mComInterruptQueueCount' = mComInterruptQueueCount
      BY <1>5 DEF interruptCommFB, roomInQueue, queue
    <2>2. TypeOK'
      BY <1>2, <1>3, <2>1 DEF interruptCommFB, fb, socket, buffer, stack, TypeOK
    <2>3. QueueInv' /\ AnnounceInv'
      BY <1>2, <2>1 DEF QueueInv, AnnounceInv
    <2> QED
      BY <1>1, <1>2, <2>2, <2>3 DEF interruptCommFB, fb, socket, buffer, stack,
         NetworkInv, LockInv, EveryByteOnceInOrder, KillInv
  <1> QED BY <1>4, <1>5

\* recvData returns: what it leaves has an event that will look at it.
LEMMA ReturnKeepsIInv ==
    ASSUME IInv, returnFromRecvData
    PROVE  IInv'
  <1> USE DEF IInv, fb, queue, socket, buffer, stack
  <1>1. h' \in Handler /\ h'.pc = "next" /\ h.pc = "return"
    BY DEF returnFromRecvData, TypeOK, Handler
  <1>2. /\ chains' \in 0 .. ChainCap /\ chains' >= chains
        /\ mInterruptResp # "Nothing" => chains' > 0 \/ lost'
    <2>1. chains \in 0 .. ChainCap /\ ChainCap \in Nat
      BY Constants DEF TypeOK
    <2>2. CASE mInterruptResp = "Nothing"
      BY <2>1, <2>2 DEF returnFromRecvData
    <2>3. CASE mInterruptResp # "Nothing" /\ chains < ChainCap
      <3>1. chains' = chains + 1
        BY <2>3 DEF returnFromRecvData
      <3> QED BY <2>1, <2>3, <3>1
    <2>4. CASE mInterruptResp # "Nothing" /\ chains >= ChainCap
      <3>1. chains' = chains
        BY <2>1, <2>4 DEF returnFromRecvData
      <3>2. lost'
        BY <2>4 DEF returnFromRecvData
      <3> QED BY <2>1, <3>1, <3>2
    <2> QED BY <2>1, <2>2, <2>3, <2>4
  <1>3. lost' \in BOOLEAN /\ (lost => lost')
    <2>1. CASE mInterruptResp = "Nothing"
      BY <2>1 DEF returnFromRecvData, TypeOK
    <2>2. CASE mInterruptResp # "Nothing"
      BY <2>2 DEF returnFromRecvData
    <2> QED BY <2>1, <2>2
  <1>4. TypeOK'
    BY <1>1, <1>2, <1>3 DEF returnFromRecvData, TypeOK
  <1>5. NetworkInv' /\ LockInv' /\ EveryByteOnceInOrder' /\ QueueInv' /\ KillInv'
    BY <1>1 DEF returnFromRecvData, NetworkInv, LockInv, EveryByteOnceInOrder, QueueInv, KillInv
  <1>6. AnnounceInv'
    <2>1. chains \in Nat /\ chains' \in Nat
      BY <1>2, Constants DEF TypeOK
    <2>2. Waiting' => Waiting /\ (chains' > 0 \/ lost')
      BY <1>2 DEF returnFromRecvData, Waiting
    <2>3. Queued => Queued'
      BY DEF returnFromRecvData, Queued
    <2>4. chains' > 0 => Expected'
      BY DEF Expected
    <2> QED BY <1>1, <1>3, <2>2, <2>3, <2>4 DEF returnFromRecvData, AnnounceInv
  <1> QED BY <1>4, <1>5, <1>6

-----------------------------------------------------------------------------
(* The executing thread *)

\* The steps that change little.
LEMMA ExecutionKeepsIInv ==
    ASSUME IInv, processInterrupt \/ lockForUpperLayer \/ clearBuffer \/ listenOnSend
    PROVE  IInv'
  <1> USE DEF IInv, fb, queue, socket, buffer, stack
  <1>1. CASE processInterrupt
    <2>1. e' \in Executor
      BY <1>1 DEF processInterrupt, Goes, TypeOK, Executor, Responses
    <2>2. TypeOK'
      BY <1>1, <2>1 DEF processInterrupt, Goes, TypeOK, Responses
    <2>3. NetworkInv' /\ LockInv' /\ EveryByteOnceInOrder' /\ QueueInv' /\ KillInv'
      BY <1>1 DEF processInterrupt, Goes, NetworkInv, LockInv, EveryByteOnceInOrder, QueueInv, KillInv, TypeOK,
                  Handler, Executor
    <2>4. AnnounceInv'
      BY <1>1 DEF processInterrupt, Goes, AnnounceInv, Waiting, Queued, Expected, TypeOK, Handler, Executor
    <2> QED BY <2>2, <2>3, <2>4
  <1>2. CASE lockForUpperLayer
    <2>1. e' \in Executor
      BY <1>2 DEF lockForUpperLayer, Goes, TypeOK, Executor, Responses
    <2>2. TypeOK'
      BY <1>2, <2>1 DEF lockForUpperLayer, Goes, TypeOK, Responses
    <2>3. NetworkInv' /\ LockInv' /\ EveryByteOnceInOrder' /\ QueueInv' /\ KillInv'
      BY <1>2 DEF lockForUpperLayer, Goes, NetworkInv, LockInv, EveryByteOnceInOrder, QueueInv, KillInv, TypeOK,
                  Handler, Executor
    <2>4. AnnounceInv'
      BY <1>2 DEF lockForUpperLayer, Goes, AnnounceInv, Waiting, Queued, Expected, TypeOK, Handler, Executor
    <2> QED BY <2>2, <2>3, <2>4
  <1>3. CASE clearBuffer
    <2>1. e' \in Executor
      BY <1>3 DEF clearBuffer, Goes, TypeOK, Executor, Responses
    <2>5. mRecvBuffer' \in Seq(1 .. MaxSent) /\ Len(mRecvBuffer') <= BufferSize
      BY <1>3, Constants DEF clearBuffer
    <2>2. TypeOK'
      BY <1>3, <2>1, <2>5 DEF clearBuffer, TypeOK
    <2>3. NetworkInv' /\ LockInv' /\ EveryByteOnceInOrder' /\ QueueInv' /\ KillInv'
      BY <1>3 DEF clearBuffer, Goes, NetworkInv, LockInv, EveryByteOnceInOrder, QueueInv, KillInv, TypeOK,
                  Handler, Executor
    <2>4. AnnounceInv'
      BY <1>3 DEF clearBuffer, Goes, AnnounceInv, Waiting, Queued, Expected, TypeOK, Handler, Executor
    <2> QED BY <2>2, <2>3, <2>4
  <1>4. CASE listenOnSend
    <2>1. e' \in Executor
      BY <1>4 DEF listenOnSend, Goes, TypeOK, Executor, Responses
    <2>2. TypeOK'
      BY <1>4, <2>1 DEF listenOnSend, Goes, TypeOK, Responses
    <2>3. NetworkInv' /\ LockInv' /\ EveryByteOnceInOrder' /\ QueueInv' /\ KillInv'
      BY <1>4 DEF listenOnSend, Goes, NetworkInv, LockInv, EveryByteOnceInOrder, QueueInv, KillInv, TypeOK,
                  Handler, Executor
    <2>4. AnnounceInv'
      BY <1>4 DEF listenOnSend, Goes, AnnounceInv, Waiting, Queued, Expected, TypeOK, Handler, Executor
    <2> QED BY <2>2, <2>3, <2>4
  <1> QED BY <1>1, <1>2, <1>3, <1>4

\* An external event: when the block runs, it will look at all interrupts there are.
LEMMA ExternalEventKeepsIInv ==
    ASSUME IInv, externalEvent
    PROVE  IInv'
  <1> USE DEF IInv, fb, queue, socket, buffer, stack
  <1>1. /\ e \in Executor /\ mComInterruptQueueCount \in 0 .. QueueSize /\ QueueSize \in Nat
        /\ chains \in 0 .. ChainCap /\ ChainCap \in Nat /\ e.pc = "idle"
    BY Constants DEF externalEvent, TypeOK
  <1>2. chains' \in 0 .. ChainCap
    BY <1>1 DEF externalEvent
  <1>3. CASE mFBState = "Running"
    <2>1. e' = [e EXCEPT !.pc = "process", !.copy = mComInterruptQueueCount, !.i = 1]
      BY <1>3 DEF externalEvent
    <2>2. /\ e' \in Executor /\ e'.pc = "process" /\ e'.copy = mComInterruptQueueCount
          /\ e'.i = 1
      BY <1>1, <2>1 DEF Executor
    <2>3. TypeOK'
      BY <1>2, <2>2 DEF externalEvent, TypeOK
    <2>4. QueueInv'
      BY <1>1, <2>2 DEF externalEvent, QueueInv
    <2>5. NetworkInv' /\ LockInv' /\ EveryByteOnceInOrder' /\ KillInv'
      BY <1>1, <2>2 DEF externalEvent, NetworkInv, LockInv, EveryByteOnceInOrder, KillInv
    <2>6. AnnounceInv'
      <3>1. mComInterruptQueueCount > 0 => Queued' /\ Expected'
        BY <1>1, <2>2 DEF externalEvent, Queued, Expected
      <3>2. Queued => mComInterruptQueueCount > 0
        BY <1>1 DEF Queued
      <3> QED BY <1>1, <3>1, <3>2 DEF externalEvent, AnnounceInv, Waiting
    <2> QED BY <2>3, <2>4, <2>5, <2>6
  <1>4. CASE mFBState # "Running"
    <2>1. e' = e
      BY <1>4 DEF externalEvent
    <2>2. TypeOK'
      BY <1>2, <2>1 DEF externalEvent, TypeOK
    <2>3. NetworkInv' /\ LockInv' /\ EveryByteOnceInOrder' /\ QueueInv' /\ KillInv'
      BY <2>1 DEF externalEvent, NetworkInv, LockInv, EveryByteOnceInOrder, QueueInv, KillInv
    <2>4. n.kills > 0 /\ n' = n
      BY <1>4 DEF externalEvent, KillInv, TypeOK
    <2>5. AnnounceInv'
      BY <2>1, <2>4 DEF externalEvent, AnnounceInv, Waiting
    <2> QED BY <2>2, <2>3, <2>5
  <1> QED BY <1>3, <1>4

\* The upper layer has the buffer: what it was given is no longer counted as waiting.
LEMMA HandKeepsIInv ==
    ASSUME IInv, handToUpperLayer
    PROVE  IInv'
  <1> USE DEF IInv, fb, queue, socket, buffer, stack
  <1>1. /\ e' \in Executor /\ e.pc = "hand" /\ e'.pc = "clear" /\ e'.copy = e.copy
        /\ e'.i = e.i /\ e'.count = e.count
    BY DEF handToUpperLayer, Goes, TypeOK, Executor
  <1>2. /\ handedUp \in Seq(1 .. MaxSent) /\ mRecvBuffer \in Seq(1 .. MaxSent)
        /\ received \in Seq(1 .. MaxSent)
    BY DEF TypeOK
  <1>3. handedUp' = handedUp \o mRecvBuffer /\ handedUp' \in Seq(1 .. MaxSent)
    BY <1>2 DEF handToUpperLayer
  <1>4. mInterruptResp' \in Responses
    BY DEF handToUpperLayer, Responses
  <1>5. TypeOK'
    BY <1>1, <1>3, <1>4 DEF handToUpperLayer, TypeOK
  <1>6. EveryByteOnceInOrder'
    <2>1. received' = handedUp'
      BY <1>1, <1>3 DEF handToUpperLayer, EveryByteOnceInOrder
    <2>2. handedUp' \o <<>> = handedUp'
      BY <1>3
    <2> QED BY <1>1, <2>1, <2>2 DEF EveryByteOnceInOrder
  <1>7. NetworkInv' /\ LockInv' /\ QueueInv' /\ KillInv'
    BY <1>1 DEF handToUpperLayer, NetworkInv, LockInv, QueueInv, KillInv
  <1>8. AnnounceInv'
    BY <1>1 DEF AnnounceInv
  <1> QED BY <1>5, <1>6, <1>7, <1>8

\* The next interrupt is looked at.
LEMMA KeepResponseKeepsIInv ==
    ASSUME IInv, keepResponse
    PROVE  IInv'
  <1> USE DEF IInv, fb, queue, socket, buffer, stack
  <1>1. /\ e \in Executor /\ e.pc = "response" /\ mInterruptResp \in Responses
        /\ mComInterruptQueueCount \in Nat
    BY Constants DEF keepResponse, TypeOK
  <1>2. PICK resp \in Responses : e' = [e EXCEPT !.pc = "process", !.i = @ + 1, !.resp = resp]
    <2>1. CASE Code(mInterruptResp) > Code(e.resp)
      BY <1>1, <2>1 DEF keepResponse
    <2>2. CASE ~(Code(mInterruptResp) > Code(e.resp))
      <3>1. e.resp \in Responses
        BY <1>1 DEF Executor
      <3> QED BY <2>2, <3>1 DEF keepResponse
    <2> QED BY <2>1, <2>2
  <1>3. /\ e' \in Executor /\ e'.pc = "process" /\ e'.i = e.i + 1 /\ e'.copy = e.copy
        /\ e.i \in Nat /\ e.copy \in Nat
    <2>1. e.i \in Nat /\ e.i + 1 \in Nat /\ e.copy \in 0 .. QueueSize
      BY <1>1 DEF Executor
    <2>2. e' \in Executor /\ e'.pc = "process" /\ e'.i = e.i + 1 /\ e'.copy = e.copy
      BY <1>1, <1>2, <2>1 DEF Executor
    <2> QED BY <2>1, <2>2, Constants
  <1>4. TypeOK'
    BY <1>3 DEF keepResponse, TypeOK
  <1>5. NetworkInv' /\ LockInv' /\ EveryByteOnceInOrder' /\ KillInv'
    BY <1>1, <1>3 DEF keepResponse, NetworkInv, LockInv, EveryByteOnceInOrder, KillInv
  <1>6. QueueInv'
    BY <1>1, <1>3 DEF keepResponse, QueueInv
  <1>7. AnnounceInv'
    <2>1. Queued => Queued'
      BY <1>1, <1>3 DEF keepResponse, Queued
    <2>2. Expected => Expected'
      BY <1>1, <1>3 DEF keepResponse, Expected
    <2> QED BY <1>1, <1>3, <2>1, <2>2 DEF keepResponse, AnnounceInv, Waiting
  <1> QED BY <1>4, <1>5, <1>6, <1>7

\* All interrupts of the copy have been looked at: one that has not is beyond them.
LEMMA ProcessedKeepsIInv ==
    ASSUME IInv, interruptsProcessed
    PROVE  IInv'
  <1> USE DEF IInv, fb, queue, socket, buffer, stack
  <1>1. /\ e \in Executor /\ e.pc = "process" /\ e.i > e.copy
        /\ mComInterruptQueueCount \in 0 .. QueueSize /\ mComInterruptQueueCount \in Nat
    BY Constants DEF interruptsProcessed, TypeOK
  <1>2. e' = [e EXCEPT !.pc = "store", !.count = mComInterruptQueueCount]
    BY DEF interruptsProcessed
  <1>3. /\ e' \in Executor /\ e'.pc = "store" /\ e'.count = mComInterruptQueueCount
        /\ e'.copy = e.copy /\ e.i \in Nat /\ e.copy \in Nat
    <2>1. e.i \in Nat /\ e.copy \in 0 .. QueueSize
      BY <1>1 DEF Executor
    <2>2. /\ e' \in Executor /\ e'.pc = "store" /\ e'.count = mComInterruptQueueCount
          /\ e'.copy = e.copy
      BY <1>1, <1>2 DEF Executor
    <2> QED BY <2>1, <2>2, Constants
  <1>4. TypeOK'
    BY <1>3 DEF interruptsProcessed, TypeOK
  <1>5. NetworkInv' /\ LockInv' /\ EveryByteOnceInOrder' /\ KillInv'
    BY <1>1, <1>3 DEF interruptsProcessed, NetworkInv, LockInv, EveryByteOnceInOrder, KillInv
  <1>6. QueueInv'
    BY <1>1, <1>3 DEF interruptsProcessed, QueueInv
  <1>7. AnnounceInv'
    <2>1. Queued => Queued'
      BY <1>1, <1>3 DEF interruptsProcessed, Queued
    <2>2. Expected => Expected'
      BY <1>1, <1>3 DEF interruptsProcessed, Expected
    <2> QED BY <1>1, <1>3, <2>1, <2>2 DEF interruptsProcessed, AnnounceInv, Waiting
  <1> QED BY <1>4, <1>5, <1>6, <1>7

\* The interrupts of the copy are taken off the count: those that came later stay, unless
\* the two threads met.
LEMMA RemoveKeepsIInv ==
    ASSUME IInv, removeInterrupts
    PROVE  IInv'
  <1> USE DEF IInv, fb, queue, socket, buffer, stack
  <1>1. /\ e \in Executor /\ e.pc = "store" /\ h \in Handler /\ QueueSize \in Nat
        /\ mComInterruptQueueCount \in 0 .. QueueSize
        /\ e.copy <= e.count /\ e.count <= mComInterruptQueueCount
    BY Constants DEF removeInterrupts, TypeOK, QueueInv
  <1>2. /\ e' \in Executor /\ e'.pc = "shift" /\ e'.i = 1 /\ e'.copy = e.copy
        /\ e'.count = e.count
    BY <1>1 DEF removeInterrupts, Executor
  <1>3. e.copy \in Nat /\ e.count \in Nat /\ h.count \in Nat
    BY <1>1 DEF Executor, Handler
  <1>4. PICK rest \in 0 .. QueueSize : rest = e.count - e.copy
    BY <1>1, <1>3
  <1>5. mComInterruptQueueCount' = rest
    BY <1>4 DEF removeInterrupts
  <1>7. lost' \in BOOLEAN /\ (lost' \/ (~lost /\ e.count = mComInterruptQueueCount))
    <2>1. lost' = (lost \/ e.count # mComInterruptQueueCount)
      BY DEF removeInterrupts
    <2> QED BY <2>1, Zenon
  <1>8. TypeOK'
    BY <1>2, <1>5, <1>7 DEF removeInterrupts, TypeOK
  <1>9. NetworkInv' /\ LockInv' /\ EveryByteOnceInOrder' /\ KillInv'
    BY <1>1, <1>2 DEF removeInterrupts, NetworkInv, LockInv, EveryByteOnceInOrder, KillInv
  <1>10. QueueInv'
    <2>1. h.pc = "store" => rest <= h.count
      BY <1>1, <1>3, <1>4 DEF QueueInv
    <2>2. e'.copy <= e'.count /\ e'.count - e'.copy <= mComInterruptQueueCount' /\ e'.i >= 1
      BY <1>1, <1>2, <1>3, <1>4, <1>5
    <2> QED BY <1>2, <1>5, <2>1, <2>2 DEF removeInterrupts, QueueInv
  <1>11. AnnounceInv'
    <2>1. CASE lost'
      BY <1>1, <2>1 DEF removeInterrupts, AnnounceInv, Waiting
    <2>2. CASE ~lost /\ e.count = mComInterruptQueueCount
      <3>1. Queued => rest > 0
        BY <1>1, <1>3, <1>4, <2>2 DEF Queued
      <3>2. rest > 0 => Queued'
        BY <1>2, <1>5 DEF Queued
      <3>3. Expected => Expected'
        BY <1>1 DEF removeInterrupts, Expected
      <3> QED BY <1>1, <2>2, <3>1, <3>2, <3>3 DEF removeInterrupts, AnnounceInv, Waiting
    <2> QED BY <1>7, <2>1, <2>2
  <1> QED BY <1>8, <1>9, <1>10, <1>11

\* One entry is moved, or there is none left to move.
LEMMA ShiftKeepsIInv ==
    ASSUME IInv, shiftInterrupts
    PROVE  IInv'
  <1> USE DEF IInv, fb, queue, socket, buffer, stack
  <1>1. /\ e \in Executor /\ e.pc = "shift" /\ QueueSize \in Nat
        /\ mComInterruptQueueCount \in 0 .. QueueSize /\ e.i >= 1
        /\ e.copy <= e.count /\ e.count - e.copy <= mComInterruptQueueCount
        /\ mInterruptQueue \in [1 .. QueueSize -> QueueEntry]
    BY Constants DEF shiftInterrupts, TypeOK, QueueInv
  <1>2. e.copy \in Nat /\ e.count \in Nat /\ e.i \in Nat
    BY <1>1 DEF Executor
  <1>3. CASE e.i <= mComInterruptQueueCount
    <2>1. PICK x : /\ x = IF e.i + e.copy <= QueueSize
                          THEN mInterruptQueue[e.i + e.copy] ELSE Garbage
                   /\ mInterruptQueue' = [mInterruptQueue EXCEPT ![e.i] = x]
      BY <1>3 DEF shiftInterrupts
    <2>2. x \in QueueEntry
      <3>1. e.i + e.copy <= QueueSize => e.i + e.copy \in 1 .. QueueSize
        BY <1>1, <1>2
      <3> QED BY <1>1, <2>1, <3>1 DEF QueueEntry
    <2>3. mInterruptQueue' \in [1 .. QueueSize -> QueueEntry]
      BY <1>1, <2>1, <2>2
    <2>4. e' = [e EXCEPT !.i = @ + 1] /\ lost' = (lost \/ e.i > e.count - e.copy)
      BY <1>3 DEF shiftInterrupts
    <2>5. /\ e' \in Executor /\ e'.pc = "shift" /\ e'.i = e.i + 1 /\ e'.copy = e.copy
          /\ e'.count = e.count
      BY <1>1, <1>2, <2>4 DEF Executor
    <2>6. lost' \in BOOLEAN /\ (lost => lost')
      BY <2>4, Zenon
    <2>7. TypeOK'
      BY <2>3, <2>5, <2>6 DEF shiftInterrupts, TypeOK
    <2>8. NetworkInv' /\ LockInv' /\ EveryByteOnceInOrder' /\ KillInv'
      BY <1>1, <2>5 DEF shiftInterrupts, NetworkInv, LockInv, EveryByteOnceInOrder, KillInv
    <2>9. QueueInv'
      <3>1. e'.i >= 1
        BY <1>2, <2>5
      <3> QED BY <1>1, <2>5, <3>1 DEF shiftInterrupts, QueueInv
    <2>10. AnnounceInv'
      <3>1. (Queued => Queued') /\ (Expected => Expected')
        BY <1>1, <2>5 DEF shiftInterrupts, Queued, Expected
      <3> QED BY <1>1, <2>5, <2>6, <3>1 DEF shiftInterrupts, AnnounceInv, Waiting
    <2> QED BY <2>7, <2>8, <2>9, <2>10
  <1>4. CASE ~(e.i <= mComInterruptQueueCount)
    <2>1. /\ e' = [e EXCEPT !.pc = "answer", !.copy = 0, !.i = 0, !.count = 0]
          /\ UNCHANGED <<mInterruptQueue, lost>>
      BY <1>4 DEF shiftInterrupts
    <2>2. e' \in Executor /\ e'.pc = "answer"
      <3>1. 0 \in 0 .. QueueSize
        BY <1>1
      <3> QED BY <1>1, <2>1, <3>1 DEF Executor
    <2>3. TypeOK'
      BY <2>1, <2>2 DEF shiftInterrupts, TypeOK
    <2>4. NetworkInv' /\ LockInv' /\ EveryByteOnceInOrder' /\ QueueInv' /\ KillInv'
      BY <1>1, <2>2 DEF shiftInterrupts, NetworkInv, LockInv, EveryByteOnceInOrder, QueueInv,
                        KillInv
    <2>5. AnnounceInv'
      <3>1. (Queued => Queued') /\ (Expected => Expected')
        BY <1>1, <2>2 DEF shiftInterrupts, Queued, Expected
      <3> QED BY <1>1, <2>1, <2>2, <3>1 DEF shiftInterrupts, AnnounceInv, Waiting
    <2> QED BY <2>3, <2>4, <2>5
  <1> QED BY <1>3, <1>4

\* A null pointer is passed over: then something has been lost before.
LEMMA SkipKeepsIInv ==
    ASSUME IInv, NullInv, skipNull
    PROVE  IInv'
  <1> USE DEF IInv, fb, queue, socket, buffer, stack
  <1>1. /\ e \in Executor /\ e.pc = "process" /\ e.i <= e.copy
        /\ e.copy <= mComInterruptQueueCount /\ mInterruptQueue[e.i] = 0
        /\ mComInterruptQueueCount \in Nat
        /\ e.i >= 1
    BY Constants DEF skipNull, TypeOK, QueueInv
  <1>2. e.copy \in Nat /\ e.i \in Nat
    BY <1>1 DEF Executor
  <1>3. e' \in Executor /\ e'.pc = "process" /\ e'.i = e.i + 1 /\ e'.copy = e.copy
    BY <1>1, <1>2 DEF skipNull, Executor
  <1>4. lost
    <2>1. e.i \in 1 .. mComInterruptQueueCount
      BY <1>1, <1>2
    <2> QED BY <1>1, <2>1 DEF NullInv
  <1>5. TypeOK'
    BY <1>3 DEF skipNull, TypeOK
  <1>6. NetworkInv' /\ LockInv' /\ EveryByteOnceInOrder' /\ KillInv'
    BY <1>1, <1>3 DEF skipNull, NetworkInv, LockInv, EveryByteOnceInOrder, KillInv
  <1>7. QueueInv'
    BY <1>1, <1>2, <1>3 DEF skipNull, QueueInv
  <1>8. AnnounceInv'
    BY <1>1, <1>3, <1>4 DEF skipNull, AnnounceInv, Waiting
  <1> QED BY <1>5, <1>6, <1>7, <1>8

-----------------------------------------------------------------------------
(* The stack is created or deleted *)

\* Neither the old nor the new stack has any data.
EmptyStack ==
    /\ mTopOfComStack \in 0 .. MaxOpens
    /\ mConnectionState \in {"Disconnected", "Listening", "Connected"}
    /\ mSocketID \in BOOLEAN /\ mListeningID \in BOOLEAN
    /\ mConnectionsList \subseteq {"socket", "listening"}
    /\ mInterruptResp = "Nothing"
    /\ mRecvBuffer = <<>> /\ received = <<>> /\ handedUp = <<>> /\ tcp = <<>>

\* A deleted stack is empty.
LEMMA ClosedIsEmpty ==
    ASSUME closeConnection
    PROVE  EmptyStack'
  <1>1. 0 \in 0 .. MaxOpens
    BY Constants
  <1>2. mSocketID' \in BOOLEAN /\ mListeningID' \in BOOLEAN
    BY DEF closeConnection
  <1> QED BY <1>1, <1>2 DEF closeConnection, EmptyStack

\* Whoever does it, and wherever the others are: with the stack goes what is in its buffer.
LEMMA EmptyStackKeepsIInv ==
    ASSUME IInv, EmptyStack',
           UNCHANGED <<fb, queue, mFBLock, attempts, chains, h, lost, crashed>>,
           e' = e \/ (e' \in Executor /\ e'.pc = "idle"),
           n' \in Counters, n'.connects = n.connects,
           mpc' \in {"ready", "close", "clear"}, KillInv'
    PROVE  IInv'
  <1> USE DEF IInv, fb, queue
  <1>1. e' \in Executor /\ (e' = e \/ e'.pc = "idle")
    BY DEF TypeOK
  <1>2. /\ mRecvBuffer' = <<>> /\ received' = <<>> /\ handedUp' = <<>> /\ tcp' = <<>>
        /\ mInterruptResp' = "Nothing"
    BY DEF EmptyStack
  <1>3. /\ mRecvBuffer' \in Seq(1 .. MaxSent) /\ received' \in Seq(1 .. MaxSent)
        /\ handedUp' \in Seq(1 .. MaxSent) /\ tcp' \in Seq(0 .. MaxSent)
        /\ Len(mRecvBuffer') <= BufferSize /\ mInterruptResp' \in Responses
    BY <1>2, Constants DEF Responses
  <1>4. TypeOK'
    BY <1>1, <1>3 DEF TypeOK, EmptyStack
  <1>5. NetworkInv'
    <2>1. 1 .. Len(tcp') - 1 = {}
      BY <1>2
    <2> QED BY <2>1 DEF NetworkInv
  <1>6. EveryByteOnceInOrder'
    <2>1. <<>> \o <<>> = <<>>
      OBVIOUS
    <2> QED BY <1>2, <2>1 DEF EveryByteOnceInOrder
  <1>7. LockInv' /\ QueueInv'
    BY <1>1 DEF LockInv, QueueInv
  <1>8. AnnounceInv'
    BY <1>2 DEF AnnounceInv, Waiting
  <1> QED BY <1>4, <1>5, <1>6, <1>7, <1>8

\* The answer to the application: a client closes its stack when the peer has gone.
LEMMA AnswerKeepsIInv ==
    ASSUME IInv, answer
    PROVE  IInv'
  <1> USE DEF IInv
  <1>1. e' \in Executor /\ e'.pc = "idle" /\ e.pc = "answer"
    <2>1. 0 \in 0 .. QueueSize /\ "Nothing" \in Responses
      BY Constants DEF Responses
    <2> QED BY <2>1 DEF answer, Executor
  <1>2. CASE e.resp = "InitTerminated" /\ mCommServiceType # "Server"
    <2>1. EmptyStack'
      BY <1>2, ClosedIsEmpty DEF answer
    <2>2. n \in Counters /\ mpc \in {"ready", "close", "clear"}
      BY DEF TypeOK
    <2>3. KillInv'
      BY DEF answer, fb, KillInv
    <2> QED BY <1>1, <2>1, <2>2, <2>3, EmptyStackKeepsIInv DEF answer
  <1>3. CASE ~(e.resp = "InitTerminated" /\ mCommServiceType # "Server")
    <2>1. UNCHANGED stack
      BY <1>3 DEF answer
    <2>2. TypeOK'
      BY <1>1, <2>1 DEF answer, fb, queue, stack, socket, buffer, TypeOK
    <2>3. NetworkInv' /\ LockInv' /\ EveryByteOnceInOrder' /\ QueueInv' /\ KillInv'
      BY <1>1, <2>1 DEF answer, fb, queue, stack, socket, buffer, NetworkInv, LockInv,
         EveryByteOnceInOrder, QueueInv, KillInv
    <2>4. AnnounceInv'
      BY <1>1, <2>1 DEF answer, fb, queue, stack, socket, buffer, AnnounceInv, Waiting, Queued,
         Expected
    <2> QED BY <2>2, <2>3, <2>4
  <1> QED BY <1>2, <1>3

\* A server closes its socket after a failed send.
LEMMA CloseOnSendKeepsIInv ==
    ASSUME IInv, closeOnSend
    PROVE  IInv'
  <1> USE DEF IInv
  <1>1. e' \in Executor /\ e'.pc = "listen" /\ e.pc = "sendFailed"
    BY DEF closeOnSend, Goes, TypeOK, Executor
  <1>2. /\ mSocketID' \in BOOLEAN /\ mConnectionsList' \subseteq {"socket", "listening"}
        /\ tcp' = <<>> /\ tcp' \in Seq(0 .. MaxSent)
    <2>1. mSocketID' = FALSE /\ tcp' = <<>> /\ mConnectionsList' = mConnectionsList \ {"socket"}
      BY DEF closeOnSend, closeSocket
    <2>2. mConnectionsList \subseteq {"socket", "listening"}
      BY DEF TypeOK
    <2>3. mSocketID' \in BOOLEAN
      BY <2>1
    <2> QED BY <2>1, <2>2, <2>3
  <1>3. TypeOK'
    BY <1>1, <1>2 DEF closeOnSend, fb, queue, buffer, TypeOK
  <1>4. NetworkInv'
    <2>1. 1 .. Len(tcp') - 1 = {}
      BY <1>2
    <2> QED BY <2>1 DEF closeOnSend, NetworkInv
  <1>5. LockInv' /\ EveryByteOnceInOrder' /\ QueueInv' /\ KillInv'
    BY <1>1 DEF closeOnSend, fb, queue, buffer, LockInv, EveryByteOnceInOrder, QueueInv, KillInv
  <1>6. AnnounceInv'
    BY <1>1 DEF closeOnSend, fb, queue, buffer, AnnounceInv, Waiting, Queued, Expected
  <1> QED BY <1>3, <1>4, <1>5, <1>6

-----------------------------------------------------------------------------
(* The application, the management thread and the network *)

\* A counter goes up by one and stays within its bound.
LEMMA CountersGoUp ==
    ASSUME n \in Counters
    PROVE  /\ n.opens < MaxOpens =>
                [n EXCEPT !.opens = @ + 1] \in Counters /\ n.opens + 1 \in 0 .. MaxOpens
           /\ n.sent < MaxSent =>
                [n EXCEPT !.sent = @ + 1] \in Counters /\ n.sent + 1 \in 0 .. MaxSent
                    /\ n.sent + 1 # 0
           /\ n.connects < MaxConnects =>
                [n EXCEPT !.connects = @ + 1] \in Counters
           /\ [n EXCEPT !.closes = @ + 1] \in Counters
           /\ [n EXCEPT !.failures = @ + 1] \in Counters
           /\ [n EXCEPT !.kills = @ + 1] \in Counters
  <1>1. /\ n.opens \in 0 .. MaxOpens /\ n.sent \in 0 .. MaxSent /\ n.connects \in 0 .. MaxConnects
        /\ n.closes \in Nat /\ n.failures \in Nat /\ n.kills \in Nat
    BY DEF Counters
  <1>2. /\ n.opens < MaxOpens => n.opens + 1 \in 0 .. MaxOpens
        /\ n.sent < MaxSent => n.sent + 1 \in 0 .. MaxSent /\ n.sent + 1 # 0
        /\ n.connects < MaxConnects => n.connects + 1 \in 0 .. MaxConnects
        /\ n.closes + 1 \in Nat /\ n.failures + 1 \in Nat /\ n.kills + 1 \in Nat
    BY <1>1, Constants
  <1>3. n.opens < MaxOpens => [n EXCEPT !.opens = @ + 1] \in Counters
    BY <1>2 DEF Counters
  <1>4. n.sent < MaxSent => [n EXCEPT !.sent = @ + 1] \in Counters
    BY <1>2 DEF Counters
  <1>5. n.connects < MaxConnects => [n EXCEPT !.connects = @ + 1] \in Counters
    BY <1>2 DEF Counters
  <1>6. [n EXCEPT !.closes = @ + 1] \in Counters
    BY <1>2 DEF Counters
  <1>7. [n EXCEPT !.failures = @ + 1] \in Counters
    BY <1>2 DEF Counters
  <1>8. [n EXCEPT !.kills = @ + 1] \in Counters
    BY <1>2 DEF Counters
  <1> QED BY <1>2, <1>3, <1>4, <1>5, <1>6, <1>7, <1>8

\* INIT and REQ or RSP.
LEMMA ApplicationKeepsIInv ==
    ASSUME IInv, ApplicationStep
    PROVE  IInv'
  <1> USE DEF IInv
  <1>1. n \in Counters /\ mpc \in {"ready", "close", "clear"}
    BY DEF TypeOK
  <1>2. CASE openConnection
    <2>1. n' = [n EXCEPT !.opens = @ + 1] /\ n.opens < MaxOpens
      BY <1>2 DEF openConnection
    <2>2. /\ n' \in Counters /\ n'.connects = n.connects /\ n'.kills = n.kills
          /\ n.opens + 1 \in 0 .. MaxOpens
      BY <1>1, <2>1, CountersGoUp DEF Counters
    <2>3. EmptyStack'
      <3>1. /\ mConnectionState' \in {"Disconnected", "Listening", "Connected"}
            /\ mConnectionsList' \subseteq {"socket", "listening"}
        BY <1>2 DEF openConnection, createComstack
      <3>2. mSocketID' \in BOOLEAN /\ mListeningID' \in BOOLEAN
        BY <1>2 DEF openConnection, createComstack
      <3> QED BY <1>2, <2>2, <3>1, <3>2 DEF openConnection, createComstack, EmptyStack
    <2>4. KillInv'
      BY <1>2, <2>2 DEF openConnection, fb, KillInv
    <2> QED BY <1>1, <1>2, <2>2, <2>3, <2>4, EmptyStackKeepsIInv DEF openConnection
  <1>3. CASE closeOnINIT
    <2>1. n' = [n EXCEPT !.closes = @ + 1]
      BY <1>3 DEF closeOnINIT
    <2>2. n' \in Counters /\ n'.connects = n.connects /\ n'.kills = n.kills
      BY <1>1, <2>1, CountersGoUp DEF Counters
    <2>3. EmptyStack'
      BY <1>3, ClosedIsEmpty DEF closeOnINIT
    <2>4. KillInv'
      BY <1>3, <2>2 DEF closeOnINIT, fb, KillInv
    <2> QED BY <1>1, <1>3, <2>2, <2>3, <2>4, EmptyStackKeepsIInv DEF closeOnINIT
  <1>4. CASE sendData
    <2>1. n' = [n EXCEPT !.failures = @ + 1]
      BY <1>4 DEF sendData
    <2>2. n' \in Counters /\ n'.connects = n.connects /\ n'.kills = n.kills
      BY <1>1, <2>1, CountersGoUp DEF Counters
    <2>3. KillInv'
      BY <1>4, <2>2 DEF sendData, fb, KillInv
    <2>4. CASE mCommServiceType # "Server"
      <3>1. EmptyStack' /\ e' = e
        BY <1>4, <2>4, ClosedIsEmpty DEF sendData
      <3> QED BY <1>1, <1>4, <2>2, <2>3, <3>1, EmptyStackKeepsIInv DEF sendData
    <2>5. CASE mCommServiceType = "Server"
      <3>1. UNCHANGED stack /\ e' = [e EXCEPT !.pc = "sendFailed"] /\ e.pc = "idle"
        BY <1>4, <2>5 DEF sendData, Goes
      <3>2. e' \in Executor /\ e'.pc = "sendFailed"
        BY <3>1 DEF TypeOK, Executor
      <3>3. TypeOK'
        BY <1>4, <2>2, <3>1, <3>2 DEF sendData, fb, queue, stack, socket, buffer, TypeOK
      <3>4. NetworkInv' /\ LockInv' /\ EveryByteOnceInOrder' /\ QueueInv'
        BY <1>4, <2>2, <3>1, <3>2 DEF sendData, fb, queue, stack, socket, buffer, NetworkInv,
           LockInv, EveryByteOnceInOrder, QueueInv
      <3>5. AnnounceInv'
        BY <1>4, <2>2, <3>1, <3>2 DEF sendData, fb, queue, stack, socket, buffer, AnnounceInv,
           Waiting, Queued, Expected
      <3> QED BY <2>3, <3>3, <3>4, <3>5
    <2> QED BY <2>4, <2>5
  <1> QED BY <1>2, <1>3, <1>4 DEF ApplicationStep

\* Kill, Reset and Start.
LEMMA ManagementKeepsIInv ==
    ASSUME IInv, ManagementStep
    PROVE  IInv'
  <1> USE DEF IInv
  <1>1. n \in Counters
    BY DEF TypeOK
  <1>2. CASE kill
    <2>1. n' = [n EXCEPT !.kills = @ + 1]
      BY <1>2 DEF kill
    <2>2. n' \in Counters /\ n'.connects = n.connects /\ n'.kills > 0
      <3>1. n.kills \in Nat
        BY <1>1 DEF Counters
      <3>2. n'.kills = n.kills + 1 /\ n'.connects = n.connects
        BY <1>1, <2>1 DEF Counters
      <3> QED BY <1>1, <2>1, <3>1, <3>2, CountersGoUp
    <2>3. TypeOK'
      BY <1>2, <2>2 DEF kill, queue, stack, socket, buffer, TypeOK
    <2>4. NetworkInv' /\ LockInv' /\ EveryByteOnceInOrder' /\ QueueInv' /\ KillInv'
      BY <1>2, <2>2 DEF kill, queue, stack, socket, buffer, NetworkInv, LockInv,
         EveryByteOnceInOrder, QueueInv, KillInv
    <2>5. AnnounceInv'
      <3>1. Waiting' = Waiting /\ h' = h /\ e' = e
        BY <1>2 DEF kill, stack, buffer, Waiting
      <3> QED BY <2>2, <3>1 DEF AnnounceInv
    <2> QED BY <2>3, <2>4, <2>5
  <1>3. CASE closeOnKill
    <2>1. EmptyStack'
      BY <1>3, ClosedIsEmpty DEF closeOnKill
    <2>2. KillInv'
      BY <1>3 DEF closeOnKill, KillInv
    <2> QED BY <1>1, <1>3, <2>1, <2>2, EmptyStackKeepsIInv DEF closeOnKill
  <1>4. CASE clearEvents
    <2>1. chains' \in 0 .. ChainCap /\ n.kills > 0 /\ n' = n
      BY <1>4, Constants DEF clearEvents, KillInv
    <2>2. TypeOK'
      BY <1>4, <2>1 DEF clearEvents, fb, queue, stack, socket, buffer, TypeOK
    <2>3. NetworkInv' /\ LockInv' /\ EveryByteOnceInOrder' /\ QueueInv' /\ KillInv'
      BY <1>4, <2>1 DEF clearEvents, fb, queue, stack, socket, buffer, NetworkInv, LockInv,
         EveryByteOnceInOrder, QueueInv, KillInv
    <2>4. AnnounceInv'
      <3>1. Waiting' = Waiting /\ h' = h /\ e' = e
        BY <1>4 DEF clearEvents, stack, buffer, Waiting
      <3> QED BY <2>1, <3>1 DEF AnnounceInv
    <2> QED BY <2>2, <2>3, <2>4
  <1>5. CASE restart
    <2>1. TypeOK'
      BY <1>5 DEF restart, queue, stack, socket, buffer, TypeOK
    <2>2. NetworkInv' /\ LockInv' /\ EveryByteOnceInOrder' /\ QueueInv' /\ KillInv'
      BY <1>5 DEF restart, queue, stack, socket, buffer, NetworkInv, LockInv,
         EveryByteOnceInOrder, QueueInv, KillInv
    <2>3. AnnounceInv'
      BY <1>5 DEF restart, queue, stack, socket, buffer, AnnounceInv, Waiting, Queued, Expected
    <2> QED BY <2>1, <2>2, <2>3
  <1> QED BY <1>2, <1>3, <1>4, <1>5 DEF ManagementStep

\* The peers.
LEMMA NetworkKeepsIInv ==
    ASSUME IInv, NetworkStep
    PROVE  IInv'
  <1> USE DEF IInv
  <1>1. n \in Counters /\ tcp \in Seq(0 .. MaxSent)
    BY DEF TypeOK
  <1>2. CASE connectPeer
    <2>1. n' = [n EXCEPT !.connects = @ + 1] /\ n.connects < MaxConnects
      BY <1>2 DEF connectPeer
    <2>2. /\ n' \in Counters /\ n'.connects = n.connects + 1 /\ n'.kills = n.kills
          /\ n.connects \in Nat
      <3>1. n.connects \in 0 .. MaxConnects
        BY <1>1 DEF Counters
      <3>2. n'.connects = n.connects + 1 /\ n'.kills = n.kills
        BY <1>1, <2>1 DEF Counters
      <3> QED BY <1>1, <2>1, <3>1, <3>2, CountersGoUp, Constants
    <2>3. attempts' \in 0 .. MaxConnects /\ attempts' <= n'.connects
      <3>1. attempts \in 0 .. MaxConnects /\ attempts <= n.connects /\ attempts' = attempts + 1
        BY <1>2 DEF connectPeer, TypeOK, NetworkInv
      <3> QED BY <2>1, <2>2, <3>1, Constants
    <2>4. TypeOK'
      BY <1>2, <2>2, <2>3 DEF connectPeer, fb, queue, stack, socket, buffer, TypeOK
    <2>5. NetworkInv' /\ LockInv' /\ EveryByteOnceInOrder' /\ QueueInv' /\ KillInv'
      BY <1>2, <2>2, <2>3 DEF connectPeer, fb, queue, stack, socket, buffer, NetworkInv, LockInv,
         EveryByteOnceInOrder, QueueInv, KillInv
    <2>6. AnnounceInv'
      BY <1>2, <2>2 DEF connectPeer, queue, stack, socket, buffer, AnnounceInv, Waiting, Queued,
         Expected
    <2> QED BY <2>4, <2>5, <2>6
  <1>3. ASSUME NEW x \in 0 .. MaxSent, ~Closed, tcp' = Append(tcp, x)
        PROVE  /\ tcp' \in Seq(0 .. MaxSent)
               /\ \A i \in 1 .. Len(tcp') - 1 : tcp'[i] # 0
    <2>1. /\ tcp' \in Seq(0 .. MaxSent) /\ Len(tcp') = Len(tcp) + 1 /\ Len(tcp) \in Nat
          /\ \A i \in 1 .. Len(tcp) : tcp'[i] = tcp[i]
      BY <1>1, <1>3
    <2>2. \A i \in 1 .. Len(tcp) : tcp[i] # 0
      <3> TAKE i \in 1 .. Len(tcp)
      <3>1. i \in 1 .. Len(tcp) - 1 \/ (i = Len(tcp) /\ tcp # <<>>)
        BY <1>1
      <3> QED BY <1>3, <3>1 DEF Closed, NetworkInv
    <2>3. Len(tcp') - 1 = Len(tcp)
      BY <2>1
    <2> QED BY <2>1, <2>2, <2>3
  <1>4. CASE sendPeer
    <2>1. n' = [n EXCEPT !.sent = @ + 1] /\ n.sent < MaxSent
      BY <1>4 DEF sendPeer
    <2>2. n' \in Counters /\ n'.connects = n.connects /\ n'.kills = n.kills
      BY <1>1, <2>1, CountersGoUp DEF Counters
    <2>3. n.sent + 1 \in 0 .. MaxSent
      BY <1>1, <2>1, CountersGoUp
    <2>4. tcp' \in Seq(0 .. MaxSent) /\ \A i \in 1 .. Len(tcp') - 1 : tcp'[i] # 0
      BY <1>3, <1>4, <2>3 DEF sendPeer
    <2>5. TypeOK'
      BY <1>4, <2>2, <2>4 DEF sendPeer, fb, queue, buffer, TypeOK
    <2>6. NetworkInv' /\ LockInv' /\ EveryByteOnceInOrder' /\ QueueInv' /\ KillInv'
      BY <1>4, <2>2, <2>4 DEF sendPeer, fb, queue, buffer, NetworkInv, LockInv,
         EveryByteOnceInOrder, QueueInv, KillInv
    <2>7. AnnounceInv'
      BY <1>4, <2>2 DEF sendPeer, queue, buffer, AnnounceInv, Waiting, Queued, Expected
    <2> QED BY <2>5, <2>6, <2>7
  <1>5. CASE closePeer
    <2>1. tcp' \in Seq(0 .. MaxSent) /\ \A i \in 1 .. Len(tcp') - 1 : tcp'[i] # 0
      <3>1. 0 \in 0 .. MaxSent
        BY Constants
      <3> QED BY <1>3, <1>5, <3>1 DEF closePeer
    <2>2. TypeOK'
      BY <1>5, <2>1 DEF closePeer, fb, queue, buffer, TypeOK
    <2>3. NetworkInv' /\ LockInv' /\ EveryByteOnceInOrder' /\ QueueInv' /\ KillInv'
      BY <1>5, <2>1 DEF closePeer, fb, queue, buffer, NetworkInv, LockInv,
         EveryByteOnceInOrder, QueueInv, KillInv
    <2>4. AnnounceInv'
      BY <1>5 DEF closePeer, queue, buffer, AnnounceInv, Waiting, Queued, Expected
    <2> QED BY <2>2, <2>3, <2>4
  <1> QED BY <1>2, <1>4, <1>5 DEF NetworkStep

\* Nothing changes, or only that the program has come to its end.
LEMMA EndKeepsIInv ==
    ASSUME IInv, handlerUsesDeletedStack \/ executionUsesDeletedStack \/ UNCHANGED vars
    PROVE  IInv'
  <1> USE DEF IInv
  <1>1. /\ UNCHANGED <<fb, queue, mFBLock, stack, attempts, chains, h, e, mpc, n, lost>>
        /\ crashed' = TRUE \/ crashed' = crashed
    BY DEF handlerUsesDeletedStack, executionUsesDeletedStack, vars, fb, queue, stack, socket,
           buffer
  <1>2. crashed' \in BOOLEAN /\ (crashed => crashed')
    BY <1>1 DEF TypeOK
  <1>3. TypeOK'
    BY <1>1, <1>2 DEF fb, queue, stack, socket, buffer, TypeOK
  <1>4. NetworkInv' /\ LockInv' /\ EveryByteOnceInOrder' /\ QueueInv' /\ KillInv'
    BY <1>1 DEF fb, queue, stack, socket, buffer, NetworkInv, LockInv, EveryByteOnceInOrder,
       QueueInv, KillInv
  <1>5. AnnounceInv'
    BY <1>1, <1>2 DEF fb, queue, stack, socket, buffer, AnnounceInv, Waiting, Queued, Expected
  <1> QED BY <1>3, <1>4, <1>5

-----------------------------------------------------------------------------
(* The theorems *)

\* The invariant holds initially.
LEMMA InitIInv ==
    ASSUME Init
    PROVE  IInv
  <1> USE Constants
  <1>1. /\ h = [pc |-> "select", ready |-> {}, fd |-> "none", callee |-> 0, count |-> 0]
        /\ e = [pc |-> "idle", copy |-> 0, i |-> 0, resp |-> "Nothing", count |-> 0]
        /\ n = [opens |-> 0, closes |-> 0, sent |-> 0, connects |-> 0, failures |-> 0,
                errors |-> 0, kills |-> 0]
        /\ mRecvBuffer = <<>> /\ received = <<>> /\ handedUp = <<>> /\ tcp = <<>>
    BY DEF Init
  <1>2. /\ 0 \in 0 .. MaxOpens /\ 0 \in 0 .. QueueSize /\ 0 \in 0 .. MaxSent
        /\ 0 \in 0 .. MaxConnects /\ 0 \in 0 .. ChainCap /\ 0 \in Nat
    OBVIOUS
  <1>3. h \in Handler
    BY <1>1, <1>2 DEF Handler
  <1>4. e \in Executor
    BY <1>1, <1>2 DEF Executor, Responses
  <1>5. n \in Counters
    BY <1>1, <1>2 DEF Counters
  <1>6. /\ mRecvBuffer \in Seq(1 .. MaxSent) /\ received \in Seq(1 .. MaxSent)
        /\ handedUp \in Seq(1 .. MaxSent) /\ tcp \in Seq(0 .. MaxSent)
        /\ Len(mRecvBuffer) <= BufferSize /\ <<>> \o <<>> = <<>> /\ 1 .. Len(tcp) - 1 = {}
    BY <1>1
  <1>7. mInterruptQueue \in [1 .. QueueSize -> QueueEntry]
    BY <1>2 DEF Init, QueueEntry
  <1>8. TypeOK
    BY <1>2, <1>3, <1>4, <1>5, <1>6, <1>7 DEF Init, TypeOK, Responses
  <1>9. NetworkInv
    BY <1>1, <1>6 DEF Init, NetworkInv
  <1>10. EveryByteOnceInOrder
    BY <1>1, <1>6 DEF EveryByteOnceInOrder
  <1>11. LockInv /\ QueueInv
    BY <1>1 DEF LockInv, QueueInv
  <1>12. KillInv
    BY DEF Init, KillInv
  <1>13. AnnounceInv
    BY <1>1 DEF AnnounceInv, Waiting
  <1> QED BY <1>8, <1>9, <1>10, <1>11, <1>12, <1>13 DEF IInv

\* Every step keeps the invariant.
LEMMA NextKeepsIInv ==
    ASSUME IInv, NullInv, [Next]_vars
    PROVE  IInv'
  <1>1. CASE UNCHANGED vars
    BY <1>1, EndKeepsIInv
  <1>2. CASE NetworkStep
    BY <1>2, NetworkKeepsIInv
  <1>3. CASE HandlerStep
    <2>1. CASE select \/ nextConnection \/ handledConnectedDataRecv \/ waitForRoom
      BY <2>1, HandlerKeepsIInv
    <2>2. CASE \/ recvData \/ acceptTCPConnection \/ acceptFailed
               \/ handleConnectionAttemptInConnected
               \/ lockFB \/ receiveFailed \/ receiveError \/ readQueueCount
      BY <2>2, LayerKeepsIInv
    <2>3. CASE receiveData
      BY <2>3, ReceiveKeepsIInv
    <2>4. CASE connectionClosedByPeer
      BY <2>4, ClosedByPeerKeepsIInv
    <2>5. CASE interruptCommFB
      BY <2>5, InterruptKeepsIInv
    <2>6. CASE returnFromRecvData
      BY <2>6, ReturnKeepsIInv
    <2>7. CASE handlerUsesDeletedStack
      BY <2>7, EndKeepsIInv
    <2> QED
      BY <1>3, <2>1, <2>2, <2>3, <2>4, <2>5, <2>6, <2>7, Zenon DEF HandlerStep, LayerStep
  <1>4. CASE ApplicationStep
    BY <1>4, ApplicationKeepsIInv
  <1>5. CASE ExecutionStep
    <2>1. CASE processInterrupt \/ lockForUpperLayer \/ clearBuffer \/ listenOnSend
      BY <2>1, ExecutionKeepsIInv
    <2>2. CASE externalEvent
      BY <2>2, ExternalEventKeepsIInv
    <2>3. CASE interruptsProcessed
      BY <2>3, ProcessedKeepsIInv
    <2>4. CASE removeInterrupts
      BY <2>4, RemoveKeepsIInv
    <2>5. CASE answer
      BY <2>5, AnswerKeepsIInv
    <2>6. CASE handToUpperLayer
      BY <2>6, HandKeepsIInv
    <2>7. CASE keepResponse
      BY <2>7, KeepResponseKeepsIInv
    <2>8. CASE closeOnSend
      BY <2>8, CloseOnSendKeepsIInv
    <2>9. CASE executionUsesDeletedStack
      BY <2>9, EndKeepsIInv
    <2>10. CASE shiftInterrupts
      BY <2>10, ShiftKeepsIInv
    <2>11. CASE skipNull
      BY <2>11, SkipKeepsIInv
    <2> QED
      BY <1>5, <2>1, <2>2, <2>3, <2>4, <2>5, <2>6, <2>7, <2>8, <2>9, <2>10, <2>11, Zenon
      DEF ExecutionStep, StackStep
  <1>6. CASE ManagementStep
    BY <1>6, ManagementKeepsIInv
  <1> QED BY <1>1, <1>2, <1>3, <1>4, <1>5, <1>6, Zenon DEF Next

\* Where neither the queue nor what is left of it to move changes, nothing new is null.
LEMMA NullFrame ==
    ASSUME NullInv, UNCHANGED queue, lost => lost',
           e' = e \/ (e.pc # "shift" /\ e'.pc # "shift")
    PROVE  NullInv'
  BY DEF NullInv, queue

\* The handler and the others that do not touch the queue.
LEMMA StepKeepsStackInv ==
    ASSUME IInv, StackInv, [Next]_vars
    PROVE  StackInv'
  <1> USE DEF fb, queue, socket, buffer, stack
  <1>0. n.opens \in Nat /\ h \in Handler /\ n.opens + 1 # 0
    <2>1. n.opens \in 0 .. MaxOpens /\ h \in Handler
      BY DEF IInv, TypeOK, Counters
    <2> QED BY <2>1, Constants
  <1>1. CASE UNCHANGED vars
    BY <1>1 DEF vars, StackInv
  <1>2. CASE NetworkStep
    BY <1>2 DEF NetworkStep, connectPeer, sendPeer, closePeer, StackInv
  <1>3. CASE HandlerStep
    <2>1. CASE select
      BY <1>0, <2>1 DEF select, StackInv, Handler
    <2>2. CASE nextConnection
      <3>1. CASE h' = [h EXCEPT !.pc = "select", !.ready = {}, !.fd = "none", !.callee = 0]
        BY <1>0, <2>2, <3>1 DEF nextConnection, StackInv, Handler
      <3>2. ASSUME NEW fd \in h.ready \cap mConnectionsList,
                   h' = [h EXCEPT !.pc = "recvData", !.fd = fd, !.callee = mTopOfComStack,
                                  !.ready = @ \ {fd}]
            PROVE  StackInv'
        <4>1. h'.callee = mTopOfComStack /\ mTopOfComStack # 0
          BY <1>0, <3>2 DEF StackInv, Handler
        <4> QED BY <2>2, <4>1 DEF nextConnection, StackInv
      <3> QED BY <2>2, <3>1, <3>2 DEF nextConnection
    <2>3. CASE h.callee = mTopOfComStack /\ LayerStep
      <3>1. h.pc \notin {"select", "next"}
        BY <2>3 DEF LayerStep, recvData, acceptTCPConnection, acceptFailed,
           handleConnectionAttemptInConnected, handledConnectedDataRecv, waitForRoom, lockFB,
           receiveData, connectionClosedByPeer, receiveFailed, receiveError, readQueueCount,
           interruptCommFB, returnFromRecvData
      <3>2. h'.callee = h.callee /\ mTopOfComStack' = mTopOfComStack
        BY <1>0, <2>3 DEF LayerStep, recvData, acceptTCPConnection, acceptFailed,
           handleConnectionAttemptInConnected, handledConnectedDataRecv, waitForRoom, lockFB,
           receiveData, connectionClosedByPeer, receiveFailed, receiveError, readQueueCount,
           interruptCommFB, returnFromRecvData, Handler
      <3>3. h.callee # 0
        BY <3>1 DEF StackInv
      <3> QED BY <2>3, <3>2, <3>3 DEF StackInv
    <2>4. CASE handlerUsesDeletedStack
      BY <2>4 DEF handlerUsesDeletedStack, StackInv
    <2> QED BY <1>3, <2>1, <2>2, <2>3, <2>4, Zenon DEF HandlerStep
  <1>4. CASE ApplicationStep
    BY <1>0, <1>4 DEF ApplicationStep, openConnection, createComstack, closeOnINIT, sendData,
       closeConnection, StackInv
  <1>5. CASE ExecutionStep
    BY <1>5 DEF ExecutionStep, externalEvent, skipNull, processInterrupt, interruptsProcessed,
       removeInterrupts, shiftInterrupts, answer, closeConnection, StackStep,
       lockForUpperLayer, handToUpperLayer, clearBuffer, keepResponse, closeOnSend,
       closeSocket, listenOnSend, executionUsesDeletedStack, StackInv
  <1>6. CASE ManagementStep
    BY <1>6 DEF ManagementStep, kill, closeOnKill, closeConnection, clearEvents, restart,
       StackInv
  <1> QED BY <1>1, <1>2, <1>3, <1>4, <1>5, <1>6, Zenon DEF Next

\* The three steps that write the queue or its count.
LEMMA QueueStepKeepsNullInv ==
    ASSUME IInv, NullInv, StackInv, interruptCommFB \/ removeInterrupts \/ shiftInterrupts
    PROVE  NullInv'
  <1>0. /\ e \in Executor /\ h \in Handler /\ QueueInv /\ QueueSize \in Nat
        /\ mComInterruptQueueCount \in 0 .. QueueSize
        /\ mInterruptQueue \in [1 .. QueueSize -> QueueEntry]
    BY Constants DEF IInv, TypeOK
  <1>1. /\ e.copy \in Nat /\ e.count \in Nat /\ e.i \in Nat /\ h.count \in Nat
        /\ e.count <= QueueSize
    BY <1>0 DEF Executor, Handler
  <1>2. CASE interruptCommFB
    <2>1. e' = e
      BY <1>2 DEF interruptCommFB
    <2>2. CASE lost'
      BY <2>2 DEF NullInv
    <2>3. CASE ~lost'
      <3>1. ~lost /\ roomInQueue(h.count) /\ h.count = mComInterruptQueueCount
        BY <1>2, <2>3 DEF interruptCommFB
      <3>2. /\ mInterruptQueue' = [i \in DOMAIN mInterruptQueue |->
                                      IF i = h.count + 1 THEN h.callee ELSE mInterruptQueue[i]]
            /\ mComInterruptQueueCount' = mComInterruptQueueCount + 1
            /\ mComInterruptQueueCount < QueueSize
        BY <1>2, <3>1 DEF interruptCommFB, roomInQueue
      <3>3. h.callee # 0
        BY <1>2 DEF interruptCommFB, StackInv
      <3>4. \A j \in 1 .. QueueSize : mInterruptQueue[j] # 0 => mInterruptQueue'[j] # 0
        BY <1>0, <3>2, <3>3
      <3>5. CASE e.pc # "shift"
        <4>1. \A j \in 1 .. mComInterruptQueueCount' : mInterruptQueue'[j] # 0
          <5> TAKE j \in 1 .. mComInterruptQueueCount'
          <5>1. j \in 1 .. QueueSize
            BY <1>0, <3>2
          <5>2. CASE j = mComInterruptQueueCount + 1
            BY <1>0, <3>1, <3>2, <3>3, <5>1, <5>2
          <5>3. CASE j # mComInterruptQueueCount + 1
            <6>1. j \in 1 .. mComInterruptQueueCount
              BY <1>0, <3>2, <5>3
            <6>2. mInterruptQueue[j] # 0
              BY <3>1, <3>5, <6>1 DEF NullInv
            <6> QED BY <3>4, <5>1, <6>2
          <5> QED BY <5>2, <5>3
        <4> QED BY <2>1, <3>5, <4>1 DEF NullInv
      <3>6. CASE e.pc = "shift"
        <4>1. /\ e.i <= e.count - e.copy + 1
              /\ \A j \in 1 .. e.i - 1 : mInterruptQueue[j] # 0
              /\ \A j \in e.i + e.copy .. e.count : mInterruptQueue[j] # 0
          BY <3>1, <3>6 DEF NullInv
        <4>2. \A j \in 1 .. e.i - 1 : j \in 1 .. QueueSize
          BY <1>1, <4>1, <1>0
        <4>3. e.i >= 1
          BY <1>0, <3>6 DEF QueueInv
        <4>4. \A j \in e.i + e.copy .. e.count : j \in 1 .. QueueSize
          BY <1>0, <1>1, <4>3
        <4>5. /\ \A j \in 1 .. e.i - 1 : mInterruptQueue'[j] # 0
              /\ \A j \in e.i + e.copy .. e.count : mInterruptQueue'[j] # 0
          BY <3>4, <4>1, <4>2, <4>4
        <4> QED BY <2>1, <3>6, <4>1, <4>5 DEF NullInv
      <3> QED BY <3>5, <3>6
    <2> QED BY <2>2, <2>3
  <1>3. CASE removeInterrupts
    <2>1. /\ e.pc = "store" /\ e'.pc = "shift" /\ e'.i = 1 /\ e'.copy = e.copy
          /\ e'.count = e.count /\ mInterruptQueue' = mInterruptQueue
      BY <1>0, <1>3 DEF removeInterrupts, Executor
    <2>2. CASE lost'
      BY <2>2 DEF NullInv
    <2>3. CASE ~lost'
      <3>1. ~lost /\ e.count = mComInterruptQueueCount
        BY <1>3, <2>3 DEF removeInterrupts
      <3>2. \A j \in 1 .. e.count : mInterruptQueue[j] # 0
        BY <2>1, <3>1 DEF NullInv
      <3>3. \A j \in 1 + e.copy .. e.count : j \in 1 .. e.count
        BY <1>1
      <3>4. 1 <= e.count - e.copy + 1 /\ 1 .. 1 - 1 = {}
        BY <1>0, <1>1, <2>1 DEF QueueInv
      <3> QED BY <2>1, <3>2, <3>3, <3>4 DEF NullInv
    <2> QED BY <2>2, <2>3
  <1>4. CASE shiftInterrupts
    <2>1. e.pc = "shift" /\ e.i >= 1 /\ e.count - e.copy <= mComInterruptQueueCount
          /\ e.copy <= e.count /\ mComInterruptQueueCount' = mComInterruptQueueCount
      BY <1>0, <1>4 DEF shiftInterrupts, QueueInv
    <2>2. CASE lost'
      BY <2>2 DEF NullInv
    <2>3. CASE ~lost' /\ e.i <= mComInterruptQueueCount
      <3>1. /\ mInterruptQueue' = [mInterruptQueue EXCEPT ![e.i] =
                  IF e.i + e.copy <= QueueSize THEN mInterruptQueue[e.i + e.copy] ELSE Garbage]
            /\ lost' = (lost \/ e.i > e.count - e.copy)
            /\ e' = [e EXCEPT !.i = @ + 1]
        BY <1>4, <2>3 DEF shiftInterrupts
      <3>2. ~lost /\ e.i <= e.count - e.copy
        <4>1. ~lost /\ ~(e.i > e.count - e.copy)
          BY <2>3, <3>1
        <4> QED BY <1>1, <4>1
      <3>3. e'.pc = "shift" /\ e'.i = e.i + 1 /\ e'.copy = e.copy /\ e'.count = e.count
        BY <1>0, <1>1, <2>1, <3>1 DEF Executor
      <3>4. /\ \A j \in 1 .. e.i - 1 : mInterruptQueue[j] # 0
            /\ \A j \in e.i + e.copy .. e.count : mInterruptQueue[j] # 0
        BY <2>1, <3>2 DEF NullInv
      <3>5. e.i + e.copy \in e.i + e.copy .. e.count /\ e.i + e.copy <= QueueSize
        BY <1>1, <1>0, <3>2
      <3>6. mInterruptQueue[e.i + e.copy] # 0
        BY <3>4, <3>5
      <3>7. e.i \in 1 .. QueueSize
        BY <1>0, <1>1, <2>1, <2>3
      <3>8. mInterruptQueue'[e.i] # 0
        BY <1>0, <3>1, <3>5, <3>6, <3>7
      <3>9. \A j \in 1 .. QueueSize : mInterruptQueue[j] # 0 => mInterruptQueue'[j] # 0
        BY <1>0, <3>1, <3>5, <3>6
      <3>10. \A j \in 1 .. e.i : mInterruptQueue'[j] # 0
        <4> TAKE j \in 1 .. e.i
        <4>1. j = e.i \/ (j \in 1 .. e.i - 1 /\ j \in 1 .. QueueSize)
          BY <1>0, <1>1, <3>7
        <4> QED BY <3>4, <3>8, <3>9, <4>1
      <3>11. \A j \in e.i + 1 + e.copy .. e.count : mInterruptQueue'[j] # 0
        <4> TAKE j \in e.i + 1 + e.copy .. e.count
        <4>1. j \in e.i + e.copy .. e.count /\ j \in 1 .. QueueSize
          BY <1>0, <1>1
        <4> QED BY <3>4, <3>9, <4>1
      <3>12. e.i + 1 <= e.count - e.copy + 1 /\ e.i + 1 - 1 = e.i
        BY <1>1, <3>2
      <3>13. /\ e'.i <= e'.count - e'.copy + 1
             /\ \A j \in 1 .. e'.i - 1 : mInterruptQueue'[j] # 0
             /\ \A j \in e'.i + e'.copy .. e'.count : mInterruptQueue'[j] # 0
        <4>1. /\ e'.i - 1 = e.i /\ e'.i + e'.copy = e.i + 1 + e.copy
              /\ e'.i <= e'.count - e'.copy + 1
          BY <1>1, <3>3, <3>12
        <4>2. \A j \in 1 .. e'.i - 1 : mInterruptQueue'[j] # 0
          BY <3>10, <4>1, Zenon
        <4>3. \A j \in e'.i + e'.copy .. e'.count : mInterruptQueue'[j] # 0
          BY <3>3, <3>11, <4>1, Zenon
        <4> QED BY <4>1, <4>2, <4>3
      <3> QED BY <3>3, <3>13 DEF NullInv
    <2>4. CASE ~lost' /\ ~(e.i <= mComInterruptQueueCount)
      <3>1. /\ e' = [e EXCEPT !.pc = "answer", !.copy = 0, !.i = 0, !.count = 0]
            /\ UNCHANGED <<mInterruptQueue, lost>>
        BY <1>4, <2>4 DEF shiftInterrupts
      <3>2. e'.pc = "answer"
        BY <1>0, <3>1 DEF Executor
      <3>3. \A j \in 1 .. e.i - 1 : mInterruptQueue[j] # 0
        BY <2>1, <2>4, <3>1 DEF NullInv
      <3>4. \A j \in 1 .. mComInterruptQueueCount : j \in 1 .. e.i - 1
        BY <1>0, <1>1, <2>4
      <3> QED BY <2>1, <3>1, <3>2, <3>3, <3>4 DEF NullInv
    <2> QED BY <2>2, <2>3, <2>4
  <1> QED BY <1>2, <1>3, <1>4

\* Every step keeps the counted entries free of null pointers until something is lost.
LEMMA NextKeepsNullInv ==
    ASSUME IInv, NullInv, StackInv, [Next]_vars
    PROVE  NullInv'
  <1>0. e \in Executor /\ lost \in BOOLEAN
    BY DEF IInv, TypeOK
  <1>1. CASE UNCHANGED vars
    BY <1>1, NullFrame DEF vars
  <1>2. CASE NetworkStep
    BY <1>2, NullFrame DEF NetworkStep, connectPeer, sendPeer, closePeer
  <1>3. CASE HandlerStep
    <2>1. CASE interruptCommFB
      BY <2>1, QueueStepKeepsNullInv
    <2>2. CASE ~interruptCommFB
      <3>1. CASE returnFromRecvData
        <4>1. UNCHANGED queue /\ e' = e
          BY <3>1 DEF returnFromRecvData
        <4>2. lost => lost'
          BY <1>0, <3>1 DEF returnFromRecvData
        <4> QED BY <4>1, <4>2, NullFrame
      <3>2. CASE ~returnFromRecvData
        <4>1. UNCHANGED queue /\ e' = e /\ lost' = lost
          BY <1>3, <2>2, <3>2 DEF HandlerStep, select, nextConnection, LayerStep, recvData,
             acceptTCPConnection, acceptFailed, handleConnectionAttemptInConnected,
             handledConnectedDataRecv, waitForRoom, lockFB, receiveData, connectionClosedByPeer,
             receiveFailed, receiveError, readQueueCount, handlerUsesDeletedStack
        <4> QED BY <4>1, NullFrame
      <3> QED BY <3>1, <3>2
    <2> QED BY <2>1, <2>2
  <1>4. CASE ApplicationStep
    <2>1. UNCHANGED queue /\ lost' = lost
      BY <1>4 DEF ApplicationStep, openConnection, closeOnINIT, sendData
    <2>2. e' = e \/ (e.pc # "shift" /\ e'.pc # "shift")
      BY <1>0, <1>4 DEF ApplicationStep, openConnection, closeOnINIT, sendData, Goes, Executor
    <2> QED BY <2>1, <2>2, NullFrame
  <1>5. CASE ExecutionStep
    <2>1. CASE removeInterrupts \/ shiftInterrupts
      BY <2>1, QueueStepKeepsNullInv
    <2>2. CASE ~(removeInterrupts \/ shiftInterrupts)
      <3>1. UNCHANGED queue /\ lost' = lost
        BY <1>5, <2>2 DEF ExecutionStep, externalEvent, skipNull, processInterrupt,
           interruptsProcessed, answer, StackStep, lockForUpperLayer, handToUpperLayer,
           clearBuffer, keepResponse, closeOnSend, listenOnSend, executionUsesDeletedStack
      <3>2. e' = e \/ (e.pc # "shift" /\ e'.pc # "shift")
        <4>1. CASE externalEvent \/ skipNull
          BY <1>0, <4>1 DEF externalEvent, skipNull, Executor
        <4>2. CASE processInterrupt
          BY <1>0, <4>2 DEF processInterrupt, Goes, Executor
        <4>3. CASE interruptsProcessed \/ executionUsesDeletedStack
          BY <1>0, <4>3 DEF interruptsProcessed, executionUsesDeletedStack, Executor
        <4>6. CASE answer
          <5>1. e' = [pc |-> "idle", copy |-> 0, i |-> 0, resp |-> "Nothing", count |-> 0]
                /\ e.pc = "answer"
            BY <4>6 DEF answer
          <5>2. e'.pc = "idle"
            BY <5>1
          <5> QED BY <5>1, <5>2
        <4>4. CASE lockForUpperLayer \/ handToUpperLayer \/ clearBuffer
          BY <1>0, <4>4 DEF lockForUpperLayer, handToUpperLayer, clearBuffer, Goes, Executor
        <4>5. CASE keepResponse \/ closeOnSend \/ listenOnSend
          BY <1>0, <4>5 DEF keepResponse, closeOnSend, listenOnSend, Goes, Executor
        <4> QED BY <1>5, <2>2, <4>1, <4>2, <4>3, <4>4, <4>5, <4>6 DEF ExecutionStep, StackStep
      <3> QED BY <3>1, <3>2, NullFrame
    <2> QED BY <2>1, <2>2
  <1>6. CASE ManagementStep
    BY <1>6, NullFrame DEF ManagementStep, kill, closeOnKill, clearEvents, restart
  <1> QED BY <1>1, <1>2, <1>3, <1>4, <1>5, <1>6, Zenon DEF Next

\* The invariant holds throughout.
THEOREM CommInductive == Spec => []IInv
  <1>1. Init => IInv
    BY InitIInv
  <1>2. Init => NullInv /\ StackInv
    <2> SUFFICES ASSUME Init PROVE NullInv /\ StackInv
      OBVIOUS
    <2>1. 1 .. 0 = {}
      OBVIOUS
    <2> QED BY <2>1 DEF Init, NullInv, StackInv
  <1>3. IInv /\ NullInv /\ StackInv /\ [Next]_vars => IInv' /\ NullInv' /\ StackInv'
    BY NextKeepsIInv, NextKeepsNullInv, StepKeepsStackInv
  <1> QED BY <1>1, <1>2, <1>3, PTL DEF Spec

\* Neither the buffer that recv fills nor the queue of interrupts is ever written beyond
\* its end, although interruptCommFB and receiveData of the block update the count of the
\* queue without a lock.  (The queue may be read beyond its end: that is the Garbage of its
\* type.)
THEOREM CommTypeCorrect == Spec => []TypeOK
  <1>1. IInv => TypeOK
    BY DEF IInv
  <1> QED BY <1>1, CommInductive, PTL

\* handledConnectedDataRecv and processInterrupt of the layer hand every piece of data on
\* once and in order, in whatever order the socket thread, the executing thread and the
\* management thread take their steps.
THEOREM CommEveryByteOnceInOrder == Spec => []EveryByteOnceInOrder
  <1>1. IInv => EveryByteOnceInOrder
    BY DEF IInv
  <1> QED BY <1>1, CommInductive, PTL

\* Data that the layer has received and not handed on is announced to the block, unless an
\* interrupt or an event found no room, the two updates of the count met, an interrupt came
\* while receiveData was moving the queue, or the block was killed.
THEOREM CommDataIsAnnounced == Spec => []DataIsAnnounced
  <1>1. IInv => DataIsAnnounced
    <2> SUFFICES ASSUME IInv, Waiting, mConnectionState = "Connected",
                        ~lost, ~crashed, ~(n.kills > 0),
                        h.pc \notin {"interrupt", "store"}, e.pc \notin {"lock", "hand", "clear"}
                 PROVE  Coming
      BY Zenon DEF DataIsAnnounced, Waiting, Coming
    <2>1. Queued /\ Expected
      BY DEF IInv, AnnounceInv
    <2>2. /\ e \in Executor /\ mComInterruptQueueCount \in Nat /\ QueueInv
      BY Constants DEF IInv, TypeOK
    <2>3. e.copy \in Nat /\ e.i \in Nat /\ e.count \in Nat
      <3>1. e.copy \in 0 .. QueueSize /\ e.i \in Nat /\ e.count \in 0 .. QueueSize
        BY <2>2 DEF Executor
      <3> QED BY <3>1, Constants
    <2>4. CASE h.pc = "return"
      BY <2>4 DEF Coming
    <2>5. CASE e.pc = "process" /\ e.i <= e.copy
      BY <2>5 DEF Coming
    <2>6. mComInterruptQueueCount > 0 \/ (e.pc = "process" /\ e.i <= e.copy)
      BY <2>1, <2>2, <2>3 DEF Queued, QueueInv, Executor
    <2>7. CASE chains > 0
      BY <2>6, <2>7 DEF Coming
    <2> QED BY <2>1, <2>4, <2>5, <2>7 DEF Expected
  <1> QED BY <1>1, CommInductive, PTL
=============================================================================
