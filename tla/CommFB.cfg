\* A client and a server.  Two pieces of data fill the buffer, so that the end of the
\* connection has to wait; two clients compete for the server; the stack is closed by the
\* application, by a failed send or by a kill, and opened again.
SPECIFICATION Spec
CONSTANTS
    Services = {"Server", "Client"}
    BufferSize = 2
    QueueSize = 2
    ChainCap = 2
    MaxOpens = 2
    MaxSent = 2
    MaxConnects = 2
    MaxTroubles = 1
INVARIANTS TypeOK EveryByteOnceInOrder DataIsAnnounced
PROPERTY ServerListensAgain
\* the peers, the application and the management may fall silent
CHECK_DEADLOCK FALSE
