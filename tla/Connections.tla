---------------------------- MODULE Connections -----------------------------
(***************************************************************************)
(* The function blocks of a resource and the connections between them, as  *)
(* management commands create and delete them: CFBContainer::createFB and  *)
(* deleteFB, CResource::createConnection and deleteConnection with the     *)
(* four kinds of connections, and CFunctionBlock::deinitialize.            *)
(*                                                                         *)
(* A connection is a pointer from one block to another: an event           *)
(* connection of the source points to its destinations, a data input       *)
(* points to the connection of its source, adapter and in-out connections  *)
(* point both ways.  The block that is pointed to counts the pointer in    *)
(* mConnRefCount, and may be deleted when it is not running and the count  *)
(* is zero.  Nothing else keeps a pointer from outliving its block.        *)
(*                                                                         *)
(* A member of FB is one object; several may have the same name, and are   *)
(* then created one after the other.  A block has at most one port of each *)
(* kind.  Type checks, struct members and negated sources are left out.    *)
(***************************************************************************)
EXTENDS FBStates, Integers, Sequences, FiniteSets

CONSTANTS
    FB,                     \* function block objects
    None,                   \* the null pointer
    NameOf,                 \* instance name of every object
    EO, EI,                 \* blocks with an event output, an event input
    DO, DI,                 \* ... a data output, a data input
    Plugs, Sockets,         \* ... a plug, a socket
    DIO,                    \* ... an in-out variable
    CountMod,               \* number of values of mConnRefCount (size_t)
    MaxDestinations,        \* bound: destinations of an event output
    StateCommands,          \* execution state commands in use
    Careful                 \* whether only absent connections are created and only
                            \* existing ones deleted

ASSUME ConnectionsAssumption ==
    /\ IsFiniteSet(FB)
    /\ None \notin FB
    /\ CountMod \in Nat \ {0}
    /\ MaxDestinations \in Nat
    /\ StateCommands \subseteq Commands
    /\ Careful \in BOOLEAN
    /\ EO \cup EI \cup DO \cup DI \cup Plugs \cup Sockets \cup DIO \subseteq FB

VARIABLES
    life,                   \* "new", "live" or "deleted"
    mFBState,
    mConnRefCount,
    mDestinationIds,        \* of the event output
    connDI,                 \* source of the data input
    adapterCon,             \* block with the plug that the socket is connected to
    dioIn                   \* source of the in-out variable

pointers == <<mDestinationIds, connDI, adapterCon, dioIn>>
vars == <<life, mFBState, mConnRefCount, pointers>>

live == {f \in FB : life[f] = "live"}

Init ==
    /\ life = [f \in FB |-> "new"]
    /\ mFBState = [f \in FB |-> "Idle"]
    /\ mConnRefCount = [f \in FB |-> 0]
    /\ mDestinationIds = [f \in FB |-> <<>>]
    /\ connDI = [f \in FB |-> None]
    /\ adapterCon = [f \in FB |-> None]
    /\ dioIn = [f \in FB |-> None]

\* incConnRefCount, decConnRefCount: an unsigned count that wraps.
inc(count, f) == [count EXCEPT ![f] = (@ + 1) % CountMod]
dec(count, f) == [count EXCEPT ![f] = (@ - 1) % CountMod]

-----------------------------------------------------------------------------
(* Function blocks *)

\* The name is looked up first; a second block of the same name is refused.
createFB(f) ==
    /\ life[f] = "new"
    /\ \A g \in live : NameOf[g] # NameOf[f]
    /\ life' = [life EXCEPT ![f] = "live"]
    /\ UNCHANGED <<mFBState, mConnRefCount, pointers>>

changeExecutionState(f, c) ==
    /\ f \in live
    /\ Legal(c, mFBState[f])
    /\ mFBState' = [mFBState EXCEPT ![f] = Target(c)]
    /\ UNCHANGED <<life, mConnRefCount, pointers>>

\* mutant: a block that others point to is deleted as well
isCurrentlyDeleteableAny(f) == mFBState[f] # "Running"

isCurrentlyDeleteable(f) == mFBState[f] # "Running" /\ mConnRefCount[f] = 0

\* std::remove of the one entry that equals d among the first size: the later ones move
\* forward, the last keeps its place.
shifted(list, d, size) ==
    [j \in DOMAIN list |->
        IF j < size /\ (\E k \in 1 .. j : list[k] = d) THEN list[j + 1] ELSE list[j]]

\* The size after erase.  addDestination keeps the entries distinct.
remaining(list, d, size) == IF \E k \in 1 .. size : list[k] = d THEN size - 1 ELSE size

removeDestination(list, d) ==
    SubSeq(shifted(list, d, Len(list)), 1, remaining(list, d, Len(list)))

\* One pass of the loop over the event destinations.  The loop runs to the end the vector
\* had when it began, while disconnect erases from the vector: entry i is read from the
\* vector's memory as the earlier passes have left it.  The count of the destination goes
\* down whether it was found or not.
disconnectNth(loop, i) ==
    LET dst == loop.memory[i]
    IN  [memory |-> shifted(loop.memory, dst, loop.size),
         size   |-> remaining(loop.memory, dst, loop.size),
         count  |-> dec(loop.count, dst)]

\* The vector's memory, its size and the counts before the loop and after each pass.
disconnectLoop(all, count) ==
    LET loop[i \in 0 .. Len(all)] ==
            IF i = 0 THEN [memory |-> all, size |-> Len(all), count |-> count]
                     ELSE disconnectNth(loop[i - 1], i)
    IN  loop

\* mutant: the event destinations are not disconnected
disconnectEventsNot(f, count) == count

\* The counts after all event connections of f have been disconnected.
disconnectEvents(f, count) ==
    disconnectLoop(mDestinationIds[f], count)[Len(mDestinationIds[f])].count

\* Data input: the source counts its destinations.
disconnectData(f, count) == IF connDI[f] = None THEN count ELSE dec(count, connDI[f])

\* Socket and in-out input: both ends count.
disconnectBoth(f, source, count) == IF source = None THEN count ELSE dec(dec(count, f), source)

\* mutant: the interface data of a deleted block is kept
freeInterfaceNot(pointer, f, empty) == pointer

\* freeFBInterfaceData: the connections of the block go with it.
freeInterface(pointer, f, empty) == [pointer EXCEPT ![f] = empty]

\* deinitialize() and the destructor.
deleteFB(f) ==
    /\ f \in live
    /\ isCurrentlyDeleteable(f)
    /\ mConnRefCount' = [disconnectBoth(f, dioIn[f],
                          disconnectBoth(f, adapterCon[f],
                           disconnectData(f,
                            disconnectEvents(f, mConnRefCount)))) EXCEPT ![f] = 0]
    /\ life' = [life EXCEPT ![f] = "deleted"]
    /\ mFBState' = [mFBState EXCEPT ![f] = "Idle"]
    /\ mDestinationIds' = freeInterface(mDestinationIds, f, <<>>)
    /\ connDI' = freeInterface(connDI, f, None)
    \* ~CAdapterConnection of a plug disconnects its socket
    /\ adapterCon' = [s \in FB |-> IF s = f \/ adapterCon[s] = f THEN None ELSE adapterCon[s]]
    /\ dioIn' = freeInterface(dioIn, f, None)

-----------------------------------------------------------------------------
(* Connections.  An answer other than Ready is a step that changes nothing but *)
(* what the code changes on the way.                                        *)

HasEvent(s, d) == \E i \in 1 .. Len(mDestinationIds[s]) : mDestinationIds[s][i] = d

\* addDestination refuses a destination it has; connect counts in either case.
connectEvent(s, d) ==
    /\ s \in EO \cap live /\ d \in EI \cap live
    /\ Careful => ~HasEvent(s, d)
    /\ HasEvent(s, d) \/ Len(mDestinationIds[s]) < MaxDestinations
    /\ mDestinationIds' = [mDestinationIds EXCEPT ![s] = IF HasEvent(s, d) THEN @ ELSE Append(@, d)]
    /\ mConnRefCount' = inc(mConnRefCount, d)
    /\ UNCHANGED <<life, mFBState, connDI, adapterCon, dioIn>>

\* removeDestination finds the destination or not; disconnect counts in either case.
disconnectEvent(s, d) ==
    /\ s \in EO \cap live /\ d \in EI \cap live
    /\ Careful => HasEvent(s, d)
    /\ mDestinationIds' = [mDestinationIds EXCEPT ![s] = removeDestination(@, d)]
    /\ mConnRefCount' = dec(mConnRefCount, d)
    /\ UNCHANGED <<life, mFBState, connDI, adapterCon, dioIn>>

\* mutant: the destination counts, as for events
connectDataCountDst(s, d) ==
    /\ s \in DO \cap live /\ d \in DI \cap live
    /\ Careful => connDI[d] = None
    /\ connDI[d] \in {None, s}
    /\ connDI' = [connDI EXCEPT ![d] = s]
    /\ mConnRefCount' = inc(mConnRefCount, d)
    /\ UNCHANGED <<life, mFBState, mDestinationIds, adapterCon, dioIn>>

\* connectDI refuses an input with another source.  The same source again is accepted,
\* and counted again.
connectData(s, d) ==
    /\ s \in DO \cap live /\ d \in DI \cap live
    /\ Careful => connDI[d] = None
    /\ connDI[d] \in {None, s}
    /\ connDI' = [connDI EXCEPT ![d] = s]
    /\ mConnRefCount' = inc(mConnRefCount, s)
    /\ UNCHANGED <<life, mFBState, mDestinationIds, adapterCon, dioIn>>

\* deleteConnection compares the source the input has with the source named.
deleteDataConnection(s, d) ==
    /\ d \in live /\ s \in live
    /\ connDI[d] = s
    /\ connDI' = [connDI EXCEPT ![d] = None]
    /\ mConnRefCount' = dec(mConnRefCount, s)
    /\ UNCHANGED <<life, mFBState, mDestinationIds, adapterCon, dioIn>>

\* Plug and socket must both be free.
connectAdapter(s, d) ==
    /\ s \in Plugs \cap live /\ d \in Sockets \cap live
    /\ adapterCon[d] = None
    /\ \A x \in FB : adapterCon[x] # s
    /\ adapterCon' = [adapterCon EXCEPT ![d] = s]
    /\ mConnRefCount' = inc(inc(mConnRefCount, d), s)
    /\ UNCHANGED <<life, mFBState, mDestinationIds, connDI, dioIn>>

disconnectAdapter(s, d) ==
    /\ d \in live /\ s \in live
    /\ adapterCon[d] = s
    /\ adapterCon' = [adapterCon EXCEPT ![d] = None]
    /\ mConnRefCount' = dec(dec(mConnRefCount, d), s)
    /\ UNCHANGED <<life, mFBState, mDestinationIds, connDI, dioIn>>

\* An existing connection, or another source, is refused before anything is counted.
connectInOut(s, d) ==
    /\ s \in DIO \cap live /\ d \in DIO \cap live
    /\ dioIn[d] = None
    /\ dioIn' = [dioIn EXCEPT ![d] = s]
    /\ mConnRefCount' = inc(inc(mConnRefCount, d), s)
    /\ UNCHANGED <<life, mFBState, mDestinationIds, connDI, adapterCon>>

disconnectInOut(s, d) ==
    /\ d \in live /\ s \in live
    /\ dioIn[d] = s
    /\ dioIn' = [dioIn EXCEPT ![d] = None]
    /\ mConnRefCount' = dec(dec(mConnRefCount, d), s)
    /\ UNCHANGED <<life, mFBState, mDestinationIds, connDI, adapterCon>>

-----------------------------------------------------------------------------
Next ==
    \/ \E f \in FB : createFB(f) \/ deleteFB(f)
    \/ \E f \in FB, c \in StateCommands : changeExecutionState(f, c)
    \/ \E s, d \in FB :
          \/ connectEvent(s, d)   \/ disconnectEvent(s, d)
          \/ connectData(s, d)    \/ deleteDataConnection(s, d)
          \/ connectAdapter(s, d) \/ disconnectAdapter(s, d)
          \/ connectInOut(s, d)   \/ disconnectInOut(s, d)

Spec == Init /\ [][Next]_vars

-----------------------------------------------------------------------------
(* Properties *)

\* Types; only live blocks hold pointers or are counted.
TypeOK ==
    /\ life \in [FB -> {"new", "live", "deleted"}]
    /\ mFBState \in [FB -> States]
    /\ mConnRefCount \in [FB -> 0 .. CountMod - 1]
    /\ mDestinationIds \in [FB -> Seq(FB)]
    /\ connDI \in [FB -> FB \cup {None}]
    /\ adapterCon \in [FB -> FB \cup {None}]
    /\ dioIn \in [FB -> FB \cup {None}]
    /\ \A f \in FB \ live : mDestinationIds[f] = <<>> /\ {connDI[f], adapterCon[f], dioIn[f]} = {None}

\* Pointers to f: event sources and data destinations, and both ends of an adapter or
\* in-out connection.
References(f) ==
    Cardinality({s \in FB : HasEvent(s, f)})
    + Cardinality({d \in FB : connDI[d] = f})
    + Cardinality({x \in FB : adapterCon[x] = f}) + Cardinality({adapterCon[f]} \ {None})
    + Cardinality({x \in FB : dioIn[x] = f}) + Cardinality({dioIn[f]} \ {None})

\* No live block points to a deleted one: "all connection references to this FB have to be
\* removed" before isCurrentlyDeleteable lets it go.
NoDangling ==
    \A f, g \in FB :
        HasEvent(f, g) \/ connDI[f] = g \/ adapterCon[f] = g \/ dioIn[f] = g => g \in live

\* mConnRefCount is the number of pointers to the block, so that a block becomes deletable
\* as soon as nobody points to it, and no sooner: over every history of creations,
\* connections, disconnections in any order and deletions of connected sources.
CountIsExact ==
    \A f \in live : mConnRefCount[f] = References(f) % CountMod

\* The pointers between blocks as edges of a graph: the refinement mapping.
Edges ==
    (UNION {{<<"event", x, mDestinationIds[x][i]>> : i \in DOMAIN mDestinationIds[x]} : x \in FB})
    \cup {<<"data", x, connDI[x]>>       : x \in {y \in FB : connDI[y] # None}}
    \cup {<<"socket", x, adapterCon[x]>> : x \in {y \in FB : adapterCon[y] # None}}
    \cup {<<"plug", adapterCon[x], x>>   : x \in {y \in FB : adapterCon[y] # None}}
    \cup {<<"in", x, dioIn[x]>>          : x \in {y \in FB : dioIn[y] # None}}
    \cup {<<"out", dioIn[x], x>>         : x \in {y \in FB : dioIn[y] # None}}

Graph == INSTANCE BlockGraph WITH Block <- FB, blocks <- live, edges <- Edges

\* Every command does to the pointers what it should: it adds or removes the pointers of one
\* connection between live blocks, or removes an unreferenced block with its own pointers and
\* no others.  The count that decides about a deletion is thus as good as looking at all
\* pointers, and no pointer ever dangles.
ImplementsGraph == Graph!Spec
=============================================================================
