--------------------------- MODULE ExecutionState ---------------------------
(***************************************************************************)
(* A management command that changes the execution state of a function     *)
(* block, a resource or the device, and with it everything contained.      *)
(*                                                                         *)
(* CFBContainer::changeExecutionState calls the children in the order of   *)
(* their names and stops at the first one that refuses; by then the block  *)
(* itself and the children before have moved.  The recursion is a stack of *)
(* frames, one step per call and per return, so that the states in between *)
(* are there to be seen: the event chain execution threads of the          *)
(* resources run on meanwhile.                                             *)
(***************************************************************************)
EXTENDS FBStates, Integers, Sequences

CONSTANTS
    Node,           \* the device and everything in it
    Device,
    Resources,      \* the resources below the device, each with a thread of its own
    Groups,         \* plain CFBContainers, which are no function blocks
    mChildren,      \* the children of each node, sorted by name
    NoNode

Blocks == Node \ Groups     \* isFB()

ASSUME ContainmentAssumption ==
    /\ Resources \subseteq Blocks
    /\ Device \in Blocks \ Resources
    /\ mChildren \in [Node -> Seq(Node)]
    /\ NoNode \notin Node

VARIABLES
    mFBState,       \* execution state of each block
    alive,          \* the resources whose thread has been started
    handlers,       \* whether timer and I/O handlers of the device are enabled
    stack,          \* the calls of changeExecutionState under way, innermost first
    command,        \* paCommand
    retVal,
    target          \* the node the command in execution, or the last one, was sent to

vars == <<mFBState, alive, handlers, stack, command, retVal, target>>

Frame == [node : Node, next : Nat]

Init ==
    /\ mFBState = [n \in Blocks |-> "Idle"]
    /\ alive = {}
    /\ handlers = TRUE
    /\ stack = <<>>
    /\ command = "Reset"
    /\ retVal = "InvalidState"
    /\ target = NoNode

-----------------------------------------------------------------------------
\* mutant: a killed block counts as started
checkForActionEquivalentStateStart(n) ==
    IF \/ command = "Stop" /\ mFBState[n] = "Killed"
       \/ command = "Kill" /\ mFBState[n] \in {"Stopped", "Idle"}
       \/ command = "Start" /\ mFBState[n] = "Killed"
    THEN "Ready"
    ELSE "InvalidState"

\* A refusal is no error when the block is in a state as good as the one commanded.
checkForActionEquivalentState(n) ==
    IF \/ command = "Stop" /\ mFBState[n] = "Killed"
       \/ command = "Kill" /\ mFBState[n] \in {"Stopped", "Idle"}
    THEN "Ready"
    ELSE "InvalidState"

\* CFunctionBlock::changeExecutionState up to the children: the block itself has moved.
moved(n, c) == IF n \in Blocks THEN [mFBState EXCEPT ![n] = Target(c)] ELSE mFBState

\* handleExecutionStateCmd: the command comes in for a block, which accepts it or not.
\* CDevice disables the handlers at once when it is killed.
handleExecutionStateCmd(n, c) ==
    /\ stack = <<>>
    /\ target' = n
    /\ command' = c
    /\ handlers' = (handlers /\ ~(n = Device /\ c = "Kill"))
    /\ IF Legal(c, mFBState[n])
       THEN /\ mFBState' = moved(n, c)
            /\ stack' = <<[node |-> n, next |-> 1]>>
            /\ retVal' = "Ready"
       ELSE /\ retVal' = "InvalidState"
            /\ UNCHANGED <<mFBState, stack>>
    /\ UNCHANGED alive

Top == Head(stack)
Child == mChildren[Top.node][Top.next]
Advanced == <<[Top EXCEPT !.next = @ + 1]>> \o Tail(stack)

\* The loop of CFBContainer::changeExecutionState goes on as long as all went well.
loopGoesOn == retVal = "Ready" /\ Top.next <= Len(mChildren[Top.node])

\* The child accepts: it moves and its own children are next.
callChild ==
    /\ stack # <<>>
    /\ loopGoesOn
    /\ Child \in Blocks => Legal(command, mFBState[Child])
    /\ mFBState' = moved(Child, command)
    /\ stack' = <<[node |-> Child, next |-> 1]>> \o Advanced
    /\ UNCHANGED <<alive, handlers, command, retVal, target>>

\* The child refuses.
childRefuses ==
    /\ stack # <<>>
    /\ loopGoesOn
    /\ Child \in Blocks /\ ~Legal(command, mFBState[Child])
    /\ retVal' = checkForActionEquivalentState(Child)
    /\ stack' = Advanced
    /\ UNCHANGED <<mFBState, alive, handlers, command, target>>

\* mResourceEventExecution->changeExecutionState
executionChanged(n) ==
    CASE command = "Start"             -> alive \cup {n}
      [] command \in {"Stop", "Kill"}  -> alive \ {n}
      [] command = "Reset"             -> alive

\* mutant: the thread of a resource follows the command whatever the children answered
returnFromCallAnyway ==
    /\ stack # <<>>
    /\ ~loopGoesOn
    /\ alive' = IF Top.node \in Resources THEN executionChanged(Top.node) ELSE alive
    /\ retVal' = IF retVal # "Ready" /\ Top.node \in Blocks /\ Len(stack) > 1
                 THEN checkForActionEquivalentState(Top.node)
                 ELSE retVal
    /\ stack' = Tail(stack)
    /\ UNCHANGED <<mFBState, handlers, command, target>>

\* mutant: the command goes to a thread the node does not have
returnFromCallNoCheck ==
    /\ stack # <<>>
    /\ ~loopGoesOn
    /\ alive' = IF retVal = "Ready" THEN executionChanged(Top.node) ELSE alive
    /\ retVal' = IF retVal # "Ready" /\ Top.node \in Blocks /\ Len(stack) > 1
                 THEN checkForActionEquivalentState(Top.node)
                 ELSE retVal
    /\ stack' = Tail(stack)
    /\ UNCHANGED <<mFBState, handlers, command, target>>

\* The call for the node on top returns.  CResource hands the command to its thread when
\* all of its blocks have accepted; the calling container looks at a refusal once more.
returnFromCall ==
    /\ stack # <<>>
    /\ ~loopGoesOn
    /\ alive' = IF retVal = "Ready" /\ Top.node \in Resources
                THEN executionChanged(Top.node)
                ELSE alive
    /\ retVal' = IF retVal # "Ready" /\ Top.node \in Blocks /\ Len(stack) > 1
                 THEN checkForActionEquivalentState(Top.node)
                 ELSE retVal
    /\ stack' = Tail(stack)
    /\ UNCHANGED <<mFBState, handlers, command, target>>

Next ==
    \/ \E n \in Blocks, c \in Commands : handleExecutionStateCmd(n, c)
    \/ callChild \/ childRefuses \/ returnFromCall

Spec == Init /\ [][Next]_vars

-----------------------------------------------------------------------------
(* Properties *)

\* Types; only a resource has a thread that changeExecutionState can reach.
TypeOK ==
    /\ mFBState \in [Blocks -> States]
    /\ alive \subseteq Resources
    /\ handlers \in BOOLEAN
    /\ stack \in Seq(Frame)
    /\ command \in Commands
    /\ retVal \in {"Ready", "InvalidState"}
    /\ target \in Blocks \cup {NoNode}

\* The set S is closed under containment: below a node of S that let the command pass,
\* everything is in S.
Closed(S, passes(_)) ==
    \A n \in S : passes(n) => \A i \in 1 .. Len(mChildren[n]) : mChildren[n][i] \in S

\* Everything that is contained in n, with n itself; and the part of it that a command
\* reaches, which goes on only below the blocks that took the command themselves.
Contained(n) ==
    {m \in Node : \A S \in SUBSET Node : n \in S /\ Closed(S, LAMBDA x : TRUE) => m \in S}
TookCommand(n) == n \in Blocks => mFBState[n] = Target(command)
ReachedFrom(n) ==
    {m \in Node : \A S \in SUBSET Node : n \in S /\ Closed(S, TookCommand) => m \in S}

\* The states that satisfy a command.
Satisfying(c) ==
    CASE c = "Start" -> {"Running"}
      [] c = "Stop"  -> {"Stopped", "Killed"}
      [] c = "Kill"  -> {"Killed", "Stopped", "Idle"}
      [] c = "Reset" -> {"Idle"}

\* The thread of the resource is as the command wants it.
ThreadFollowed(r) ==
    /\ command = "Start" => r \in alive
    /\ command \in {"Stop", "Kill"} => r \notin alive

\* What lies below a block that refused the command in a state as good as the commanded one:
\* the command was not handed on to it.  No such state exists for Start and for Reset.
Equivalent == {n \in Blocks : mFBState[n] \in Satisfying(command) \ {Target(command)}}
BelowEquivalent ==
    UNION {UNION {Contained(mChildren[n][i]) : i \in 1 .. Len(mChildren[n])} :
              n \in Equivalent \cap Contained(target)}

\* A command that is answered Ready has been carried out by every block in the target, at
\* every depth and whatever mixture of states earlier commands have left behind, and the
\* thread of every resource that took it has followed.  The exception: a Stop or Kill is
\* not handed on by a block that refuses it in a state the code holds to be as good
\* (checkForActionEquivalentState), and a refused command, or one sent to a block inside,
\* may have left running blocks below such a block; they run on although the answer is Ready
\* (see KillEndsExecution).
ReadyMeansDone ==
    stack = <<>> /\ retVal = "Ready" =>
        \A n \in (Contained(target) \cap Blocks) \ BelowEquivalent :
            /\ mFBState[n] \in Satisfying(command)
            /\ n \in Resources /\ TookCommand(n) => ThreadFollowed(n)

\* The thread of a resource is started only when every block in the resource is running,
\* so that no block misses the first events of the application, and stopped only when
\* no block that the command reached is running any more.
ExecutionFollowsBlocks ==
    [][\A r \in Resources :
          /\ r \in alive' \ alive =>
                \A n \in Contained(r) \cap Blocks : mFBState[n] = "Running"
          /\ r \in alive \ alive' =>
                \A n \in ReachedFrom(r) \cap Blocks : mFBState[n] # "Running"]_vars

\* What CDevice says of awaitShutdown, "The execution of devices can be stopped by sending
\* it the kill command": after a kill of the device that was answered Ready no event chain
\* execution thread is left.
KillEndsExecution ==
    stack = <<>> /\ retVal = "Ready" /\ target = Device /\ command = "Kill" => alive = {}
=============================================================================
